------------------------------ MODULE Ephemeris ------------------------------
(***************************************************************************)
(* What a server answers from its almanac (ephemeris.rs, and the actions   *)
(* append_snapshot, query_orbits and load_kernel of service.rs).           *)
(*                                                                         *)
(* anise is external: an almanac is the set of kernels it loaded, and a    *)
(* kernel is what it covers,                                               *)
(*   positions  pairs of an ephemeris id and a time it knows the body at,  *)
(*   orients    orientation ids it can rotate from,                        *)
(*   gms        ephemeris ids it knows the mass of.                        *)
(* A function that may refuse returns the set of its result.  A vector is  *)
(* written as the question that anise answered with it.                    *)
(***************************************************************************)
EXTENDS Names, Schemas

CONSTANTS
    Kernels,        \* the kernels there are, [positions, orients, gms, readable]
    Instants,       \* epochs that requests name
    SnapshotBodies, \* lists of wire ids for append_snapshot
    OrbitRequests,  \* lists of [body, centre] for query_orbits, centre a set
    SampleCounts,   \* sample counts for query_orbits
    MaxOrbitSamples,
    Period,         \* of each ephemeris id: the period of its orbit, a multiple of what a path divides it by
    Unbound,        \* pairs of ephemeris ids: this body does not orbit that centre
    MaxSnapshots    \* bound: snapshots appended

ASSUME EphemerisAssumption ==
    /\ MaxOrbitSamples \in Nat /\ MaxSnapshots \in Nat
    /\ Instants \subseteq Int /\ SampleCounts \subseteq Nat
    /\ \A bodies \in SnapshotBodies : IsList(bodies)
    /\ \A wires \in OrbitRequests :
          /\ IsList(wires)
          /\ \A k \in DOMAIN wires : \A c, d \in wires[k].centre : c = d
    /\ \A kernel \in Kernels : \A naif \in kernel.gms :
          /\ Period[naif] \in Int
          /\ \A samples \in SampleCounts \cap (2..MaxOrbitSamples) : (Period[naif] % (2 * (samples - 1))) = 0

VARIABLES
    almanac,        \* the kernels loaded
    snapshots,      \* the batches that append_snapshot brought into the ledger
    orbits          \* the last answer of query_orbits, with the request

ephemerisVars == <<almanac, snapshots, orbits>>

-----------------------------------------------------------------------------
(* anise. *)

\* The solar system barycentre is where positions are counted from.
Located(kernels, eph, t) == eph = 0 \/ \E k \in kernels : <<eph, t>> \in k.positions
\* J2000, orientation 1, is the axes themselves.
Oriented(kernels, orient) == orient = 1 \/ \E k \in kernels : orient \in k.orients
Weighed(kernels, eph) == \E k \in kernels : eph \in k.gms

Translate(kernels, from, to, t) ==
    IF from.eph = to.eph \/ (Located(kernels, from.eph, t) /\ Located(kernels, to.eph, t))
    THEN {[from |-> from.eph, to |-> to.eph, at |-> t]} ELSE {}

Rotate(kernels, from, to, t) ==
    IF from.orient = to.orient \/ (Oriented(kernels, from.orient) /\ Oriented(kernels, to.orient))
    THEN {[turn |-> <<from.orient, to.orient>>, at |-> t]} ELSE {}

\* How fast a frame turns against J2000: unknown for what does not turn.
Spin(frame, t) == IF frame.orient = 1 THEN "null" ELSE [spin |-> frame.orient, at |-> t]

\* An osculating element of the orbit of a body about a centre, and a part of an epoch.
Element(name, body, centre, t) == [element |-> name, body |-> body.eph, centre |-> centre.eph, at |-> t]
Part(name, t) == [part |-> name, at |-> t]

WithOrient(pair, orient) == [pair EXCEPT !.orient = orient]
J2000Axes == 1

-----------------------------------------------------------------------------
(* Wire ids. *)

\* WireId::mint
MintWire(wire) ==
    IF wire.form = "named" THEN Mint(KindSoloc, wire.authority, wire.name)
    ELSE IF wire.form = "astronomical" THEN Astronomical(wire.pair)
    ELSE FromBytes(wire.raw)

Minted(wires) == [i \in DOMAIN wires |-> CHOOSE id \in MintWire(wires[i]) : TRUE]
MintAll(wires) == IF \E i \in DOMAIN wires : MintWire(wires[i]) = {} THEN {} ELSE {Minted(wires)}

-----------------------------------------------------------------------------
(* Snapshots. *)

SsbFrame == FramePair("SSB")
IcrfId == CHOOSE id \in Astronomical([eph |-> 0, orient |-> 1]) : TRUE
AniseSourceId == CHOOSE id \in Mint(KindAbstract, "anise", "almanac") : TRUE

\* gm_km3_s2
Gm(kernels, pair) == IF Weighed(kernels, pair.eph) THEN {[gm |-> pair.eph]} ELSE {}

\* celestial_state, or nothing: CelestialState, whose velocity and spin are per second.
CelestialState(kernels, id, t) ==
    IF id.kind # KindAstro THEN {}
    ELSE LET frame == AstroFrame(id)
         IN  {[position_km |-> r, velocity_m_s |-> [rate |-> r, per |-> "m/s"], orientation |-> q,
               angular_velocity_rad_s |-> Spin(frame, t), mass_kg |-> m] :
                 r \in Translate(kernels, frame, SsbFrame, t),
                 q \in Rotate(kernels, frame, SsbFrame, t),
                 m \in Gm(kernels, frame)}

\* The arguments of append_entity for one body.
SnapshotRow(kernels, id, t) ==
    LET state == CHOOSE s \in CelestialState(kernels, id, t) : TRUE
    IN  [entity_id |-> id, frame_id |-> IcrfId, units_pos |-> "km", timescale_id |-> "TAI",
         source_id |-> AniseSourceId, estimate_type |-> "MEASURED",
         position |-> state.position_km, quaternion |-> state.orientation,
         duration_centuries |-> Part("centuries", t), duration_ns |-> Part("ns", t),
         velocity |-> state.velocity_m_s, angular_velocity |-> state.angular_velocity_rad_s,
         acceleration |-> "null", mass_kg |-> state.mass_kg, state_covariance |-> "null",
         dimensions |-> "null"]

\* celestial_snapshot: the first body that fails ends it.
CelestialSnapshot(kernels, ids, t) ==
    IF ids = <<>> \/ \E k \in DOMAIN ids : CelestialState(kernels, ids[k], t) = {} THEN {}
    ELSE {Built([k \in DOMAIN ids |-> SnapshotRow(kernels, ids[k], t)])}

-----------------------------------------------------------------------------
(* Orbits. *)

\* The sample times of a path, relative to the epoch.
PathTimes(body, samples) ==
    [i \in 1..samples |-> (Period[body] * (2 * (i - 1) - (samples - 1))) \div (2 * (samples - 1))]

\* The centre that was named, or the default one.
CentreOf(request) ==
    IF request.centre # {} THEN request.centre
    ELSE UNION {Astronomical(pair) : pair \in DefaultCentre(AstroFrame(request.body))}

PathKnown(kernels, body, centre, t, times) ==
    \A i \in DOMAIN times : Translate(kernels, body, centre, t + times[i]) # {}

Elements == {"sma_km", "ecc", "inc_deg", "raan_deg", "aop_deg", "ta_deg", "period_s"}

\* celestial_orbit about a given centre: CelestialOrbit.  The orbit of a body that is not bound is refused.
OrbitAbout(kernels, request, centreId, t, samples) ==
    LET body == WithOrient(AstroFrame(request.body), J2000Axes)
        centre == WithOrient(AstroFrame(centreId), J2000Axes)
        times == PathTimes(body.eph, samples)
    IN  IF \/ centreId.kind # KindAstro
           \/ body.eph = centre.eph
           \/ Gm(kernels, centre) = {} \/ Gm(kernels, body) = {}
           \/ Translate(kernels, body, centre, t) = {}
           \/ <<body.eph, centre.eph>> \in Unbound
           \/ ~PathKnown(kernels, body, centre, t, times)
        THEN {}
        ELSE {[body |-> request.body, centre |-> centreId,
               elements |-> [e \in Elements |-> Element(e, body, centre, t)],
               path_dt_s |-> times,
               path_km |-> [i \in DOMAIN times |-> Translate(kernels, body, centre, t + times[i])],
               duration_centuries |-> Part("centuries", t), duration_ns |-> Part("ns", t)]}

CelestialOrbit(kernels, request, t, samples) ==
    IF samples < 2 \/ request.body.kind # KindAstro THEN {}
    ELSE UNION {OrbitAbout(kernels, request, centre, t, samples) : centre \in CentreOf(request)}

\* orbit_schema
OrbitSchema ==
    <<IdField("body_id"), IdField("centre_id"), Field("duration_centuries", "i16", FALSE),
      Field("duration_ns", "u64", FALSE), Field("sma_km", "f64", FALSE), Field("ecc", "f64", FALSE),
      Field("inc_deg", "f64", FALSE), Field("raan_deg", "f64", FALSE), Field("aop_deg", "f64", FALSE),
      Field("ta_deg", "f64", FALSE), Field("period_s", "f64", FALSE),
      Field("path_dt_s", "f64[]", FALSE), Field("path_km", "f64[3][]", FALSE)>>

\* The columns of an orbit, by position.
OrbitRow(orbit) ==
    <<orbit.body, orbit.centre, orbit.duration_centuries, orbit.duration_ns,
      orbit.elements.sma_km, orbit.elements.ecc, orbit.elements.inc_deg, orbit.elements.raan_deg,
      orbit.elements.aop_deg, orbit.elements.ta_deg, orbit.elements.period_s,
      orbit.path_dt_s, orbit.path_km>>

OrbitBatch(kernels, requests, t, samples) ==
    [schema |-> OrbitSchema,
     rows |-> [k \in DOMAIN requests |->
                  OrbitRow(CHOOSE o \in CelestialOrbit(kernels, requests[k], t, samples) : TRUE)]]

\* Bug: the orbits that can be had are the answer.
OrbitsOfSome(kernels, requests, t, samples) ==
    LET had == SelectSeq(requests, LAMBDA r : CelestialOrbit(kernels, r, t, samples) # {})
    IN  {OrbitBatch(kernels, had, t, samples)}

\* celestial_orbits
CelestialOrbits(kernels, requests, t, samples) ==
    IF requests = <<>> \/ \E k \in DOMAIN requests : CelestialOrbit(kernels, requests[k], t, samples) = {}
    THEN {}
    ELSE {OrbitBatch(kernels, requests, t, samples)}

-----------------------------------------------------------------------------
(* Actions. *)

AppendSnapshotBody == [bodies : SnapshotBodies, epoch_tai_s : Instants]
QueryOrbitsBody == [orbits : OrbitRequests, epoch_tai_s : Instants, samples : SampleCounts]

\* The snapshot action: every id is minted and every state computed before a row is stored.
AppendSnapshot(body) ==
    /\ Len(snapshots) < MaxSnapshots
    /\ \E ids \in MintAll(body.bodies) :
          \E batch \in CelestialSnapshot(almanac, ids, body.epoch_tai_s) :
              snapshots' = Append(snapshots, [body |-> body, batch |-> batch])
    /\ UNCHANGED <<almanac, orbits>>

RequestsOf(wires) ==
    LET bodies == MintAll([k \in DOMAIN wires |-> wires[k].body])
    IN  IF bodies = {} \/ \E k \in DOMAIN wires : \E c \in wires[k].centre : MintWire(c) = {} THEN {}
        ELSE {[k \in DOMAIN wires |->
                  [body |-> Minted([j \in DOMAIN wires |-> wires[j].body])[k],
                   centre |-> UNION {MintWire(c) : c \in wires[k].centre}]]}

QueryOrbits(body) ==
    /\ body.samples <= MaxOrbitSamples
    /\ \E requests \in RequestsOf(body.orbits) :
          \E answer \in CelestialOrbits(almanac, requests, body.epoch_tai_s, body.samples) :
              orbits' = {[requests |-> requests, body |-> body, batch |-> answer]}
    /\ UNCHANGED <<almanac, snapshots>>

\* load_kernel: the clone with the kernel replaces the almanac, if the kernel can be read.
LoadKernel(kernel) ==
    /\ kernel.readable
    /\ almanac' = almanac \cup {kernel}
    /\ UNCHANGED <<snapshots, orbits>>

EphemerisInit == almanac = {} /\ snapshots = <<>> /\ orbits = {}

EphemerisNext ==
    \/ \E kernel \in Kernels : LoadKernel(kernel)
    \/ \E body \in AppendSnapshotBody : AppendSnapshot(body)
    \/ \E body \in QueryOrbitsBody : QueryOrbits(body)

EphemerisSpec == EphemerisInit /\ [][EphemerisNext]_ephemerisVars

-----------------------------------------------------------------------------
(* Properties. *)

\* A snapshot has one row per body asked for, in that order and under that body's id, and
\* each row is that body's own position, motion, orientation and mass at the epoch asked
\* for: no body is dropped or filled in where a kernel is missing, and no value is under
\* another's name.
SnapshotIsWhole ==
    \A n \in DOMAIN snapshots :
        LET body == snapshots[n].body
            batch == snapshots[n].batch
        IN  /\ Len(batch.rows) = Len(body.bodies)
            /\ \A k \in DOMAIN body.bodies :
                  LET id == Value(batch, k, "entity_id")
                      position == [from |-> AstroFrame(id).eph, to |-> 0, at |-> body.epoch_tai_s]
                  IN  /\ MintWire(body.bodies[k]) = {id}
                      /\ Sts(batch, k, "frame_id") = IcrfId
                      /\ Sts(batch, k, "position") = position
                      /\ Value(batch, k, "velocity").rate = position
                      /\ Value(batch, k, "mass_kg") = [gm |-> AstroFrame(id).eph]
                      /\ Sts(batch, k, "duration_ns") = Part("ns", body.epoch_tai_s)

\* Orbits answer the requests one by one and in order, about the centre that was asked for,
\* and each element is that orbit's at the epoch asked for.
OrbitsAnswerTheRequests ==
    \A a \in orbits :
        /\ Len(a.batch.rows) = Len(a.requests)
        /\ \A k \in DOMAIN a.requests :
              LET body == Value(a.batch, k, "body_id")
                  centre == Value(a.batch, k, "centre_id")
              IN  /\ body = a.requests[k].body
                  /\ a.requests[k].centre # {} => a.requests[k].centre = {centre}
                  /\ \A e \in Elements :
                        Value(a.batch, k, e)
                            = Element(e, AstroFrame(body), AstroFrame(centre), a.body.epoch_tai_s)

\* A path runs from half a period before the epoch to half a period after it in equal
\* steps, and the kernels know the body at each of them.
PathsSpanThePeriod ==
    \A a \in orbits : \A k \in DOMAIN a.batch.rows :
        LET times == Value(a.batch, k, "path_dt_s")
            path == Value(a.batch, k, "path_km")
            samples == a.body.samples
            period == Period[AstroFrame(Value(a.batch, k, "body_id")).eph]
        IN  /\ Len(path) = samples /\ Len(times) = samples
            /\ times[1] = -(period \div 2) /\ times[samples] = period \div 2
            /\ \A i \in 1..(samples - 1) : (times[i + 1] - times[i]) * (samples - 1) = period
            /\ \A i \in DOMAIN path : path[i] # {}

\* Every body of the catalogue has an id (entity_id expects it), by default a body goes
\* around another body, and from each frame of the table the default centres lead to the
\* Sun, if anywhere.
CentresLeadToTheSun ==
    /\ \A naif \in CelestialBodies : Recognised(EntityId(naif))
    /\ \A pair \in FramePairs :
          \/ DefaultCentre(pair) = {}
          \/ \E centre \in DefaultCentre(pair) :
                /\ centre.eph # pair.eph
                /\ centre = SunId \/ DefaultCentre(centre) = {SunId}

\* What the almanac is asked is answered as a whole or refused, whichever kernels are
\* loaded when: a body, a centre or a sample that no kernel knows never leaves a gap or
\* shifts the rows behind it.
AlmanacAnswersAreWhole ==
    SnapshotIsWhole /\ OrbitsAnswerTheRequests /\ PathsSpanThePeriod /\ CentresLeadToTheSun
=============================================================================
