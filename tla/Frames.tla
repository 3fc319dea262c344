------------------------------- MODULE Frames -------------------------------
(***************************************************************************)
(* The table of astronomical frames of ephemeris.rs, the lookups over it,  *)
(* and the NAIF numbering that the orbits rely on.  A frame is the pair of *)
(* its ephemeris id and its orientation id.                                *)
(***************************************************************************)
EXTENDS Integers, Sequences

InertialFrame(name, e) == <<name, e, 1>>
FixedFrame(name, e) == <<name, e, e>>

\* In the order of the source: the first name of a pair is the one displayed.
ASTRO_FRAMES == <<
    InertialFrame("ICRF", 0), InertialFrame("J2000", 0), InertialFrame("SSB", 0),
    InertialFrame("GCRF", 399), InertialFrame("EME2000", 399), InertialFrame("EMB", 3),
    InertialFrame("MERCURY_BARYCENTER", 1), InertialFrame("VENUS_BARYCENTER", 2),
    InertialFrame("MARS_BARYCENTER", 4), InertialFrame("JUPITER_BARYCENTER", 5),
    InertialFrame("SATURN_BARYCENTER", 6), InertialFrame("URANUS_BARYCENTER", 7),
    InertialFrame("NEPTUNE_BARYCENTER", 8), InertialFrame("PLUTO_BARYCENTER", 9),
    FixedFrame("Sun", 10), FixedFrame("Mercury", 199), FixedFrame("Venus", 299), FixedFrame("Earth", 399),
    FixedFrame("Moon", 301), FixedFrame("Mars", 499), FixedFrame("Jupiter", 599), FixedFrame("Saturn", 699),
    FixedFrame("Uranus", 799), FixedFrame("Neptune", 899),
    InertialFrame("Pluto", 999), InertialFrame("Phobos", 401), InertialFrame("Deimos", 402),
    InertialFrame("Io", 501), InertialFrame("Europa", 502), InertialFrame("Ganymede", 503),
    InertialFrame("Callisto", 504), InertialFrame("Titan", 606), InertialFrame("Enceladus", 602),
    FixedFrame("IAU_SUN", 10), FixedFrame("IAU_MERCURY", 199), FixedFrame("IAU_VENUS", 299),
    FixedFrame("IAU_EARTH", 399), FixedFrame("IAU_MOON", 301), FixedFrame("IAU_MARS", 499),
    FixedFrame("IAU_JUPITER", 599), FixedFrame("IAU_SATURN", 699), FixedFrame("IAU_URANUS", 799),
    FixedFrame("IAU_NEPTUNE", 899), FixedFrame("IAU_PLUTO", 999), FixedFrame("IAU_CHARON", 901),
    FixedFrame("IAU_PHOBOS", 401), FixedFrame("IAU_DEIMOS", 402), FixedFrame("IAU_IO", 501),
    FixedFrame("IAU_EUROPA", 502), FixedFrame("IAU_GANYMEDE", 503), FixedFrame("IAU_CALLISTO", 504),
    FixedFrame("IAU_MIMAS", 601), FixedFrame("IAU_ENCELADUS", 602), FixedFrame("IAU_TETHYS", 603),
    FixedFrame("IAU_DIONE", 604), FixedFrame("IAU_RHEA", 605), FixedFrame("IAU_TITAN", 606),
    FixedFrame("IAU_IAPETUS", 608), FixedFrame("IAU_ARIEL", 701), FixedFrame("IAU_UMBRIEL", 702),
    FixedFrame("IAU_TITANIA", 703), FixedFrame("IAU_OBERON", 704), FixedFrame("IAU_MIRANDA", 705),
    FixedFrame("IAU_TRITON", 801) >>

FrameRows == DOMAIN ASTRO_FRAMES
TopRow(rows) == CHOOSE i \in rows : \A j \in rows : i <= j

NameAt(i) == ASTRO_FRAMES[i][1]
PairAt(i) == [eph |-> ASTRO_FRAMES[i][2], orient |-> ASTRO_FRAMES[i][3]]

FrameNames == {NameAt(i) : i \in FrameRows}
FramePairs == {PairAt(i) : i \in FrameRows}

\* frame_pair, of a name that the table has.  A name it does not have is refused
\* wherever a name is looked up.
FramePair(name) == PairAt(TopRow({i \in FrameRows : NameAt(i) = name}))

Recognised(pair) == pair \in FramePairs

FrameName(pair) == NameAt(TopRow({i \in FrameRows : PairAt(i) = pair}))

-----------------------------------------------------------------------------
\* CelestialBody::ALL by NAIF id.  A body is its own body-fixed frame.
CelestialBodies == {10, 199, 299, 399, 301, 499, 599, 699, 799, 899}
BodyFixed(naif) == [eph |-> naif, orient |-> naif]
EntityId(naif) == BodyFixed(naif)

SunId == EntityId(10)

\* PrescribedId::astronomical of a planet's frames, the first that the table has.
PlanetOf(naif) ==
    LET planet == (naif \div 100) * 100 + 99
        kinds == <<BodyFixed(planet), [eph |-> planet, orient |-> 1]>>
    IN  {kinds[k] : k \in {i \in 1..2 : Recognised(kinds[i]) /\ (i = 2 => ~Recognised(kinds[1]))}}

\* default_centre: the set of the centre, empty for None.
DefaultCentre(pair) ==
    LET naif == pair.eph
    IN  IF naif \in 1..9 THEN {SunId}
        ELSE IF naif \in 100..999 /\ naif % 100 = 99 THEN {SunId}
        ELSE IF naif \in 100..999 /\ naif % 100 # 0 THEN PlanetOf(naif)
        ELSE {}
=============================================================================
