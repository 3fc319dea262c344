------------------------------- MODULE Startup -------------------------------
(***************************************************************************)
(* How the server comes up (main.rs): the configuration is found or        *)
(* defaulted, the address and the memory limit are parsed, and kernels are *)
(* loaded from the first source that is configured.  What is loaded into   *)
(* the ledger afterwards is modelled in Server.                            *)
(*                                                                         *)
(* A text that holds a byte count is its number, None when the number is   *)
(* missing, and its unit.  Integers are usize, 0..MaxUsize.                *)
(***************************************************************************)
EXTENDS Integers, SequencesExt

CONSTANTS
    Environments,   \* what a start may find: the file, the variables, the network
    Addresses,      \* the bind texts that are socket addresses
    Scales,         \* BYTE_UNITS: unit -> scale
    MaxUsize        \* usize::MAX

ASSUME StartupAssumption ==
    /\ MaxUsize \in Nat
    /\ \A unit \in DOMAIN Scales : Scales[unit] \in 1..MaxUsize
    /\ \A env \in Environments :
          /\ env.file.state = "parsed" => \A t, u \in env.file.config.memoryLimit : t = u
          /\ "latest" \notin env.readable

VARIABLES
    environment,    \* what this start finds
    phase,          \* "loading", "opening", "aborted" or "listening"
    config,         \* the configuration in use
    kernels,        \* the kernels loaded
    memoryLimit     \* the limit handed to ServerState: a set, empty for none

startupVars == <<environment, phase, config, kernels, memoryLimit>>

\* Config::default
DefaultConfig ==
    [bind |-> "0.0.0.0:50051", ledger |-> "none", idColumn |-> "entity_id",
     memoryLimit |-> {}, kernels |-> <<>>]

\* load_config: a file that is absent, unreadable or no TOML leaves the defaults.
LoadConfig(env) == IF env.file.state = "parsed" THEN env.file.config ELSE DefaultConfig

\* Bug: the product wraps around.
ParseWrapping(text) ==
    IF text.count \notin 0..MaxUsize \/ text.unit \notin DOMAIN Scales THEN {}
    ELSE {(text.count * Scales[text.unit]) % (MaxUsize + 1)}

\* parse_byte_size: refused when the number, its unit or their product is out of range.
ParseByteSize(text) ==
    IF text.count \notin 0..MaxUsize \/ text.unit \notin DOMAIN Scales THEN {}
    ELSE {text.count * Scales[text.unit]} \cap (0..MaxUsize)

\* A kernel that fails to load is passed over.
LoadedOf(paths, readable) == ToSet(paths) \cap readable

\* load_almanac: the configured list, or the variable's, or what MetaAlmanac downloads.
LoadAlmanac(cfg, env) ==
    IF cfg.kernels # <<>> THEN LoadedOf(cfg.kernels, env.readable)
    ELSE IF env.kernelPaths # {} THEN UNION {LoadedOf(paths, env.readable) : paths \in env.kernelPaths}
    ELSE IF env.online THEN {"latest"} ELSE {}

-----------------------------------------------------------------------------
StartupInit ==
    /\ environment \in Environments
    /\ phase = "loading"
    /\ config = DefaultConfig
    /\ kernels = {}
    /\ memoryLimit = {}

\* load_config, then the address: one that does not parse ends the start.
Configure ==
    /\ phase = "loading"
    /\ config' = LoadConfig(environment)
    /\ phase' = IF config'.bind \notin Addresses THEN "aborted" ELSE "opening"
    /\ kernels' = IF phase' = "aborted" THEN {} ELSE LoadAlmanac(config', environment)
    /\ UNCHANGED <<environment, memoryLimit>>

\* The memory limit: one that does not parse ends the start.
Open ==
    /\ phase = "opening"
    /\ IF \E text \in config.memoryLimit : ParseByteSize(text) = {}
       THEN phase' = "aborted" /\ UNCHANGED memoryLimit
       ELSE /\ memoryLimit' = UNION {ParseByteSize(text) : text \in config.memoryLimit}
            /\ phase' = "listening"
    /\ UNCHANGED <<environment, config, kernels>>

StartupNext == Configure \/ Open

-----------------------------------------------------------------------------
(* Properties. *)

\* A server that listens holds to the limit its configuration file names, to the byte, or
\* to none when the file names none or could not be parsed.  A limit too large for the
\* machine, or in an unknown unit, stops the start instead of becoming a small one or none.
LimitIsTheOneWritten ==
    phase = "listening" =>
        IF environment.file.state # "parsed" \/ environment.file.config.memoryLimit = {}
        THEN memoryLimit = {}
        ELSE \E text \in environment.file.config.memoryLimit, bytes \in memoryLimit :
                /\ memoryLimit = {bytes}
                /\ text.unit \in DOMAIN Scales
                /\ bytes = text.count * Scales[text.unit]

\* Every kernel of the source that is used and that can be read is loaded, also behind one
\* that cannot; the other sources are not mixed in.
KernelsOfOneSource ==
    phase \in {"opening", "listening"} =>
        LET listed == IF config.kernels # <<>> THEN ToSet(config.kernels)
                      ELSE IF environment.kernelPaths # {}
                           THEN UNION {ToSet(paths) : paths \in environment.kernelPaths}
                           ELSE {"latest"}
        IN  /\ kernels \subseteq listed
            /\ \A k \in listed : k \in environment.readable => k \in kernels

\* A server that listens does so with the configuration it was given: a limit is never
\* rounded, wrapped or lost, and the kernels are those of one source.
StartsAsConfigured == LimitIsTheOneWritten /\ KernelsOfOneSource
=============================================================================
