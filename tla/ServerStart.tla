----------------------------- MODULE ServerStart -----------------------------
(***************************************************************************)
(* The start of the core server (core/cmd/server/main.go): what its        *)
(* configuration becomes (core/pkg/config.go) and which of the steps up to *)
(* serving may fail.                                                       *)
(*                                                                         *)
(* A value is the text it was written as.  A field of type int takes the   *)
(* texts in Numbers only.  viper merges environment and file, and decodes  *)
(* what it merged field by field, in no order, into a struct that holds    *)
(* the defaults; it goes on after a field it cannot decode.                *)
(***************************************************************************)
EXTENDS Naturals, FiniteSets

CONSTANTS
  Keys,       (* the fields of Config: "engine.feedBufferSize", ...          *)
  IntKeys,    (* those of type int                                           *)
  SizeKeys,   (* the buffer sizes                                            *)
  DriverKey,  (* storage.driverName                                          *)
  LevelKey, FormatKey,  (* of the logger                                     *)
  Texts, Numbers,      (* values; those that are ints                        *)
  Negatives, Zeros,    (* the ints below 0; those that are 0                 *)
  Drivers,    (* registered database drivers: "postgres"                     *)
  Default,    (* DefaultConfig                                               *)
  Nothing,    (* no value, no file                                           *)
  FilesOffered, (* what a configuration file may hold                        *)
  EnvsOffered (* what the environment may hold for each key                  *)

AppEnvs == {"docker", "production", "development"}

(* A file that cannot be parsed; any other maps fields to values.            *)
Garbled == [unreadable |-> TRUE]

ASSUME StartAssumption ==
  /\ SizeKeys \subseteq IntKeys /\ IntKeys \subseteq Keys
  /\ {DriverKey, LevelKey, FormatKey} \subseteq Keys \ IntKeys
  /\ Negatives \subseteq Numbers /\ Numbers \subseteq Texts
  /\ Zeros \subseteq Numbers \ Negatives
  /\ Nothing \notin Texts
  /\ Default \in [Keys -> Texts]
  /\ \A k \in IntKeys : Default[k] \in Numbers \ (Negatives \cup Zeros)
  /\ Default[DriverKey] \in Drivers
  /\ \A f \in FilesOffered : DOMAIN f \subseteq Keys /\ \A k \in DOMAIN f : f[k] \in Texts
  /\ \A e \in EnvsOffered :
       DOMAIN e = Keys /\ \A k \in Keys : e[k] \in Texts \cup {Nothing}

VARIABLES
  app_env,  (* APP_ENV                                                       *)
  files,    (* the file for each path, or Nothing                            *)
  env,      (* the environment; an empty variable is none                    *)
  pc,       (* the call main is in                                           *)
  todo,     (* fields viper has still to decode                              *)
  decoded,  (* the struct it decodes into                                    *)
  failed,   (* a field could not be decoded                                  *)
  cfg,      (* what MustGetConfig returned                                   *)
  level,    (* the level logged from: of the text or json handler, or of log *)
  dialled   (* the broker was reached                                        *)

inputVars == <<app_env, files, env>>
parseVars == <<todo, decoded, failed>>
vars == <<inputVars, pc, parseVars, cfg, level, dialled>>

Calls == {"LoadConfig", "ParseConfig", "ConfigureLogging", "NewStorage",
          "NewMangoEngine", "NewComputeRouter", "Run", "serving", "gone"}

Levels == {"debug", "info", "warn", "error"}

StartTypeOK ==
  /\ app_env \in AppEnvs
  /\ env \in EnvsOffered
  /\ pc \in Calls
  /\ todo \subseteq Keys
  /\ pc # "ParseConfig" => todo = {}
  /\ decoded \in [Keys -> Texts] /\ cfg \in [Keys -> Texts]
  /\ \A k \in IntKeys : {decoded[k], cfg[k]} \subseteq Numbers
  /\ failed \in BOOLEAN
  /\ level \in Levels
  /\ dialled \in BOOLEAN
  /\ pc = "serving" => dialled

Init == /\ app_env \in AppEnvs
        /\ \E f \in FilesOffered \cup {Garbled, Nothing} :
             files = [e \in AppEnvs |-> IF e = "development" THEN f ELSE Nothing]
        /\ env \in EnvsOffered
        /\ pc = "LoadConfig"
        /\ todo = {} /\ decoded = Default /\ failed = FALSE
        /\ cfg = Default
        /\ level = "info"
        /\ dialled = FALSE

-----------------------------------------------------------------------------
(* MustGetConfig.                                                            *)

file == files[app_env]

(* Without a file that can be read the defaults are used, environment or no. *)
LoadConfig ==
  /\ pc = "LoadConfig"
  /\ IF file \in {Nothing, Garbled}
     THEN pc' = "ConfigureLogging" /\ UNCHANGED todo
     ELSE pc' = "ParseConfig" /\ todo' = DOMAIN file
  /\ UNCHANGED <<inputVars, decoded, failed, cfg, level, dialled>>

(* Mutant: the file goes before the environment.                             *)
FileFirst(k) == IF file[k] # Default[k] \/ env[k] = Nothing THEN file[k] ELSE env[k]

(* AutomaticEnv: the environment is asked for the keys of the file.          *)
Setting(k) == IF env[k] # Nothing THEN env[k] ELSE file[k]

Decodes(k, text) == k \in IntKeys => text \in Numbers

Decode(k) ==
  /\ pc = "ParseConfig" /\ k \in todo
  /\ todo' = todo \ {k}
  /\ IF Decodes(k, Setting(k))
     THEN decoded' = [decoded EXCEPT ![k] = Setting(k)] /\ UNCHANGED failed
     ELSE failed' = TRUE /\ UNCHANGED decoded
  /\ UNCHANGED <<inputVars, pc, cfg, level, dialled>>

(* Mutant: ParseConfig returns the struct along with its error.              *)
KeepDecoded == cfg' = decoded

Keep == cfg' = IF failed THEN Default ELSE decoded

ParseConfig ==
  /\ pc = "ParseConfig" /\ todo = {}
  /\ Keep
  /\ pc' = "ConfigureLogging"
  /\ UNCHANGED <<inputVars, parseVars, level, dialled>>

-----------------------------------------------------------------------------
(* A name that is no level, in small letters, reads as info.                 *)
LogLevelByName(name) == IF name \in Levels THEN name ELSE "info"

(* The handlers for json and text are made with level debug; the level of    *)
(* the configuration is that of the log package, for any other format.       *)
ConfigureLogging ==
  /\ pc = "ConfigureLogging"
  /\ level' = IF cfg[FormatKey] \in {"json", "text"} THEN "debug"
              ELSE LogLevelByName(cfg[LevelKey])
  /\ pc' = "NewStorage"
  /\ UNCHANGED <<inputVars, parseVars, cfg, dialled>>

(* A driver that is not registered panics, and so does a data source name    *)
(* that the driver refuses; a ping that fails is logged.                     *)
NewStorage ==
  /\ pc = "NewStorage"
  /\ \/ cfg[DriverKey] \in Drivers /\ pc' = "NewMangoEngine"
     \/ pc' = "gone"
  /\ UNCHANGED <<inputVars, parseVars, cfg, level, dialled>>

(* Mutant: only the size of the feed is looked at.                           *)
SomeSizesFit == \E k \in SizeKeys : cfg[k] \notin Negatives

SizesFit == \A k \in SizeKeys : cfg[k] \notin Negatives

(* make(chan, size) panics if the size is negative.                          *)
NewMangoEngine ==
  /\ pc = "NewMangoEngine"
  /\ pc' = IF SizesFit THEN "NewComputeRouter" ELSE "gone"
  /\ UNCHANGED <<inputVars, parseVars, cfg, level, dialled>>

(* Mutant: the error of Dial is logged.                                      *)
DialOrLog ==
  /\ pc = "NewComputeRouter"
  /\ pc' = "Run"
  /\ dialled' \in BOOLEAN
  /\ UNCHANGED <<inputVars, parseVars, cfg, level>>

(* Panics without a connection, a channel or its queues.                     *)
NewComputeRouter ==
  /\ pc = "NewComputeRouter"
  /\ \/ pc' = "Run" /\ dialled' = TRUE
     \/ pc' = "gone" /\ UNCHANGED dialled
  /\ UNCHANGED <<inputVars, parseVars, cfg, level>>

(* gin's Run serves, or returns an error that log.Fatal ends on.             *)
Run ==
  /\ pc = "Run"
  /\ pc' \in {"serving", "gone"}
  /\ UNCHANGED <<inputVars, parseVars, cfg, level, dialled>>

Next == \/ LoadConfig
        \/ \E k \in Keys : Decode(k)
        \/ ParseConfig
        \/ ConfigureLogging
        \/ NewStorage
        \/ NewMangoEngine
        \/ NewComputeRouter
        \/ Run

Spec == Init /\ [][Next]_vars

-----------------------------------------------------------------------------
Configured == pc \notin {"LoadConfig", "ParseConfig"}

Readable == file \notin {Nothing, Garbled}

(* One value that cannot be decoded discards every other: the server runs    *)
(* with all of the file's fields, each as the environment or the file has    *)
(* it, or with the defaults, and never with some of each (config.go:97-118). *)
NoHalfConfig ==
  Configured => \/ cfg = Default
                \/ Readable /\ \A k \in DOMAIN file : cfg[k] \in {env[k], file[k]}

(* A variable in the environment goes before the file for the fields the     *)
(* file has, and counts for no others and for none without a file            *)
(* (config.go:131, AutomaticEnv).  README.md:119-122 says of all variables   *)
(* that one in the environment is equivalent to one in the file: that is so  *)
(* only where the file has the field already, and this states both halves.   *)
EnvOverridesFile ==
  LET written == [k \in DOMAIN file |-> IF env[k] # Nothing THEN env[k] ELSE file[k]]
      merged  == [k \in Keys |-> IF k \in DOMAIN written THEN written[k] ELSE Default[k]]
  IN  Configured =>
        cfg = IF Readable /\ \A k \in DOMAIN written \cap IntKeys : written[k] \in Numbers
              THEN merged ELSE Default

(* A server that serves has its driver and a connection to the broker, and   *)
(* channels that could be made (engine.go:28).  A size of 0 is one of those: *)
(* such channels are unbuffered, which the models of the core leave out      *)
(* (CoreTypes!BufferAssumption), but it is only there if the environment or  *)
(* the file says so.  The database need not have been reached (storage.go:33).*)
ServesWithWhatItNeeds ==
  pc = "serving" =>
    /\ \A k \in SizeKeys :
         /\ cfg[k] \in Numbers \ Negatives
         /\ cfg[k] \in Zeros => k \in DOMAIN file /\ cfg[k] \in {env[k], file[k]}
    /\ cfg[DriverKey] \in Drivers
    /\ dialled
=============================================================================
