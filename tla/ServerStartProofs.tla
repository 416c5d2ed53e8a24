-------------------------- MODULE ServerStartProofs --------------------------
(***************************************************************************)
(* What holds of the start of the server for every file, environment and   *)
(* set of fields, in whatever order viper decodes them.                    *)
(***************************************************************************)
EXTENDS ServerStart, TLAPS

(* The configuration viper is to make of a file that can be read.            *)
Merged == [k \in Keys |-> IF k \in DOMAIN file THEN Setting(k) ELSE Default[k]]

Sound(k) == Decodes(k, Setting(k))

Result == IF Readable /\ \A k \in DOMAIN file : Sound(k) THEN Merged ELSE Default

(* The inputs are what was offered.                                          *)
Inputs == /\ app_env \in AppEnvs
          /\ env \in EnvsOffered
          /\ Readable => file \in FilesOffered

(* While viper decodes, the struct is sound in the fields it has done.       *)
Decoding ==
  pc = "ParseConfig" =>
    /\ Readable
    /\ cfg = Default
    /\ todo \subseteq DOMAIN file
    /\ decoded = [k \in Keys |-> IF k \in DOMAIN file \ todo /\ Sound(k)
                                 THEN Setting(k) ELSE Default[k]]
    /\ failed = \E k \in DOMAIN file \ todo : ~Sound(k)

(* A step of main is only reached past those that may fail.                  *)
Passed ==
  /\ pc \in {"NewMangoEngine", "NewComputeRouter", "Run", "serving"} => cfg[DriverKey] \in Drivers
  /\ pc \in {"NewComputeRouter", "Run", "serving"} => SizesFit
  /\ pc \in {"Run", "serving"} => dialled

StartInv == /\ StartTypeOK
            /\ Inputs
            /\ pc = "LoadConfig" => decoded = Default /\ failed = FALSE /\ cfg = Default
            /\ Decoding
            /\ Configured => cfg = Result
            /\ Passed

(* A value for a field of the file is a text.                                *)
LEMMA SettingIsText ==
  ASSUME Inputs, Readable, NEW k \in DOMAIN file
  PROVE  k \in Keys /\ Setting(k) \in Texts
  BY StartAssumption DEF Inputs, Setting

(* What is decoded into a field of type int is a number.                     *)
LEMMA SoundIsTyped ==
  ASSUME Inputs, Readable, NEW k \in DOMAIN file, Sound(k), k \in IntKeys
  PROVE  Setting(k) \in Numbers
  BY DEF Sound, Decodes

LEMMA DefaultIsTyped ==
  Default \in [Keys -> Texts] /\ \A k \in IntKeys : Default[k] \in Numbers
  BY StartAssumption

LEMMA StartInit == Init => StartInv
  <1> SUFFICES ASSUME Init PROVE StartInv
    OBVIOUS
  <1>1. Readable => file \in FilesOffered
    <2>1. PICK f \in FilesOffered \cup {Garbled, Nothing} :
            files = [e \in AppEnvs |-> IF e = "development" THEN f ELSE Nothing]
      BY DEF Init
    <2>2. file = f \/ file = Nothing
      BY <2>1 DEF Init, file
    <2> QED
      BY <2>1, <2>2 DEF Readable
  <1>2. StartTypeOK
    BY DefaultIsTyped, StartAssumption DEF Init, StartTypeOK, Calls, Levels
  <1> QED
    BY <1>1, <1>2 DEF Init, StartInv, Inputs, Decoding, Configured, Passed

(* The inputs do not change, nor what is to be made of them.                 *)
LEMMA InputsStay ==
  ASSUME UNCHANGED inputVars
  PROVE  /\ file' = file /\ (Readable <=> Readable')
         /\ (Inputs => Inputs')
         /\ Result' = Result
         /\ \A k : Setting(k)' = Setting(k) /\ (Sound(k)' <=> Sound(k))
  BY DEF inputVars, file, Readable, Inputs, Result, Merged, Setting, Sound, Decodes

LEMMA LoadStep ==
  ASSUME StartInv, LoadConfig
  PROVE  StartInv'
  <1>1. UNCHANGED inputVars /\ pc = "LoadConfig" /\ decoded = Default /\ cfg = Default
        /\ failed = FALSE /\ UNCHANGED <<decoded, failed, cfg, level, dialled>>
    BY DEF LoadConfig, StartInv
  <1>2. CASE ~Readable
    <2>1. pc' = "ConfigureLogging" /\ todo' = todo /\ todo = {} /\ Result = Default
      BY <1>2, <1>1 DEF LoadConfig, Readable, StartInv, StartTypeOK, Result
    <2> QED
      BY <1>1, <2>1, InputsStay
      DEF StartInv, StartTypeOK, Decoding, Configured, Passed, Calls, inputVars
  <1>3. CASE Readable
    <2>1. pc' = "ParseConfig" /\ todo' = DOMAIN file
      BY <1>3 DEF LoadConfig, Readable
    <2>2. DOMAIN file \subseteq Keys
      BY <1>3, SettingIsText DEF StartInv
    <2>3. Decoding'
      BY <1>1, <1>3, <2>1, InputsStay, DefaultIsTyped DEF Decoding
    <2> QED
      BY <1>1, <1>3, <2>1, <2>2, <2>3, InputsStay
      DEF StartInv, StartTypeOK, Configured, Passed, Calls, inputVars
  <1> QED
    BY <1>2, <1>3

LEMMA DecodeStep ==
  ASSUME StartInv, NEW i \in Keys, Decode(i)
  PROVE  StartInv'
  <1>1. /\ UNCHANGED <<inputVars, pc, cfg, level, dialled>>
        /\ pc = "ParseConfig" /\ i \in todo /\ todo' = todo \ {i}
        /\ Readable /\ todo \subseteq DOMAIN file /\ i \in DOMAIN file
    BY DEF Decode, StartInv, Decoding
  <1>2. Setting(i) \in Texts
    BY <1>1, SettingIsText DEF StartInv
  <1>3. (DOMAIN file \ todo') = (DOMAIN file \ todo) \cup {i}
    BY <1>1
  <1>4. CASE Sound(i)
    <2>1. decoded' = [decoded EXCEPT ![i] = Setting(i)] /\ failed' = failed
      BY <1>4 DEF Decode, Sound
    <2>2. Decoding'
      <3>1. decoded' = [k \in Keys |-> IF k \in DOMAIN file \ todo' /\ Sound(k)
                                       THEN Setting(k) ELSE Default[k]]
        BY <1>1, <1>3, <1>4, <2>1 DEF StartInv, Decoding
      <3>2. failed' = \E k \in DOMAIN file \ todo' : ~Sound(k)
        BY <1>1, <1>3, <1>4, <2>1 DEF StartInv, Decoding
      <3> QED
        BY <1>1, <3>1, <3>2, InputsStay DEF StartInv, Decoding
    <2>3. i \in IntKeys => Setting(i) \in Numbers
      BY <1>1, <1>4, SoundIsTyped DEF StartInv
    <2>4. StartTypeOK'
      BY <1>1, <1>2, <2>1, <2>3 DEF StartInv, StartTypeOK, inputVars
    <2> QED
      BY <1>1, <2>2, <2>4, InputsStay DEF StartInv, Configured, Passed
  <1>5. CASE ~Sound(i)
    <2>1. failed' = TRUE /\ decoded' = decoded
      BY <1>5 DEF Decode, Sound
    <2>2. Decoding'
      <3>1. decoded' = [k \in Keys |-> IF k \in DOMAIN file \ todo' /\ Sound(k)
                                       THEN Setting(k) ELSE Default[k]]
        BY <1>1, <1>3, <1>5, <2>1 DEF StartInv, Decoding
      <3>2. failed' = \E k \in DOMAIN file \ todo' : ~Sound(k)
        BY <1>1, <1>3, <1>5, <2>1
      <3> QED
        BY <1>1, <3>1, <3>2, InputsStay DEF StartInv, Decoding
    <2>3. StartTypeOK'
      BY <1>1, <2>1 DEF StartInv, StartTypeOK, inputVars
    <2> QED
      BY <1>1, <2>2, <2>3, InputsStay DEF StartInv, Configured, Passed
  <1> QED
    BY <1>4, <1>5

LEMMA ParseStep ==
  ASSUME StartInv, ParseConfig
  PROVE  StartInv'
  <1>1. /\ UNCHANGED <<inputVars, parseVars, level, dialled>>
        /\ pc = "ParseConfig" /\ todo = {} /\ pc' = "ConfigureLogging"
        /\ cfg' = IF failed THEN Default ELSE decoded
    BY DEF ParseConfig, Keep
  <1>2. /\ Readable
        /\ decoded = [k \in Keys |-> IF k \in DOMAIN file /\ Sound(k)
                                     THEN Setting(k) ELSE Default[k]]
        /\ failed = \E k \in DOMAIN file : ~Sound(k)
    BY <1>1 DEF StartInv, Decoding
  <1>3. cfg' = Result
    <2>1. CASE \A k \in DOMAIN file : Sound(k)
      <3>1. decoded = Merged /\ ~failed
        BY <1>2, <2>1 DEF Merged
      <3> QED
        BY <1>1, <1>2, <2>1, <3>1 DEF Result
    <2>2. CASE ~\A k \in DOMAIN file : Sound(k)
      BY <1>1, <1>2, <2>2 DEF Result
    <2> QED
      BY <2>1, <2>2
  <1>4. StartTypeOK'
    BY <1>1, DefaultIsTyped DEF StartInv, StartTypeOK, Calls, inputVars, parseVars
  <1> QED
    BY <1>1, <1>3, <1>4, InputsStay DEF StartInv, Decoding, Configured, Passed

(* The steps after the configuration.                                        *)
LEMMA ServeStep ==
  ASSUME StartInv,
         ConfigureLogging \/ NewStorage \/ NewMangoEngine \/ NewComputeRouter \/ Run
  PROVE  StartInv'
  <1>1. /\ UNCHANGED <<inputVars, parseVars, cfg>>
        /\ pc \notin {"LoadConfig", "ParseConfig"} /\ pc' \notin {"LoadConfig", "ParseConfig"}
    BY DEF ConfigureLogging, NewStorage, NewMangoEngine, NewComputeRouter, Run
  <1>2. level' \in Levels
    BY DEF ConfigureLogging, NewStorage, NewMangoEngine, NewComputeRouter, Run,
           StartInv, StartTypeOK, Levels, LogLevelByName
  <1>3. pc' \in Calls /\ dialled' \in BOOLEAN
    BY DEF ConfigureLogging, NewStorage, NewMangoEngine, NewComputeRouter, Run,
           StartInv, StartTypeOK, Calls
  <1>4. SizesFit' <=> SizesFit
    BY <1>1 DEF SizesFit
  <1>5. Passed'
    BY <1>1, <1>4 DEF ConfigureLogging, NewStorage, NewMangoEngine, NewComputeRouter, Run,
           StartInv, Passed
  <1>6. StartTypeOK'
    BY <1>1, <1>2, <1>3, <1>5
    DEF StartInv, StartTypeOK, Passed, inputVars, parseVars
  <1> QED
    BY <1>1, <1>5, <1>6, InputsStay DEF StartInv, Decoding, Configured

LEMMA StartStep == StartInv /\ [Next]_vars => StartInv'
  <1> SUFFICES ASSUME StartInv, [Next]_vars PROVE StartInv'
    OBVIOUS
  <1>1. CASE LoadConfig
    BY <1>1, LoadStep
  <1>2. CASE \E k \in Keys : Decode(k)
    BY <1>2, DecodeStep
  <1>3. CASE ParseConfig
    BY <1>3, ParseStep
  <1>4. CASE ConfigureLogging \/ NewStorage \/ NewMangoEngine \/ NewComputeRouter \/ Run
    BY <1>4, ServeStep
  <1>5. CASE UNCHANGED vars
    <2>1. UNCHANGED inputVars /\ UNCHANGED <<pc, todo, decoded, failed, cfg, level, dialled>>
      BY <1>5 DEF vars, parseVars
    <2>2. SizesFit' <=> SizesFit
      BY <2>1 DEF SizesFit
    <2> QED
      BY <2>1, <2>2, InputsStay
      DEF StartInv, StartTypeOK, Decoding, Configured, Passed, inputVars
  <1> QED
    BY <1>1, <1>2, <1>3, <1>4, <1>5 DEF Next

LEMMA StartInvariance == Spec => []StartInv
  BY StartInit, StartStep, PTL DEF Spec

(* The fields keep their types from the defaults to the configuration.       *)
THEOREM StartTyped == Spec => []StartTypeOK
  <1>1. StartInv => StartTypeOK
    BY DEF StartInv
  <1> QED
    BY <1>1, StartInvariance, PTL

(* The configuration is all of the file's fields or all defaults.            *)
THEOREM NeverHalfConfigured == Spec => []NoHalfConfig
  <1>1. StartInv => NoHalfConfig
    <2> SUFFICES ASSUME StartInv, Configured, cfg # Default
                 PROVE  Readable /\ \A k \in DOMAIN file : cfg[k] \in {env[k], file[k]}
      BY DEF NoHalfConfig
    <2>1. Readable /\ cfg = Merged
      BY DEF StartInv, Result
    <2>2. \A k \in DOMAIN file : k \in Keys
      BY <2>1, SettingIsText DEF StartInv
    <2> QED
      BY <2>1, <2>2 DEF Merged, Setting
  <1> QED
    BY <1>1, StartInvariance, PTL

(* The environment counts like a file with its values written in, for the    *)
(* fields of the file and for no others.                                     *)
THEOREM EnvironmentOverrides == Spec => []EnvOverridesFile
  <1>1. StartInv => EnvOverridesFile
    <2> SUFFICES ASSUME StartInv, Configured
                 PROVE  EnvOverridesFile
      BY DEF EnvOverridesFile
    <2> DEFINE written == [k \in DOMAIN file |-> IF env[k] # Nothing THEN env[k] ELSE file[k]]
               merged  == [k \in Keys |-> IF k \in DOMAIN written THEN written[k]
                                                                  ELSE Default[k]]
    <2>1. DOMAIN written = DOMAIN file /\ \A k \in DOMAIN file : written[k] = Setting(k)
      BY DEF Setting
    <2>2. merged = Merged
      BY <2>1 DEF Merged
    <2>3. (\A k \in DOMAIN written \cap IntKeys : written[k] \in Numbers)
            <=> \A k \in DOMAIN file : Sound(k)
      BY <2>1 DEF Sound, Decodes
    <2>4. cfg = IF Readable /\ \A k \in DOMAIN file : Sound(k) THEN Merged ELSE Default
      BY DEF StartInv, Result
    <2> QED
      BY <2>2, <2>3, <2>4 DEF EnvOverridesFile
  <1> QED
    BY <1>1, StartInvariance, PTL

(* A server that serves has what it needs, and a buffer of size 0 only when  *)
(* it was told to.                                                           *)
THEOREM ServesWithItsNeeds == Spec => []ServesWithWhatItNeeds
  <1>1. StartInv => ServesWithWhatItNeeds
    <2> SUFFICES ASSUME StartInv, pc = "serving"
                 PROVE  ServesWithWhatItNeeds
      BY DEF ServesWithWhatItNeeds
    <2>1. cfg[DriverKey] \in Drivers /\ SizesFit /\ dialled /\ cfg = Result
      BY DEF StartInv, Passed, Configured
    <2>2. ASSUME NEW k \in SizeKeys
          PROVE  cfg[k] \in Numbers \ Negatives
      BY <2>1, StartAssumption DEF StartInv, StartTypeOK, SizesFit
    <2>3. ASSUME NEW k \in SizeKeys, cfg[k] \in Zeros
          PROVE  k \in DOMAIN file /\ cfg[k] \in {env[k], file[k]}
      <3>1. k \in Keys /\ Default[k] \notin Zeros
        BY StartAssumption
      <3>2. cfg = Merged
        BY <2>1, <2>3, <3>1 DEF Result
      <3>3. k \in DOMAIN file /\ cfg[k] = Setting(k)
        BY <2>3, <3>1, <3>2 DEF Merged
      <3> QED
        BY <3>3 DEF Setting
    <2> QED
      BY <2>1, <2>2, <2>3 DEF ServesWithWhatItNeeds
  <1> QED
    BY <1>1, StartInvariance, PTL
=============================================================================
