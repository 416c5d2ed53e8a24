---------------------------- MODULE MCServerStart ----------------------------
(* Instances of ServerStart for TLC: some of the fields of Config, and what  *)
(* a file and the environment may say of each.                               *)
EXTENDS ServerStart

MCKeys == {"engine.feedBufferSize", "engine.computeBufferSize", "storage.driverName",
           "compute.host", "logger.level", "logger.format"}

MCSizes == {"engine.feedBufferSize", "engine.computeBufferSize"}

MCDefault == [k \in MCKeys |->
  CASE k \in MCSizes            -> "100"
    [] k = "storage.driverName" -> "postgres"
    [] k = "compute.host"       -> "localhost"
    [] k = "logger.level"       -> "info"
    [] k = "logger.format"      -> "json"]

Said == {"ten", "7", "0", "-1", "mysql", "rabbitmq"}

(* The development configuration, with some of its fields left out and with  *)
(* sizes and a format that may be other ones.                                *)
MCFiles ==
  {[k \in MCKeys \ out |->
      CASE k = "engine.feedBufferSize"    -> feed
        [] k = "engine.computeBufferSize" -> compute
        [] k = "storage.driverName"       -> "postgres"
        [] k = "compute.host"             -> "127.0.0.1"
        [] k = "logger.level"             -> "debug"
        [] k = "logger.format"            -> format] :
     out \in {{}, {"compute.host"}, {"engine.feedBufferSize", "logger.level"}},
     feed \in {"100", "0", "-1", "ten"}, compute \in {"1", "0", "ten"}, format \in {"json", "plain"}}

MCEnvs ==
  {[k \in MCKeys |->
      CASE k = "engine.feedBufferSize" -> feed
        [] k = "storage.driverName"    -> driver
        [] k = "compute.host"          -> host
        [] k \in {"engine.computeBufferSize", "logger.level", "logger.format"} -> Nothing] :
     feed \in {"7", "0", "-1", "ten", Nothing}, driver \in {"mysql", Nothing},
     host \in {"rabbitmq", Nothing}}

MCTexts == UNION {{f[k] : k \in DOMAIN f} : f \in MCFiles \cup {MCDefault}} \cup Said
=============================================================================
