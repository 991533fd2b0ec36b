--------------------------- MODULE LocalCommands ----------------------------
(***************************************************************************)
(* The commands about files of this host and the development server        *)
(* (commands.env.go, commands.config.go, commands.server.go). The word     *)
(* "argument" among the flags says that the name of an environment and of a *)
(* property was given as an argument.                                      *)
(***************************************************************************)
EXTENDS CommandHelpers

EnvDeleteFlags == Takes({}, {"key"})

EnvGetFlags == Takes({}, {"key"})

EnvListFlags == NoFlags

EnvSetFlags == Takes({}, {"key", "value"})

ConfigDeleteFlags == Takes({"prop"}, {})

ConfigDeleteProfileFlags == NoFlags

ConfigGetFlags == Takes({}, {"prop"})

ConfigListFlags == NoFlags

ConfigSetFlags == Takes({"prop", "value"}, {})

ServerStartDevFlags ==
  Takes({}, {"db-filename", "namespace", "port", "http-port", "metrics-port", "ui-port",
    "headless", "ip", "ui-ip", "ui-public-path", "ui-asset-path", "ui-codec-endpoint",
    "ui-disable-news-fetch", "sqlite-pragma", "dynamic-config-value", "log-config",
    "search-attribute"})

-----------------------------------------------------------------------------
(* Environments of the deprecated kind; the pre-run has read their file.   *)

\* envNameAndKey.
EnvNameAndKey(f) == Check(~("argument" \in f /\ AnyOf({"env", "key"}, f)))

EnvDelete(f) == EnvNameAndKey(f) \o Write("environment file", {"key"})

EnvGet(f) == EnvNameAndKey(f) \o Show({"key"})

EnvList(f) == Show({})

\* With an argument the value is an argument as well.
EnvSet(f) ==
  EnvNameAndKey(f) \o Check(AnyOf({"key", "argument"}, f))
  \o Write("environment file", IF "argument" \in f THEN {} ELSE {"key", "value"})

-----------------------------------------------------------------------------
(* Profiles of the configuration file, whose contents ConfigStore has.     *)

\* loadEnvConfigProfile.
LoadProfile == Load("configuration file", {"profile"})

ConfigDelete(f) ==
  LoadProfile \o Parse(f, {"prop"}) \o Write("configuration file", {"prop"})

\* The profile has to be named by the flag, not by the environment.
ConfigDeleteProfile(f) ==
  LoadProfile \o Check("profile" \in f) \o Write("configuration file", {"profile"})

ConfigGet(f) == LoadProfile \o Parse(f, {"prop"}) \o Show({"prop"})

ConfigList(f) == Load("configuration file", {}) \o Show({})

ConfigSet(f) ==
  LoadProfile \o Parse(f, {"prop", "value"}) \o Write("configuration file", {"prop", "value"})

-----------------------------------------------------------------------------

\* Every port the server is to listen at must be free when it is looked at. In
\* memory, the identity of the cluster is kept in a file, which the first run
\* writes, if that works. Only then does the server start, and it runs until
\* the context ends.
ServerStartDev(f) ==
  LET ui == {"ui-port", "ui-ip", "ui-public-path", "ui-asset-path", "ui-codec-endpoint",
             "ui-disable-news-fetch"} IN
  Parse(f, {"log-level"}) \o Expect("frontend port free")
  \o When("http-port" \in f, Expect("HTTP port free"))
  \o When("headless" \notin f, Expect("UI port free"))
  \o Parse(f, {"sqlite-pragma", "dynamic-config-value", "search-attribute"})
  \o When("db-filename" \notin f, Try("version file"))
  \o When("metrics-port" \in f, Expect("metrics port free"))
  \o Write("server",
           AllFlags(ServerStartDevFlags) \ (IF "headless" \in f THEN ui ELSE {}))
  \o Wait

-----------------------------------------------------------------------------
(* The commands of this family, by name.                                   *)

Commands == [
  env_delete |-> EnvDeleteFlags, env_get |-> EnvGetFlags, env_list |-> EnvListFlags,
  env_set |-> EnvSetFlags, config_delete |-> ConfigDeleteFlags,
  config_delete_profile |-> ConfigDeleteProfileFlags, config_get |-> ConfigGetFlags,
  config_list |-> ConfigListFlags, config_set |-> ConfigSetFlags,
  server_start_dev |-> ServerStartDevFlags]

Handler(name, f) ==
  CASE name = "env_delete" -> EnvDelete(f)
    [] name = "env_get" -> EnvGet(f)
    [] name = "env_list" -> EnvList(f)
    [] name = "env_set" -> EnvSet(f)
    [] name = "config_delete" -> ConfigDelete(f)
    [] name = "config_delete_profile" -> ConfigDeleteProfile(f)
    [] name = "config_get" -> ConfigGet(f)
    [] name = "config_list" -> ConfigList(f)
    [] name = "config_set" -> ConfigSet(f)
    [] name = "server_start_dev" -> ServerStartDev(f)

=============================================================================
