--------------------------- MODULE VerifiedProxy ---------------------------
(***************************************************************************)
(* VerifiedProxyImpl, the module around the runtime: its configuration and *)
(* the file that keeps it, and start() and stop() with the HTTP endpoint.  *)
(* The host may end the module at any step and load it again, with a later *)
(* release and its other network table.                                    *)
(*                                                                         *)
(* The runtime is RunLife, which is what ProxyRuntime is to a client that  *)
(* keeps its contract "runs": one lifecycle operation at a time, and       *)
(* start() only while there is no run, or one that m_runActive shows.      *)
(* Whatever a run does on its own, it does between any two steps here.     *)
(***************************************************************************)
EXTENDS ProxyConfig, FiniteSets, TLC

CONSTANTS
  Inputs,      \* what configure() is given, by name
  Envs,        \* names of Inputs the environment may hold, or "none"
  Files,       \* what a first load may find as config.json
  Answers,     \* what the beacon module may answer
  Tables,      \* networkProfiles() of each release
  Retired      \* migrateRetiredDefaults()' <<network, URL>> pairs of each release

VARIABLES
  (* the host *)
  release,     \* the release that is installed
  env,         \* VERIFIED_PROXY_MODULE_CONFIG
  file,        \* config.json
  (* the module *)
  cfg,         \* m_cfg, NoConfig before m_configured
  http,        \* m_http: "none" or "open"
  pc,          \* where the operation is
  task,        \* for whom it configures: "env", "file" or "user"
  (* the runtime *)
  run,         \* where the run is
  runCfg,      \* its m_cfg
  stopping,    \* it has been told to end
  (* history *)
  chosen,      \* what is to be remembered of the user's last configure(), and
               \* NoConfig once it could not be written or was cut short
  gaveUp       \* start() timed out on this run

hostVars    == <<release, env>>
moduleVars  == <<cfg, http>>
opVars      == <<pc, task>>
runtimeVars == <<run, runCfg, stopping>>
historyVars == <<chosen, gaveUp>>
vars == <<hostVars, file, moduleVars, opVars, runtimeVars, historyVars>>

Life == INSTANCE RunLife

NoConfig == <<>>
Missing == [is |-> "missing"]
Torn    == [is |-> "torn"]

Table == Tables[release]

Readable == file.is = "object"

\* Every release knows mainnet, the network of a configuration that names none,
\* and a default that is there is a URL.
ASSUME VerifiedProxyAssumption ==
  /\ Envs \subseteq DOMAIN Inputs \cup {"none"}
  /\ \A name \in DOMAIN Inputs : Parsed(Inputs[name])
  /\ \A i \in DOMAIN Files : Parsed(Files[i])
  /\ \A i \in DOMAIN Answers :
       Answers[i].providers \in Seq(Range(Answers[i].providers))
  /\ 1 \in DOMAIN Tables /\ DOMAIN Tables = 1..Len(Tables)
  /\ DOMAIN Retired = DOMAIN Tables
  /\ \A r \in DOMAIN Tables :
       /\ "mainnet" \in DOMAIN Tables[r]
       /\ \A network \in DOMAIN Tables[r] :
            Tables[r][network].executionApiUrl \in Schemed \cup {""}
       /\ \A old \in Retired[r] : old[2] # ""

-----------------------------------------------------------------------------
Init ==
  /\ release = 1 /\ env \in Envs
  /\ file \in {Missing} \cup {Files[i] : i \in DOMAIN Files}
  /\ cfg = NoConfig /\ http = "none"
  /\ pc = "loading" /\ task = "env"
  /\ run = "none" /\ runCfg = NoConfig /\ stopping = FALSE
  /\ chosen = NoConfig /\ gaveUp = FALSE

Onto(next) == pc' = next

-----------------------------------------------------------------------------
(* configure(), for the environment, for config.json and for the user *)

\* What follows it: the environment's is followed by the file's.
AfterTask == IF task = "env" THEN "reading" ELSE
             IF task = "file" /\ cfg.autoStart THEN "start" ELSE "free"

Applies(json) == Accepts(json, Table) /\ run # "running"

Configure(json, who) ==
  /\ Applies(json)
  /\ cfg' = Resolved(json.value, Table)
  /\ task' = who
  /\ Onto("opening file")
  /\ UNCHANGED <<hostVars, file, http, runtimeVars, historyVars>>

\* defaultConfig(): what configure() would make of a bare network, for the
\* user to put a trusted root into.
DefaultConfig(network, root) ==
  LET seed == [network |-> Word(network), trustedBlockRoot |-> Text(root)]
  IN  Raw(Resolved(seed, Table))

UserConfigures ==
  /\ pc = "free"
  /\ \/ \E name \in DOMAIN Inputs : Configure(Inputs[name], "user")
     \/ \E network \in DOMAIN Table, root \in Roots :
          Configure(DefaultConfig(network, root), "user")

\* What a configuration of an earlier release is to become: a retired default
\* today's default, and nothing else changed.
MovedOn(old, now) ==
  IF /\ old # NoConfig
     /\ <<old.network, old.executionApiUrls>>
          \in {<<r[1], <<<<r[2]>>>>>> : r \in Retired[now]}
     /\ old.network \in DOMAIN Tables[now]
     /\ Tables[now][old.network].executionApiUrl # ""
  THEN [old EXCEPT !.executionApiUrls = <<<<Tables[now][old.network].executionApiUrl>>>>]
  ELSE old

\* The stream cannot be opened; configure() says nothing of it.
SaveRefused ==
  /\ pc = "opening file"
  /\ chosen' = IF task = "user" THEN NoConfig ELSE chosen
  /\ Onto(AfterTask)
  /\ UNCHANGED <<hostVars, file, moduleVars, task, runtimeVars, gaveUp>>

SaveTruncates ==
  /\ pc = "opening file"
  /\ file' = Torn
  /\ Onto("writing file")
  /\ UNCHANGED <<hostVars, moduleVars, task, runtimeVars, historyVars>>

\* Mutant of Saved: a setting that was added later is forgotten in raw().
SavedWithoutSource ==
  Object([key \in DOMAIN Raw(cfg).value \ {"beaconSource"} |-> Raw(cfg).value[key]])

Saved == Raw(cfg)

SaveWrites ==
  /\ pc = "writing file"
  /\ \/ /\ file' = Saved
        /\ chosen' = IF task = "user" THEN cfg
                     ELSE IF task = "file" THEN MovedOn(chosen, release) ELSE chosen
     \/ chosen' = NoConfig /\ UNCHANGED file
  /\ Onto(AfterTask)
  /\ UNCHANGED <<hostVars, moduleVars, task, runtimeVars, gaveUp>>

Saves == SaveRefused \/ SaveTruncates \/ SaveWrites

-----------------------------------------------------------------------------
(* onContextReady(): the environment first, then config.json *)

LoadsEnvironment ==
  /\ pc = "loading"
  /\ IF env # "none" /\ Applies(Inputs[env])
     THEN Configure(Inputs[env], "env")
     ELSE /\ Onto("reading")
          /\ UNCHANGED <<hostVars, file, moduleVars, task, runtimeVars, historyVars>>

\* A file that cannot be parsed, or is refused, leaves the module as it is.
LoadsFile ==
  /\ pc = "reading"
  /\ LET json == Migrated(file, Table, Retired[release])
     IN  IF Readable /\ Migratable(file) /\ Applies(json)
         THEN Configure(json, "file")
         ELSE /\ Onto("free")
              /\ UNCHANGED <<hostVars, file, moduleVars, task, runtimeVars, historyVars>>

\* The host's process ends, or the host unloads the module, and loads it again.
\* Only the file is left.
Reload ==
  /\ release' \in release..Len(Tables)
  /\ cfg' = NoConfig /\ http' = "none"
  /\ Onto("loading") /\ task' = "env"
  /\ run' = "none" /\ runCfg' = NoConfig /\ stopping' = FALSE
  /\ chosen' = IF pc = "writing file" THEN NoConfig ELSE chosen
  /\ gaveUp' = FALSE
  /\ UNCHANGED <<env, file>>

Load == LoadsEnvironment \/ LoadsFile \/ Reload

-----------------------------------------------------------------------------
(* start() *)

Live == Life!Live
Active == Life!Active

\* Refused before the runtime is asked, unless it is asked and refuses itself.
UserStarts ==
  /\ pc = "free"
  /\ cfg # NoConfig /\ ~Live
  /\ run = "none" \/ Active
  /\ Onto("start")
  /\ UNCHANGED <<hostVars, file, moduleVars, task, runtimeVars, historyVars>>

\* The configuration this run is to have: what it takes from the beacon module
\* is read now and fixed.
RunConfigs ==
  IF cfg.beaconSource = "module"
  THEN {[cfg EXCEPT !.beaconApiUrls = ModuleUrls(Answers[i])] : i \in DOMAIN Answers}
  ELSE {cfg}

StartFails ==
  /\ pc = "start"
  /\ \/ \E c \in RunConfigs : cfg.beaconSource = "module" /\ c.beaconApiUrls = <<>>
     \/ Active
  /\ Onto("free")
  /\ UNCHANGED <<hostVars, file, moduleVars, task, runtimeVars, historyVars>>

\* ProxyRuntime::start() fixes the run's configuration; there may be too few
\* descriptors to post it.
StartPosts ==
  /\ pc = "start"
  /\ run = "none"
  /\ \E c \in RunConfigs :
       /\ cfg.beaconSource = "module" => c.beaconApiUrls # <<>>
       /\ runCfg' = c
  /\ gaveUp' = FALSE
  /\ \/ Life!Posted /\ Onto("start waits")
     \/ Onto("free") /\ UNCHANGED <<run, stopping>>
  /\ UNCHANGED <<hostVars, file, moduleVars, task, chosen>>

StartSucceeds ==
  /\ pc = "start waits"
  /\ Live
  /\ Onto(IF cfg.httpEnabled THEN "opening http" ELSE "free")
  /\ UNCHANGED <<hostVars, file, moduleVars, task, runtimeVars, historyVars>>

\* The run is over, or it takes too long and goes on without the caller, even
\* if it has just begun to serve.
StartGivesUp ==
  /\ pc = "start waits"
  /\ \/ run \in {"none", "ending"} /\ UNCHANGED gaveUp
     \/ run \in {"prologue", "syncing", "running"} /\ gaveUp' = TRUE
  /\ Onto("free")
  /\ UNCHANGED <<hostVars, file, moduleVars, task, runtimeVars, chosen>>

HttpOpens ==
  /\ pc = "opening http"
  /\ http' = "open"
  /\ Onto("free")
  /\ UNCHANGED <<hostVars, file, cfg, task, runtimeVars, historyVars>>

\* Mutant of HttpFails: the run is left as it is.
HttpFailsAlone ==
  /\ pc = "opening http"
  /\ http' = "none"
  /\ Onto("free")
  /\ UNCHANGED <<hostVars, file, cfg, task, runtimeVars, historyVars>>

\* The port cannot be had: the run it was for is stopped again.
HttpFails ==
  /\ pc = "opening http"
  /\ http' = "none"
  /\ Onto("stop")
  /\ UNCHANGED <<hostVars, file, cfg, task, runtimeVars, historyVars>>

Starts == UserStarts \/ StartFails \/ StartPosts \/ StartSucceeds \/ StartGivesUp
            \/ HttpOpens \/ HttpFails

-----------------------------------------------------------------------------
(* stop() *)

\* Mutant of UserStops: the runtime is stopped first, the endpoint after it.
UserStopsRuntimeFirst ==
  /\ pc = "free"
  /\ stopping' = (run # "none")
  /\ Onto("stop")
  /\ UNCHANGED <<hostVars, file, moduleVars, task, run, runCfg, historyVars>>

\* RpcHttpServer::stop() has come back, and only then is the runtime asked.
UserStops ==
  /\ pc = "free"
  /\ http' = "none"
  /\ Onto("stop")
  /\ UNCHANGED <<hostVars, file, cfg, task, runtimeVars, historyVars>>

StopRequests ==
  /\ pc = "stop"
  /\ \/ run \in {"none", "ending"} /\ Onto("free") /\ UNCHANGED <<run, stopping>>
     \/ Life!Told /\ Onto("stop waits")
  /\ UNCHANGED <<hostVars, file, moduleVars, task, runCfg, historyVars>>

\* The run is over, or the drain takes too long.
StopReturns ==
  /\ pc = "stop waits"
  /\ Onto("free")
  /\ UNCHANGED <<hostVars, file, moduleVars, task, runtimeVars, historyVars>>

Stops == UserStops \/ StopRequests \/ StopReturns

-----------------------------------------------------------------------------
(* What the runtime does meanwhile *)

RunProceeds ==
  /\ Life!Proceeds
  /\ UNCHANGED <<hostVars, file, moduleVars, opVars, runCfg, historyVars>>

Next == UserConfigures \/ Saves \/ Load \/ Starts \/ Stops \/ RunProceeds

Spec == Init /\ [][Next]_vars

-----------------------------------------------------------------------------
\* What the module is to be configured with: what the user said, once a later
\* load has moved a retired default on.
Remembered == IF task = "user" THEN chosen ELSE MovedOn(chosen, release)

\* Whatever happens in between, a crash in any step and any number of releases
\* with other network tables included, the module comes back with what the user
\* last configured, so long as it could be written, the release still knows its
\* network and no deploy-time configuration is set.
RemembersConfig ==
  pc = "free" /\ chosen # NoConfig /\ env = "none"
    /\ chosen.network \in DOMAIN Table => cfg = Remembered

\* The persisted configuration wins over the deploy-time one, which is said to
\* be a default only.
UserConfigWins ==
  pc = "free" /\ chosen # NoConfig => cfg = Remembered

\* The endpoint never forwards a request to a runtime that has been told to
\* stop, or that is not there.
EndpointHasRun == http = "open" => Live /\ ~stopping

\* Between operations, a run that serves has the endpoint its configuration
\* asks for, and none that it does not ask for, unless start() gave up on it.
StartIsWhole ==
  pc = "free" /\ Live /\ ~stopping /\ ~gaveUp =>
    (http = "open" <=> runCfg.httpEnabled)

\* Whatever configure(), the environment, an old file and the beacon module
\* say, the library is given a network and a log level it knows (it ends the
\* process over any other), at least one URL of either kind, every URL of a
\* scheme it can use, and exactly the URLs configured once it has cut its
\* lists up.
LibraryCanStart ==
  run # "none" =>
    LET given == Upstream(runCfg)
    IN  /\ given.eth2Network \in DOMAIN Table /\ given.logLevel \in Enums.logLevel
        /\ given.executionApiUrls # <<>> /\ given.beaconApiUrls # <<>>
        /\ \A key \in Backends :
             /\ Len(given[key]) = Len(runCfg[key])
             /\ Range(given[key]) \subseteq Schemed
=============================================================================
