---------------------------- MODULE ProxyConfig ----------------------------
(***************************************************************************)
(* ProxyConfig: what configure() accepts, what it makes of it, and what is *)
(* written to config.json and handed to the library.                       *)
(*                                                                         *)
(* A JSON value is a record of what it is and its value.  A text is the    *)
(* sequence of its pieces between commas, the one thing ever cut up here;  *)
(* an enumerated setting is a text of one piece.  Which text begins with   *)
(* one of the four schemes, and which is 0x and 64 hex digits, is given.   *)
(***************************************************************************)
EXTENDS Integers, FiniteSets, Sequences, SequencesExt, ResourceBudget

CONSTANTS
  Schemed,   \* pieces that begin with http://, https://, ws:// or wss://
  Roots      \* texts that are a trusted block root

Null       == [is |-> "null", value |-> "null"]
Text(v)    == [is |-> "text", value |-> v]
Int64(v)   == [is |-> "int", value |-> v]
Bool(v)    == [is |-> "bool", value |-> v]
List(v)    == [is |-> "list", value |-> v]
Object(v)  == [is |-> "object", value |-> v]

\* One-piece text.
Word(piece) == Text(<<piece>>)

\* One record out of two; where both say something, the first does.
f ++ g == [x \in DOMAIN f \cup DOMAIN g |-> IF x \in DOMAIN f THEN f[x] ELSE g[x]]

\* The elements of s at the places of kept, in their order.
Picked(s, kept) ==
  LET Nth(n) == CHOOSE i \in kept : Cardinality({j \in kept : j < i}) = n - 1
  IN  [n \in 1..Cardinality(kept) |-> s[Nth(n)]]

BeaconSlotMs == 12000

Ports == 1..65535

Enums ==
  [logLevel  |-> {"TRACE", "DEBUG", "INFO", "NOTICE", "WARN", "ERROR", "FATAL", "NONE"},
   logFormat |-> {"Colors", "NoColors", "Json", "Auto", "None"},
   keepAlive |-> {"off", "interval", "continuous"}]

EnumDefaults == [logLevel |-> "INFO", logFormat |-> "Json", keepAlive |-> "interval"]

Sources == {"module", "urls"}

Backends == {"executionApiUrls", "beaconApiUrls", "opExecutionApiUrls", "privateTxUrls",
             "archiveUrls"}

TuningInts ==
  [maxBlockWalk |-> 1000, maxWindowJumps |-> 500, parallelBlockDownloads |-> 10,
   maxLightClientUpdates |-> 128, headerStoreLen |-> 256, storageCacheLen |-> 256,
   codeCacheLen |-> 64, accountCacheLen |-> 128, freezeAtSlot |-> 0]

Knobs ==
  [callTimeoutMs |-> 30000, queueTimeoutMs |-> 30000, startTimeoutMs |-> 120000,
   drainTimeoutMs |-> 2000, pumpIntervalMs |-> 50, maxInFlight |-> 64,
   keepAliveIntervalMs |-> BeaconSlotMs]

Switches == [autoStart |-> FALSE, enabled |-> FALSE, syncHeaderStore |-> TRUE]

\* What is parsed of a list of URLs, or of a text, is a sequence.
Parsed(json) ==
  json.is = "object" =>
    \A key \in Backends \cap DOMAIN json.value :
      LET given == json.value[key]
      IN  given.is \in {"text", "list"} => given.value \in Seq(Range(given.value))

-----------------------------------------------------------------------------
(* Reading one key: absent and null leave the default *)

Given(in, key) == key \in DOMAIN in /\ in[key].is # "null"

Fits(in, key, kind) == Given(in, key) => in[key].is = kind

Read(in, key, default) == IF Given(in, key) THEN in[key].value ELSE default

EnumFits(in, key, allowed) ==
  Given(in, key) => in[key].is = "text" /\ in[key].value \in {<<v>> : v \in allowed}

ReadEnum(in, key, default) == Read(in, key, <<default>>)[1]

StringListFits(in, key) ==
  Given(in, key) =>
    \/ in[key].is = "text"
    \/ in[key].is = "list"
       /\ \A i \in DOMAIN in[key].value : in[key].value[i].is = "text"

\* A bare text is cut at its commas, empty pieces dropped; a list is taken as is.
ReadStringList(in, key) ==
  IF ~Given(in, key) THEN <<>>
  ELSE IF in[key].is = "text"
       THEN LET text == in[key].value
                pieces == Picked(text, {i \in DOMAIN text : text[i] # ""})
            IN  [i \in DOMAIN pieces |-> <<pieces[i]>>]
       ELSE [i \in DOMAIN in[key].value |-> in[key].value[i].value]

\* One piece each, and of a scheme that upstream knows.
ValidUrls(urls) == \A i \in DOMAIN urls : urls[i] \in {<<u>> : u \in Schemed}

\* A sub-object may be left out, but not be null or anything else.
Part(in, key) == IF key \in DOMAIN in THEN in[key] ELSE Object(<<>>)

-----------------------------------------------------------------------------
(* fromJson(in), with the network table of the installed release *)

Network(in) == ReadEnum(in, "network", "mainnet")

\* A default endpoint is filled in only where the key is absent.
Endpoints(in, key, default) ==
  IF key \in DOMAIN in \/ default = "" THEN ReadStringList(in, key) ELSE <<<<default>>>>

\* Left out, it is "urls" exactly for a beacon list somebody edited.
BeaconSource(in, profile) ==
  IF "beaconSource" \in DOMAIN in THEN ReadEnum(in, "beaconSource", "module")
  ELSE IF /\ "beaconApiUrls" \in DOMAIN in
          /\ ReadStringList(in, "beaconApiUrls") # <<<<profile.beaconApiUrl>>>>
       THEN "urls" ELSE "module"

Resolved(in, table) ==
  LET profile == table[Network(in)]
      tuning  == Part(in, "tuning").value
      http    == Part(in, "httpServer").value
  IN  [key \in DOMAIN Enums |-> ReadEnum(in, key, EnumDefaults[key])]
      ++ [network |-> Network(in),
          trustedBlockRoot |-> in["trustedBlockRoot"].value,
          beaconSource |-> BeaconSource(in, profile),
          executionApiUrls |-> Endpoints(in, "executionApiUrls", profile.executionApiUrl),
          beaconApiUrls |-> Endpoints(in, "beaconApiUrls", profile.beaconApiUrl),
          syncHeaderStore |-> Read(tuning, "syncHeaderStore", Switches.syncHeaderStore),
          autoStart |-> Read(in, "autoStart", Switches.autoStart),
          httpEnabled |-> Read(http, "enabled", Switches.enabled),
          httpPort |-> Read(http, "port", 8545),
          httpHost |-> Read(http, "host", <<"127.0.0.1">>),
          keepAliveIntervalMs |->
            Greater(Read(in, "keepAliveIntervalMs", BeaconSlotMs), BeaconSlotMs)]
      ++ [key \in Backends |-> ReadStringList(in, key)]
      ++ [key \in DOMAIN TuningInts |-> Read(tuning, key, TuningInts[key])]
      ++ [key \in DOMAIN Knobs |-> Read(in, key, Knobs[key])]

\* Mutant of NetworkFits: any network is passed on.
NetworkFitsAny(in, table) == Fits(in, "network", "text")

\* Only networks of the table are compiled into the library, which ends the
\* host process over any other.
NetworkFits(in, table) == EnumFits(in, "network", DOMAIN table)

HttpFits(http) ==
  /\ http.is = "object"
  /\ Fits(http.value, "enabled", "bool") /\ Fits(http.value, "port", "int")
  /\ "host" \in DOMAIN http.value => http.value["host"].is = "text"
  /\ \/ Read(http.value, "enabled", Switches.enabled) = FALSE
     \/ Read(http.value, "port", 8545) \in Ports

TuningFits(tuning) ==
  /\ tuning.is = "object"
  /\ \A key \in DOMAIN TuningInts : Fits(tuning.value, key, "int")
  /\ Fits(tuning.value, "syncHeaderStore", "bool")

\* The types, then what the values have to be once defaults are filled in.
Accepts(json, table) ==
  /\ json.is = "object"
  /\ LET in == json.value
     IN  /\ NetworkFits(in, table)
         /\ \A key \in DOMAIN Enums : EnumFits(in, key, Enums[key])
         /\ EnumFits(in, "beaconSource", Sources)
         /\ "trustedBlockRoot" \in DOMAIN in
         /\ in["trustedBlockRoot"].is = "text" /\ in["trustedBlockRoot"].value \in Roots
         /\ \A key \in Backends : StringListFits(in, key)
         /\ TuningFits(Part(in, "tuning"))
         /\ \A key \in DOMAIN Knobs : Fits(in, key, "int")
         /\ Fits(in, "autoStart", "bool")
         /\ HttpFits(Part(in, "httpServer"))
         /\ LET cfg == Resolved(in, table)
            IN  /\ \A key \in Backends : ValidUrls(cfg[key])
                /\ cfg.executionApiUrls # <<>>
                /\ cfg.beaconSource = "urls" => cfg.beaconApiUrls # <<>>
         /\ \A key \in DOMAIN Knobs \ {"drainTimeoutMs"} : Read(in, key, Knobs[key]) > 0

-----------------------------------------------------------------------------
(* What an accepted configuration becomes *)

UrlList(urls) == List([i \in DOMAIN urls |-> Text(urls[i])])

\* raw(): the resolved settings, which is what config.json holds.
Raw(cfg) ==
  Object(
    [key \in DOMAIN Enums \cup {"network", "beaconSource"} |-> Word(cfg[key])]
    ++ [key \in Backends |-> UrlList(cfg[key])]
    ++ [key \in DOMAIN Knobs |-> Int64(cfg[key])]
    ++ [trustedBlockRoot |-> Text(cfg.trustedBlockRoot),
        autoStart |-> Bool(cfg.autoStart),
        tuning |-> Object([key \in DOMAIN TuningInts |-> Int64(cfg[key])]
                          ++ [syncHeaderStore |-> Bool(cfg.syncHeaderStore)]),
        httpServer |-> Object([enabled |-> Bool(cfg.httpEnabled),
                               host |-> Text(cfg.httpHost),
                               port |-> Int64(cfg.httpPort)])])

\* toUpstreamJson(): upstream cuts each list up again at its commas.
Upstream(cfg) ==
  [key \in Backends |-> FlattenSeq(cfg[key])]
  ++ [eth2Network |-> cfg.network, trustedBlockRoot |-> cfg.trustedBlockRoot,
      logLevel |-> cfg.logLevel, logFormat |-> cfg.logFormat,
      syncHeaderStore |-> cfg.syncHeaderStore]
  ++ [key \in DOMAIN TuningInts |-> cfg[key]]

\* The one URL a list consists of, however it is written; the empty text if it
\* consists of anything else.
OnlyUrl(urls) ==
  IF urls.is = "text" THEN urls.value
  ELSE IF urls.is = "list" /\ Len(urls.value) = 1 /\ urls.value[1].is = "text"
       THEN urls.value[1].value ELSE <<"">>

\* migrateRetiredDefaults() throws over a network that is no text.
Migratable(json) ==
  {"executionApiUrls", "network"} \subseteq DOMAIN json.value =>
    json.value["network"].is = "text"

\* migrateRetiredDefaults(): a list that is one retired default moves on to
\* today's.
Migrated(json, table, retired) ==
  LET in == json.value
      network == IF "network" \in DOMAIN in THEN in["network"].value ELSE <<"">>
  IN  IF /\ "executionApiUrls" \in DOMAIN in
         /\ <<network, OnlyUrl(in["executionApiUrls"])>>
              \in {<<<<old[1]>>, <<old[2]>>>> : old \in retired}
         /\ network[1] \in DOMAIN table /\ table[network[1]].executionApiUrl # ""
      THEN Object([in EXCEPT !["executionApiUrls"] =
                     List(<<Word(table[network[1]].executionApiUrl)>>)])
      ELSE json

\* beaconUrlsFromModule(): the enabled providers, or none if one of them, or
\* the proxy set for the chain, cannot be used.
ModuleUrls(answer) ==
  LET enabled == Picked(answer.providers,
                        {i \in DOMAIN answer.providers : answer.providers[i].enabled})
      urls == [i \in DOMAIN enabled |-> enabled[i].endpoint]
  IN  IF answer.ok /\ ~answer.proxied /\ ValidUrls(urls) THEN urls ELSE <<>>
=============================================================================
