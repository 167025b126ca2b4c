-------------------------- MODULE MCVerifiedProxy --------------------------
(***************************************************************************)
(* VerifiedProxy for TLC: three releases, of which the second and third    *)
(* have other execution defaults for sepolia and retire those before them, *)
(* and inputs that take each turn of fromJson() a configuration can be     *)
(* lost or bent by.                                                        *)
(***************************************************************************)
EXTENDS VerifiedProxy

MCTables ==
  <<[mainnet |-> [beaconApiUrl |-> "b-main", executionApiUrl |-> "x-main"],
     sepolia |-> [beaconApiUrl |-> "b-sep", executionApiUrl |-> "x-old"]],
    [mainnet |-> [beaconApiUrl |-> "b-later", executionApiUrl |-> "x-main"],
     sepolia |-> [beaconApiUrl |-> "b-sep", executionApiUrl |-> "x-new"]],
    [mainnet |-> [beaconApiUrl |-> "b-later", executionApiUrl |-> "x-main"],
     sepolia |-> [beaconApiUrl |-> "b-sep", executionApiUrl |-> "x-next"]]>>

MCRetired ==
  <<{}, {<<"sepolia", "x-old">>}, {<<"sepolia", "x-old">>, <<"sepolia", "x-new">>}>>

MCSchemed ==
  {"b-main", "b-later", "b-sep", "x-main", "x-old", "x-new", "x-next", "mine", "yours"}

MCRoots == {<<"root">>}

Root == [trustedBlockRoot |-> Word("root")]

MCInputs ==
  [ \* the least that is a configuration
    least    |-> Object(Root @@ [network |-> Word("sepolia")]),
    \* a log level the library does not know
    chatty   |-> Object(Root @@ [logLevel |-> Word("CHATTY")]),
    \* a list pasted as text, an endpoint, and started at every load
    pasted   |-> Object(Root @@ [beaconApiUrls |-> Text(<<"mine", "", "yours">>),
                                 autoStart |-> Bool(TRUE),
                                 httpServer |-> Object([enabled |-> Bool(TRUE)])]),
    \* the beacon module in spite of a list of its own, a beat that is too fast
    explicit |-> Object(Root @@ [beaconSource |-> Null,
                                 beaconApiUrls |-> List(<<Word("mine")>>),
                                 keepAliveIntervalMs |-> Int64(1000)]),
    \* a list somebody wants empty, a network nobody knows, a comma in an entry,
    \* and an endpoint on no port
    empty    |-> Object(Root @@ [executionApiUrls |-> List(<<>>)]),
    foreign  |-> Object(Root @@ [network |-> Word("holesky"),
                                 beaconSource |-> Word("urls"),
                                 beaconApiUrls |-> List(<<Word("yours")>>),
                                 executionApiUrls |-> List(<<Word("mine")>>)]),
    joined   |-> Object(Root @@ [archiveUrls |-> List(<<Text(<<"mine", "yours">>)>>)]),
    noPort   |-> Object(Root @@ [httpServer |-> Object([enabled |-> Bool(TRUE),
                                                       port |-> Int64(0)])]) ]

\* Written by hand, with the default that the second release retires.
MCFiles ==
  <<Object(Root @@ [network |-> Word("sepolia"), executionApiUrls |-> Word("x-old"),
                    autoStart |-> Bool(TRUE)]),
    Object(Root @@ [network |-> Null, executionApiUrls |-> List(<<Word("mine")>>)])>>

Provider(isOn, url) == [enabled |-> isOn, endpoint |-> <<url>>]

MCAnswers ==
  <<[ok |-> TRUE, proxied |-> FALSE,
     providers |-> <<Provider(FALSE, "ipfs"), Provider(TRUE, "yours")>>],
    [ok |-> TRUE, proxied |-> FALSE, providers |-> <<Provider(TRUE, "ipfs")>>],
    [ok |-> TRUE, proxied |-> TRUE, providers |-> <<Provider(TRUE, "yours")>>],
    [ok |-> FALSE, proxied |-> FALSE, providers |-> <<>>]>>

AnyEnvironment == {"none", "least"}
DeployedLeast == {"least"}
=============================================================================
