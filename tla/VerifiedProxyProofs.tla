------------------------ MODULE VerifiedProxyProofs ------------------------
(***************************************************************************)
(* The module around the runtime, for every table of networks, every       *)
(* number of releases, every input and every answer of the beacon module:  *)
(* what an accepted configuration is, that it survives being written and   *)
(* read, and what start() and stop() leave behind.                         *)
(***************************************************************************)
EXTENDS VerifiedProxy, FiniteSetTheorems, SequenceTheorems, WellFoundedInduction, TLAPS

(* Sequences: counting up along one, and what is picked out of one *)

LEMMA Smallest ==
  ASSUME NEW T \in SUBSET Nat, T # {}
  PROVE  \E m \in T : \A k \in T : m <= k
<1> DEFINE Upto(m) == 0..m
           B == {Upto(m) : m \in T}
<1>1. B \in SUBSET FiniteSubsetsOf(Nat) /\ B # {}
  <2>1. \A m \in T : IsFiniteSet(0..m) /\ 0..m \in SUBSET Nat
    BY FS_Interval
  <2> QED
    BY <2>1 DEF FiniteSubsetsOf
<1>2. PICK x \in B : \A y \in B : ~(<<y, x>> \in StrictSubsetOrdering(Nat))
  <2> HIDE DEF B
  <2> QED
  BY <1>1, FS_StrictSubsetOrderingWellFounded, WFMin
<1>3. PICK m \in T : x = 0..m
  BY <1>2
<1>4. ASSUME NEW k \in T, k < m
      PROVE  FALSE
  <2>1. <<0..k, 0..m>> \in StrictSubsetOrdering(Nat)
    <3>1. 0..k \in SUBSET Nat /\ 0..m \in SUBSET Nat
      OBVIOUS
    <3>2. 0..k \subseteq 0..m
      BY <1>4
    <3>3. m \in 0..m /\ m \notin 0..k
      BY <1>4
    <3> QED
      BY <3>1, <3>2, <3>3 DEF StrictSubsetOrdering
  <2> QED
    BY <1>2, <1>3, <2>1
<1> QED
  BY <1>4

LEMMA Counting ==
  ASSUME NEW S \in SUBSET Nat, 0 \in S, \A n \in S : n + 1 \in S
  PROVE  S = Nat
<1> SUFFICES ASSUME Nat \ S # {} PROVE FALSE
  OBVIOUS
<1>1. PICK m \in Nat \ S : \A k \in Nat \ S : m <= k
  BY Smallest
<1>2. m - 1 \in Nat /\ m - 1 \in S
  BY <1>1
<1> QED
  BY <1>1, <1>2

LEMMA Flat ==
  ASSUME NEW S, NEW urls \in Seq({<<u>> : u \in S})
  PROVE  FlattenSeq(urls) = [i \in 1..Len(urls) |-> urls[i][1]]
<1> DEFINE n == Len(urls)
           Firsts(i) == [j \in 1..i |-> urls[j][1]]
           Flattens(f) == f = [i \in 1..n |-> IF i = 1 THEN urls[i] ELSE f[i - 1] \o urls[i]]
           flatten == CHOOSE f : Flattens(f)
<1>0. n \in Nat /\ \A i \in 1..n : urls[i] = <<urls[i][1]>> /\ urls[i][1] \in S
  <2>1. n \in Nat /\ \A i \in 1..n : urls[i] \in {<<u>> : u \in S}
    BY LenProperties, ElementOfSeq
  <2> QED
    BY <2>1
<1>2. ASSUME NEW i \in 1..n
      PROVE  Firsts(i) = IF i = 1 THEN urls[i] ELSE Firsts(i - 1) \o urls[i]
  <2> DEFINE u == urls[i][1]
  <2>0. urls[i] = <<u>> /\ u \in S
    BY <1>0
  <2> HIDE DEF u
  <2>1. CASE i = 1
    BY <2>0, <2>1 DEF u
  <2>2. CASE i # 1
    <3>1. /\ i - 1 \in 1..n /\ i - 1 \in Nat /\ i - 1 + 1 = i /\ i \in Nat
          /\ \A j \in 1..i : j \in 1..n /\ (j \in 1..(i - 1) \/ j = i)
      BY <1>0, <2>2
    <3>2. Firsts(i - 1) \in Seq(S) /\ Len(Firsts(i - 1)) = i - 1
      BY <1>0, <3>1
    <3>3. /\ Firsts(i - 1) \o <<u>> \in Seq(S)
          /\ Len(Firsts(i - 1) \o <<u>>) = i
          /\ \A j \in 1..(i - 1) : (Firsts(i - 1) \o <<u>>)[j] = Firsts(i - 1)[j]
          /\ (Firsts(i - 1) \o <<u>>)[i] = u
      <4> HIDE DEF Firsts
      <4>1. <<u>> \in Seq(S) /\ Len(<<u>>) = 1 /\ <<u>>[1] = u
        BY <2>0
      <4> QED
      BY <4>1, <3>1, <3>2, ConcatProperties
    <3>4. DOMAIN (Firsts(i - 1) \o <<u>>) = 1..i
      BY <3>3, LenProperties
    <3>5. \A j \in 1..i : (Firsts(i - 1) \o <<u>>)[j] = urls[j][1]
      BY <3>1, <3>3 DEF u
    <3>6. Firsts(i - 1) \o <<u>> = [j \in 1..i |-> (Firsts(i - 1) \o <<u>>)[j]]
      BY <3>3, <3>4
    <3> QED
      BY <2>0, <2>2, <3>5, <3>6
  <2> QED
    BY <2>1, <2>2
<1>3. Flattens([i \in 1..n |-> Firsts(i)])
  <2> DEFINE g == [i \in 1..n |-> Firsts(i)]
  <2>1. \A i \in 1..n : g[i] = Firsts(i) /\ (i # 1 => g[i - 1] = Firsts(i - 1))
    BY <1>0
  <2>2. \A i \in 1..n : Firsts(i) = IF i = 1 THEN urls[i] ELSE g[i - 1] \o urls[i]
    <3> HIDE DEF g, Firsts
    <3> QED
      BY <1>2, <2>1
  <2> QED
    BY <2>2
<1>4. Flattens(flatten)
  BY <1>3
<1> DEFINE Good == {i \in Nat : i + 1 \in 1..n => flatten[i + 1] = Firsts(i + 1)}
<1> HIDE DEF flatten
<1>5. 0 \in Good
  <2>1. 1 \in 1..n => flatten[1] = Firsts(1)
    BY <1>2, <1>4
  <2> QED
    BY <2>1
<1>6. ASSUME NEW i \in Good PROVE i + 1 \in Good
  <2>0. i \in Nat /\ i + 1 \in Nat
    OBVIOUS
  <2> SUFFICES ASSUME NEW k \in 1..n, k = (i + 1) + 1
               PROVE  flatten[k] = Firsts(k)
    BY <2>0
  <2>1. i + 1 \in 1..n /\ k - 1 = i + 1 /\ k # 1
    BY <1>0, <2>0
  <2>2. flatten[k - 1] = Firsts(k - 1)
    BY <2>1
  <2> HIDE DEF Firsts
  <2>3. Firsts(k) = Firsts(k - 1) \o urls[k]
    BY <1>2, <2>1
  <2>4. flatten[k] = flatten[k - 1] \o urls[k]
    BY <1>4, <2>1
  <2> QED
    BY <2>2, <2>3, <2>4
<1>7. Good = Nat
  <2> HIDE DEF Good
  <2>1. Good \in SUBSET Nat
    BY DEF Good
  <2> QED
  BY <1>5, <1>6, <2>1, Counting
<1>8. CASE n # 0
  <2>1. n - 1 \in Nat /\ n - 1 + 1 = n /\ n \in 1..n
    BY <1>0, <1>8
  <2>2. flatten[n] = Firsts(n)
    BY <2>1, <1>7
  <2> QED
    BY <1>8, <2>2 DEF FlattenSeq, flatten
<1>9. CASE n = 0
  <2>1. urls = <<>>
    BY <1>9, EmptySeq
  <2> QED
  BY <1>9, <2>1 DEF FlattenSeq
<1> QED
  BY <1>8, <1>9

\* What a decoder returns for a list.
IsList(s) == s \in Seq(Range(s))

LEMMA FunctionIsList ==
  ASSUME NEW n \in Nat, NEW s, DOMAIN s = 1..n, s = [i \in 1..n |-> s[i]]
  PROVE  IsList(s) /\ Len(s) = n
<1>1. s \in [1..n -> Range(s)]
  BY DEF Range
<1>2. IsList(s)
  BY <1>1, SeqDef DEF IsList
<1>3. Len(s) \in Nat /\ 1..Len(s) = 1..n
  BY <1>2, LenProperties DEF IsList
<1>4. ASSUME NEW i \in Nat, NEW j \in Nat, 1..i = 1..j
      PROVE  i <= j
  <2>1. i # 0 => i \in 1..j
    BY <1>4
  <2> QED
    BY <2>1
<1> QED
  BY <1>2, <1>3, <1>4

LEMMA ListIsFunction ==
  ASSUME NEW s, IsList(s)
  PROVE  /\ Len(s) \in Nat /\ DOMAIN s = 1..Len(s) /\ s = [i \in 1..Len(s) |-> s[i]]
         /\ IsFiniteSet(DOMAIN s)
<1>1. Len(s) \in Nat /\ DOMAIN s = 1..Len(s)
  BY LenProperties DEF IsList
<1>2. s = [i \in 1..Len(s) |-> s[i]]
  BY LenProperties DEF IsList
<1>3. IsFiniteSet(DOMAIN s)
  BY <1>1, FS_Interval
<1> QED
  BY <1>1, <1>2, <1>3

LEMMA ListOf ==
  ASSUME NEW s, NEW S, IsList(s), \A i \in DOMAIN s : s[i] \in S
  PROVE  s \in Seq(S)
<1>1. Len(s) \in Nat /\ s \in [1..Len(s) -> S]
  BY ListIsFunction
<1> QED
  BY <1>1, SeqDef

LEMMA SeqIsList ==
  ASSUME NEW S, NEW s \in Seq(S)
  PROVE  IsList(s) /\ \A i \in DOMAIN s : s[i] \in S
<1>1. Len(s) \in Nat /\ DOMAIN s = 1..Len(s) /\ s = [i \in 1..Len(s) |-> s[i]]
  BY LenProperties
<1>2. \A i \in 1..Len(s) : s[i] \in S
  BY ElementOfSeq
<1> QED
  BY <1>1, <1>2, FunctionIsList

LEMMA OnlyOne ==
  ASSUME NEW s, IsList(s), Len(s) = 1
  PROVE  1 \in DOMAIN s /\ s = <<s[1]>>
<1> DEFINE x == s[1]
<1>1. DOMAIN s = 1..1
  BY LenProperties DEF IsList
<1>2. 1 \in 1..1
  OBVIOUS
<1>3. x \in Range(s)
  BY <1>1, <1>2 DEF Range
<1> HIDE DEF x
<1>4. <<x>> \in Seq(Range(s)) /\ Len(<<x>>) = 1
  BY <1>3
<1>5. \A i \in 1..1 : s[i] = <<x>>[i]
  <2>1. \A i \in 1..1 : i = 1
    OBVIOUS
  <2>2. <<x>>[1] = x
    OBVIOUS
  <2> QED
    BY <2>1, <2>2 DEF x
<1>6. s = <<x>>
  BY <1>4, <1>5, SeqEqual DEF IsList
<1> QED
  BY <1>1, <1>2, <1>6 DEF x

LEMMA PickedIsList ==
  ASSUME NEW s, IsList(s), NEW kept \in SUBSET DOMAIN s
  PROVE  IsList(Picked(s, kept))
<1>1. IsFiniteSet(kept)
  BY ListIsFunction, FS_Subset
<1>2. Cardinality(kept) \in Nat
  BY <1>1, FS_CardinalityType
<1> QED
  BY <1>2, FunctionIsList DEF Picked

(* Configurations *)

Settings ==
  DOMAIN Enums \cup Backends \cup DOMAIN TuningInts \cup DOMAIN Knobs
    \cup {"network", "trustedBlockRoot", "beaconSource", "syncHeaderStore", "autoStart",
          "httpEnabled", "httpPort", "httpHost"}

UrlLists == Seq({<<u>> : u \in Schemed})

Complete(c) == c = [key \in Settings |-> c[key]]

\* What an accepted configuration is, whatever the release.
WellMade(c) ==
  /\ Complete(c)
  /\ \A key \in DOMAIN Enums : c[key] \in Enums[key]
  /\ c.beaconSource \in Sources
  /\ c.trustedBlockRoot \in Roots
  /\ \A key \in Backends : c[key] \in UrlLists
  /\ c.executionApiUrls # <<>>
  /\ c.beaconSource = "urls" => c.beaconApiUrls # <<>>
  /\ c.httpEnabled = FALSE \/ c.httpPort \in Ports
  /\ \A key \in DOMAIN Knobs \ {"drainTimeoutMs"} : c[key] > 0
  /\ c.keepAliveIntervalMs = Greater(c.keepAliveIntervalMs, BeaconSlotMs)

LEMMA Merged ==
  ASSUME NEW f, NEW g
  PROVE  /\ DOMAIN (f ++ g) = DOMAIN f \cup DOMAIN g
         /\ \A x \in DOMAIN f : (f ++ g)[x] = f[x]
         /\ \A x \in DOMAIN g \ DOMAIN f : (f ++ g)[x] = g[x]
         /\ f ++ g = [x \in DOMAIN f \cup DOMAIN g |-> (f ++ g)[x]]
  BY DEF ++

LEMMA KeySets ==
  /\ DOMAIN Enums = {"logLevel", "logFormat", "keepAlive"}
  /\ DOMAIN TuningInts =
       {"maxBlockWalk", "maxWindowJumps", "parallelBlockDownloads", "maxLightClientUpdates",
        "headerStoreLen", "storageCacheLen", "codeCacheLen", "accountCacheLen",
        "freezeAtSlot"}
  /\ DOMAIN Knobs =
       {"callTimeoutMs", "queueTimeoutMs", "startTimeoutMs", "drainTimeoutMs",
        "pumpIntervalMs", "maxInFlight", "keepAliveIntervalMs"}
  BY DEF Enums, TuningInts, Knobs

LEMMA ResolvedFields ==
  ASSUME NEW in, NEW table
  PROVE  LET c == Resolved(in, table)
             profile == table[Network(in)]
             tuning  == Part(in, "tuning").value
             served  == Part(in, "httpServer").value
         IN  /\ Complete(c)
             /\ \A key \in DOMAIN Enums : c[key] = ReadEnum(in, key, EnumDefaults[key])
             /\ c.network = Network(in)
             /\ c.trustedBlockRoot = in["trustedBlockRoot"].value
             /\ c.beaconSource = BeaconSource(in, profile)
             /\ c.executionApiUrls =
                  Endpoints(in, "executionApiUrls", profile.executionApiUrl)
             /\ c.beaconApiUrls = Endpoints(in, "beaconApiUrls", profile.beaconApiUrl)
             /\ \A key \in Backends \ {"executionApiUrls", "beaconApiUrls"} :
                  c[key] = ReadStringList(in, key)
             /\ c.syncHeaderStore = Read(tuning, "syncHeaderStore", Switches.syncHeaderStore)
             /\ \A key \in DOMAIN TuningInts : c[key] = Read(tuning, key, TuningInts[key])
             /\ c.autoStart = Read(in, "autoStart", Switches.autoStart)
             /\ c.httpEnabled = Read(served, "enabled", Switches.enabled)
             /\ c.httpPort = Read(served, "port", 8545)
             /\ c.httpHost = Read(served, "host", <<"127.0.0.1">>)
             /\ c.keepAliveIntervalMs =
                  Greater(Read(in, "keepAliveIntervalMs", BeaconSlotMs), BeaconSlotMs)
             /\ \A key \in DOMAIN Knobs \ {"keepAliveIntervalMs"} :
                  c[key] = Read(in, key, Knobs[key])
<1> DEFINE profile == table[Network(in)]
           tuning  == Part(in, "tuning").value
           served  == Part(in, "httpServer").value
           e == [key \in DOMAIN Enums |-> ReadEnum(in, key, EnumDefaults[key])]
           f == [network |-> Network(in),
                 trustedBlockRoot |-> in["trustedBlockRoot"].value,
                 beaconSource |-> BeaconSource(in, profile),
                 executionApiUrls |-> Endpoints(in, "executionApiUrls", profile.executionApiUrl),
                 beaconApiUrls |-> Endpoints(in, "beaconApiUrls", profile.beaconApiUrl),
                 syncHeaderStore |-> Read(tuning, "syncHeaderStore", Switches.syncHeaderStore),
                 autoStart |-> Read(in, "autoStart", Switches.autoStart),
                 httpEnabled |-> Read(served, "enabled", Switches.enabled),
                 httpPort |-> Read(served, "port", 8545),
                 httpHost |-> Read(served, "host", <<"127.0.0.1">>),
                 keepAliveIntervalMs |->
                   Greater(Read(in, "keepAliveIntervalMs", BeaconSlotMs), BeaconSlotMs)]
           g == [key \in Backends |-> ReadStringList(in, key)]
           h == [key \in DOMAIN TuningInts |-> Read(tuning, key, TuningInts[key])]
           k == [key \in DOMAIN Knobs |-> Read(in, key, Knobs[key])]
           c == e ++ f ++ g ++ h ++ k
<1>1. Resolved(in, table) = c
  BY DEF Resolved
<1>2. /\ DOMAIN f = {"network", "trustedBlockRoot", "beaconSource", "executionApiUrls",
                     "beaconApiUrls", "syncHeaderStore", "autoStart", "httpEnabled",
                     "httpPort", "httpHost", "keepAliveIntervalMs"}
      /\ f.network = Network(in)
      /\ f.trustedBlockRoot = in["trustedBlockRoot"].value
      /\ f.beaconSource = BeaconSource(in, profile)
      /\ f.executionApiUrls = Endpoints(in, "executionApiUrls", profile.executionApiUrl)
      /\ f.beaconApiUrls = Endpoints(in, "beaconApiUrls", profile.beaconApiUrl)
      /\ f.syncHeaderStore = Read(tuning, "syncHeaderStore", Switches.syncHeaderStore)
      /\ f.autoStart = Read(in, "autoStart", Switches.autoStart)
      /\ f.httpEnabled = Read(served, "enabled", Switches.enabled)
      /\ f.httpPort = Read(served, "port", 8545)
      /\ f.httpHost = Read(served, "host", <<"127.0.0.1">>)
      /\ f.keepAliveIntervalMs =
           Greater(Read(in, "keepAliveIntervalMs", BeaconSlotMs), BeaconSlotMs)
  OBVIOUS
<1>3. /\ DOMAIN e = DOMAIN Enums
      /\ \A key \in DOMAIN Enums : e[key] = ReadEnum(in, key, EnumDefaults[key])
      /\ DOMAIN g = Backends /\ \A key \in Backends : g[key] = ReadStringList(in, key)
      /\ DOMAIN h = DOMAIN TuningInts
      /\ \A key \in DOMAIN TuningInts : h[key] = Read(tuning, key, TuningInts[key])
      /\ DOMAIN k = DOMAIN Knobs
      /\ \A key \in DOMAIN Knobs : k[key] = Read(in, key, Knobs[key])
  OBVIOUS
<1> HIDE DEF profile, tuning, served, e, f, g, h, k
<1>4. /\ DOMAIN c = DOMAIN e \cup DOMAIN f \cup DOMAIN g \cup DOMAIN h \cup DOMAIN k
      /\ \A x \in DOMAIN e : c[x] = e[x]
      /\ \A x \in DOMAIN f \ DOMAIN e : c[x] = f[x]
      /\ \A x \in DOMAIN g \ (DOMAIN e \cup DOMAIN f) : c[x] = g[x]
      /\ \A x \in DOMAIN h \ (DOMAIN e \cup DOMAIN f \cup DOMAIN g) : c[x] = h[x]
      /\ \A x \in DOMAIN k \ (DOMAIN e \cup DOMAIN f \cup DOMAIN g \cup DOMAIN h) :
           c[x] = k[x]
      /\ c = [x \in DOMAIN c |-> c[x]]
  <2> DEFINE ef == e ++ f
             efg == ef ++ g
             efgh == efg ++ h
  <2>1. /\ DOMAIN ef = DOMAIN e \cup DOMAIN f
        /\ \A x \in DOMAIN e : ef[x] = e[x]
        /\ \A x \in DOMAIN f \ DOMAIN e : ef[x] = f[x]
    BY Merged
  <2> HIDE DEF ef
  <2>2. /\ DOMAIN efg = DOMAIN ef \cup DOMAIN g
        /\ \A x \in DOMAIN ef : efg[x] = ef[x]
        /\ \A x \in DOMAIN g \ DOMAIN ef : efg[x] = g[x]
    BY Merged
  <2> HIDE DEF efg
  <2>3. /\ DOMAIN efgh = DOMAIN efg \cup DOMAIN h
        /\ \A x \in DOMAIN efg : efgh[x] = efg[x]
        /\ \A x \in DOMAIN h \ DOMAIN efg : efgh[x] = h[x]
    BY Merged
  <2> HIDE DEF efgh
  <2>4. /\ DOMAIN (efgh ++ k) = DOMAIN efgh \cup DOMAIN k
        /\ \A x \in DOMAIN efgh : (efgh ++ k)[x] = efgh[x]
        /\ \A x \in DOMAIN k \ DOMAIN efgh : (efgh ++ k)[x] = k[x]
        /\ efgh ++ k = [x \in DOMAIN efgh \cup DOMAIN k |-> (efgh ++ k)[x]]
    BY Merged
  <2>5. c = efgh ++ k
    BY DEF efgh, efg, ef
  <2> HIDE DEF c
  <2> QED
    BY <2>1, <2>2, <2>3, <2>4, <2>5
<1> HIDE DEF c
<1>5. DOMAIN c = Settings
  <2>1. {"executionApiUrls", "beaconApiUrls"} \subseteq Backends
    BY DEF Backends
  <2>2. "keepAliveIntervalMs" \in DOMAIN Knobs
    BY DEF Knobs
  <2>3. DOMAIN c = DOMAIN Enums \cup DOMAIN f \cup Backends
                     \cup DOMAIN TuningInts \cup DOMAIN Knobs
    BY <1>3, <1>4
  <2> QED
    BY <1>2, <2>1, <2>2, <2>3 DEF Settings
<1>6. \A key \in DOMAIN Enums : c[key] = ReadEnum(in, key, EnumDefaults[key])
  BY <1>3, <1>4
<1>7. /\ c.network = f.network /\ c.trustedBlockRoot = f.trustedBlockRoot
      /\ c.beaconSource = f.beaconSource /\ c.executionApiUrls = f.executionApiUrls
      /\ c.beaconApiUrls = f.beaconApiUrls /\ c.syncHeaderStore = f.syncHeaderStore
      /\ c.autoStart = f.autoStart /\ c.httpEnabled = f.httpEnabled
      /\ c.httpPort = f.httpPort /\ c.httpHost = f.httpHost
      /\ c.keepAliveIntervalMs = f.keepAliveIntervalMs
  <2>1. \A x \in DOMAIN f : x \notin DOMAIN e
    BY <1>2, <1>3, KeySets
  <2>2. \A x \in DOMAIN f : c[x] = f[x]
    BY <1>4, <2>1
  <2>3. {"network", "trustedBlockRoot", "beaconSource", "executionApiUrls", "beaconApiUrls",
         "syncHeaderStore", "autoStart", "httpEnabled", "httpPort", "httpHost",
         "keepAliveIntervalMs"} = DOMAIN f
    BY <1>2
  <2> QED
    BY ONLY <2>2, <2>3
<1>8. \A key \in Backends \ {"executionApiUrls", "beaconApiUrls"} :
        c[key] = ReadStringList(in, key)
  <2>1. \A x \in Backends \ {"executionApiUrls", "beaconApiUrls"} :
          x \in DOMAIN g \ (DOMAIN e \cup DOMAIN f)
    BY <1>2, <1>3, KeySets DEF Backends
  <2> QED
    BY <1>3, <1>4, <2>1
<1>9. \A key \in DOMAIN TuningInts : c[key] = Read(tuning, key, TuningInts[key])
  <2>1. \A x \in DOMAIN TuningInts : x \in DOMAIN h \ (DOMAIN e \cup DOMAIN f \cup DOMAIN g)
    BY <1>2, <1>3, KeySets DEF Backends
  <2> QED
    BY <1>3, <1>4, <2>1
<1>10. \A key \in DOMAIN Knobs \ {"keepAliveIntervalMs"} : c[key] = Read(in, key, Knobs[key])
  <2>1. \A x \in DOMAIN Knobs \ {"keepAliveIntervalMs"} :
          x \in DOMAIN k \ (DOMAIN e \cup DOMAIN f \cup DOMAIN g \cup DOMAIN h)
    BY <1>2, <1>3, KeySets DEF Backends
  <2> QED
    BY <1>3, <1>4, <2>1
<1>11. Complete(c)
  BY <1>4, <1>5 DEF Complete
<1> QED
  BY <1>1, <1>2, <1>6, <1>7, <1>8, <1>9, <1>10, <1>11 DEF profile, tuning, served

\* What is written of a configuration, key by key.
Written ==
  DOMAIN Enums \cup Backends \cup DOMAIN Knobs
    \cup {"network", "beaconSource", "trustedBlockRoot", "autoStart", "tuning", "httpServer"}

LEMMA RawFields ==
  ASSUME NEW c
  PROVE  LET in == Raw(c).value
         IN  /\ Raw(c).is = "object" /\ Raw(c) = Object(in)
             /\ DOMAIN in = Written /\ in = [key \in Written |-> in[key]]
             /\ \A key \in DOMAIN Enums : in[key] = Word(c[key])
             /\ in["network"] = Word(c.network)
             /\ in["beaconSource"] = Word(c.beaconSource)
             /\ \A key \in Backends : in[key] = UrlList(c[key])
             /\ \A key \in DOMAIN Knobs : in[key] = Int64(c[key])
             /\ in["trustedBlockRoot"] = Text(c.trustedBlockRoot)
             /\ in["autoStart"] = Bool(c.autoStart)
             /\ in["tuning"] = Object([key \in DOMAIN TuningInts |-> Int64(c[key])]
                                      ++ [syncHeaderStore |-> Bool(c.syncHeaderStore)])
             /\ in["httpServer"] = Object([enabled |-> Bool(c.httpEnabled),
                                           host |-> Text(c.httpHost),
                                           port |-> Int64(c.httpPort)])
<1> DEFINE tuning == Object([key \in DOMAIN TuningInts |-> Int64(c[key])]
                            ++ [syncHeaderStore |-> Bool(c.syncHeaderStore)])
           served == Object([enabled |-> Bool(c.httpEnabled),
                           host |-> Text(c.httpHost),
                           port |-> Int64(c.httpPort)])
           Names == DOMAIN Enums \cup {"network", "beaconSource"}
           e == [key \in Names |-> Word(c[key])]
           f == [key \in Backends |-> UrlList(c[key])]
           g == [key \in DOMAIN Knobs |-> Int64(c[key])]
           h == [trustedBlockRoot |-> Text(c.trustedBlockRoot),
                 autoStart |-> Bool(c.autoStart), tuning |-> tuning, httpServer |-> served]
           in == e ++ f ++ g ++ h
<1>1. Raw(c) = Object(in)
  BY DEF Raw
<1>2. /\ DOMAIN e = Names /\ \A key \in Names : e[key] = Word(c[key])
      /\ DOMAIN f = Backends /\ \A key \in Backends : f[key] = UrlList(c[key])
      /\ DOMAIN g = DOMAIN Knobs /\ \A key \in DOMAIN Knobs : g[key] = Int64(c[key])
  OBVIOUS
<1> HIDE DEF tuning, served
<1>3. /\ DOMAIN h = {"trustedBlockRoot", "autoStart", "tuning", "httpServer"}
      /\ h["trustedBlockRoot"] = Text(c.trustedBlockRoot)
      /\ h["autoStart"] = Bool(c.autoStart) /\ h["tuning"] = tuning /\ h["httpServer"] = served
  OBVIOUS
<1> HIDE DEF e, f, g, h
<1>4. /\ DOMAIN in = DOMAIN e \cup DOMAIN f \cup DOMAIN g \cup DOMAIN h
      /\ \A x \in DOMAIN e : in[x] = e[x]
      /\ \A x \in DOMAIN f \ DOMAIN e : in[x] = f[x]
      /\ \A x \in DOMAIN g \ (DOMAIN e \cup DOMAIN f) : in[x] = g[x]
      /\ \A x \in DOMAIN h \ (DOMAIN e \cup DOMAIN f \cup DOMAIN g) : in[x] = h[x]
      /\ in = [x \in DOMAIN in |-> in[x]]
  <2> DEFINE ef == e ++ f
             efg == ef ++ g
  <2>1. /\ DOMAIN ef = DOMAIN e \cup DOMAIN f
        /\ \A x \in DOMAIN e : ef[x] = e[x]
        /\ \A x \in DOMAIN f \ DOMAIN e : ef[x] = f[x]
    BY Merged
  <2> HIDE DEF ef
  <2>2. /\ DOMAIN efg = DOMAIN ef \cup DOMAIN g
        /\ \A x \in DOMAIN ef : efg[x] = ef[x]
        /\ \A x \in DOMAIN g \ DOMAIN ef : efg[x] = g[x]
    BY Merged
  <2> HIDE DEF efg
  <2>3. /\ DOMAIN (efg ++ h) = DOMAIN efg \cup DOMAIN h
        /\ \A x \in DOMAIN efg : (efg ++ h)[x] = efg[x]
        /\ \A x \in DOMAIN h \ DOMAIN efg : (efg ++ h)[x] = h[x]
        /\ efg ++ h = [x \in DOMAIN efg \cup DOMAIN h |-> (efg ++ h)[x]]
    BY Merged
  <2>4. in = efg ++ h
    BY DEF efg, ef
  <2> HIDE DEF in
  <2> QED
    BY <2>1, <2>2, <2>3, <2>4
<1> HIDE DEF in
<1>5. DOMAIN in = Written
  <2>1. DOMAIN in = Names \cup Backends \cup DOMAIN Knobs \cup DOMAIN h
    BY <1>2, <1>4
  <2> QED
    BY <1>3, <2>1 DEF Written
<1>6. /\ \A key \in DOMAIN Enums : in[key] = Word(c[key])
      /\ in["network"] = Word(c.network) /\ in["beaconSource"] = Word(c.beaconSource)
  <2>1. \A key \in Names : in[key] = Word(c[key])
    BY <1>2, <1>4
  <2> QED
    BY <2>1
<1>7. \A key \in Backends : in[key] = UrlList(c[key])
  <2>1. \A key \in Backends : key \in DOMAIN f \ DOMAIN e
    BY <1>2, KeySets DEF Backends
  <2> QED
    BY <1>2, <1>4, <2>1
<1>8. \A key \in DOMAIN Knobs : in[key] = Int64(c[key])
  <2>1. \A key \in DOMAIN Knobs : key \in DOMAIN g \ (DOMAIN e \cup DOMAIN f)
    BY <1>2, KeySets DEF Backends
  <2> QED
    BY <1>2, <1>4, <2>1
<1>9. /\ in["trustedBlockRoot"] = Text(c.trustedBlockRoot)
      /\ in["autoStart"] = Bool(c.autoStart)
      /\ in["tuning"] = tuning /\ in["httpServer"] = served
  <2>1. \A x \in DOMAIN h : x \in DOMAIN h \ (DOMAIN e \cup DOMAIN f \cup DOMAIN g)
    BY <1>2, <1>3, KeySets DEF Backends
  <2>2. \A x \in DOMAIN h : in[x] = h[x]
    BY <1>4, <2>1
  <2> QED
    BY <1>3, <2>2
<1>10. in = [key \in Written |-> in[key]]
  BY <1>4, <1>5
<1>11. Raw(c).is = "object" /\ Raw(c).value = in
  BY <1>1 DEF Object
<1> QED
  BY <1>1, <1>5, <1>6, <1>7, <1>8, <1>9, <1>10, <1>11 DEF tuning, served

LEMMA ReadsWord ==
  ASSUME NEW in, NEW key \in DOMAIN in, NEW v, in[key] = Word(v), NEW default
  PROVE  /\ ReadEnum(in, key, default) = v
         /\ \A allowed : v \in allowed => EnumFits(in, key, allowed)
  BY DEF Word, Text, ReadEnum, Read, EnumFits, Given

LEMMA ReadsValue ==
  ASSUME NEW in, NEW key \in DOMAIN in, NEW v, NEW default
  PROVE  /\ in[key] = Int64(v) => Read(in, key, default) = v /\ Fits(in, key, "int")
         /\ in[key] = Bool(v) => Read(in, key, default) = v /\ Fits(in, key, "bool")
         /\ in[key] = Text(v) => Read(in, key, default) = v
  BY DEF Text, Int64, Bool, Read, Fits, Given

LEMMA ReadsList ==
  ASSUME NEW in, NEW key \in DOMAIN in, NEW S, NEW urls \in Seq(S), in[key] = UrlList(urls)
  PROVE  ReadStringList(in, key) = urls /\ StringListFits(in, key)
<1> DEFINE texts == [i \in DOMAIN urls |-> Text(urls[i])]
<1>1. in[key].is = "list" /\ in[key].value = texts
  BY DEF UrlList, List
<1>2. /\ DOMAIN texts = DOMAIN urls
      /\ \A i \in DOMAIN urls : texts[i].is = "text" /\ texts[i].value = urls[i]
  BY DEF Text
<1> HIDE DEF texts
<1>3. urls = [i \in DOMAIN urls |-> urls[i]]
  OBVIOUS
<1>4. [i \in DOMAIN texts |-> texts[i].value] = urls
  BY <1>2, <1>3
<1>5. Given(in, key)
  BY <1>1 DEF Given
<1>6. ReadStringList(in, key) = [i \in DOMAIN texts |-> texts[i].value]
  BY <1>1, <1>5 DEF ReadStringList
<1>7. StringListFits(in, key)
  BY <1>1, <1>2 DEF StringListFits
<1> QED
  BY <1>4, <1>6, <1>7

LEMMA AllKeys ==
  /\ Settings = DOMAIN Enums \cup Backends \cup DOMAIN TuningInts \cup DOMAIN Knobs
       \cup {"network", "trustedBlockRoot", "beaconSource", "syncHeaderStore", "autoStart",
             "httpEnabled", "httpPort", "httpHost"}
  /\ {"executionApiUrls", "beaconApiUrls"} \subseteq Backends
  /\ "keepAliveIntervalMs" \in DOMAIN Knobs
  /\ DOMAIN Enums \subseteq Written /\ Backends \subseteq Written
  /\ DOMAIN Knobs \subseteq Written
  /\ {"network", "beaconSource", "trustedBlockRoot", "autoStart", "tuning", "httpServer"}
       \subseteq Written
<1>1. {"executionApiUrls", "beaconApiUrls"} \subseteq Backends
  BY DEF Backends
<1>2. "keepAliveIntervalMs" \in DOMAIN Knobs
  BY KeySets
<1> QED
  BY <1>1, <1>2 DEF Settings, Written

\* config.json is the configuration: what was written of an accepted
\* configuration is accepted again, by any release that knows its network, and
\* is the same configuration.
LEMMA RoundTrip ==
  ASSUME NEW c, WellMade(c), NEW table, c.network \in DOMAIN table
  PROVE  Accepts(Raw(c), table) /\ Resolved(Raw(c).value, table) = c
<1> DEFINE in == Raw(c).value
           r == Resolved(in, table)
           tuning == Part(in, "tuning").value
           served == Part(in, "httpServer").value
<1>1. Raw(c).is = "object" /\ DOMAIN in = Written
  BY RawFields
<1>2. /\ \A key \in DOMAIN Enums : in[key] = Word(c[key])
      /\ in["network"] = Word(c.network)
      /\ in["beaconSource"] = Word(c.beaconSource)
  BY RawFields
<1>3. \A key \in Backends : in[key] = UrlList(c[key])
  BY RawFields
<1>4. \A key \in DOMAIN Knobs : in[key] = Int64(c[key])
  BY RawFields
<1>5. in["trustedBlockRoot"] = Text(c.trustedBlockRoot) /\ in["autoStart"] = Bool(c.autoStart)
  BY RawFields
<1>6. /\ Part(in, "tuning").is = "object"
      /\ \A key \in DOMAIN TuningInts : key \in DOMAIN tuning /\ tuning[key] = Int64(c[key])
      /\ "syncHeaderStore" \in DOMAIN tuning
      /\ tuning["syncHeaderStore"] = Bool(c.syncHeaderStore)
  <2> DEFINE f == [key \in DOMAIN TuningInts |-> Int64(c[key])]
             g == [syncHeaderStore |-> Bool(c.syncHeaderStore)]
  <2>1. /\ DOMAIN f = DOMAIN TuningInts
        /\ \A key \in DOMAIN TuningInts : f[key] = Int64(c[key])
        /\ DOMAIN g = {"syncHeaderStore"} /\ g["syncHeaderStore"] = Bool(c.syncHeaderStore)
        /\ "syncHeaderStore" \notin DOMAIN TuningInts
    BY KeySets
  <2>2. in["tuning"] = Object(f ++ g)
    BY RawFields
  <2> HIDE DEF f, g, in
  <2>3. "tuning" \in DOMAIN in
    BY <1>1, AllKeys
  <2>4. tuning = f ++ g /\ Part(in, "tuning").is = "object"
    BY <2>2, <2>3 DEF Part, Object
  <2>5. /\ DOMAIN (f ++ g) = DOMAIN f \cup DOMAIN g
        /\ \A x \in DOMAIN f : (f ++ g)[x] = f[x]
        /\ \A x \in DOMAIN g \ DOMAIN f : (f ++ g)[x] = g[x]
    BY Merged
  <2> QED
    BY <2>1, <2>4, <2>5
<1>7. /\ Part(in, "httpServer").is = "object"
      /\ DOMAIN served = {"enabled", "host", "port"}
      /\ served["enabled"] = Bool(c.httpEnabled) /\ served["host"] = Text(c.httpHost)
      /\ served["port"] = Int64(c.httpPort)
  <2>1. in["httpServer"] = Object([enabled |-> Bool(c.httpEnabled),
                                   host |-> Text(c.httpHost),
                                   port |-> Int64(c.httpPort)])
    BY RawFields
  <2> HIDE DEF in
  <2>2. "httpServer" \in DOMAIN in
    BY <1>1, AllKeys
  <2> QED
    BY <2>1, <2>2 DEF Part, Object
<1> HIDE DEF in, tuning, served
<1>8. /\ DOMAIN Enums \subseteq DOMAIN in /\ Backends \subseteq DOMAIN in
      /\ DOMAIN Knobs \subseteq DOMAIN in
      /\ "network" \in DOMAIN in /\ "beaconSource" \in DOMAIN in
      /\ "trustedBlockRoot" \in DOMAIN in /\ "autoStart" \in DOMAIN in
      /\ "executionApiUrls" \in Backends /\ "beaconApiUrls" \in Backends
  BY <1>1, AllKeys
<1>9. ASSUME NEW key \in DOMAIN Enums
      PROVE  ReadEnum(in, key, EnumDefaults[key]) = c[key] /\ EnumFits(in, key, Enums[key])
  <2>1. key \in DOMAIN in /\ in[key] = Word(c[key]) /\ c[key] \in Enums[key]
    BY <1>2, <1>8 DEF WellMade
  <2> QED
    BY <2>1, ReadsWord
<1>10. Network(in) = c.network /\ NetworkFits(in, table)
  BY <1>2, <1>8, ReadsWord DEF Network, NetworkFits
<1>11. /\ \A profile : BeaconSource(in, profile) = c.beaconSource
       /\ EnumFits(in, "beaconSource", Sources)
  <2>1. c.beaconSource \in Sources
    BY DEF WellMade
  <2> QED
    BY <1>2, <1>8, <2>1, ReadsWord DEF BeaconSource
<1>12. ASSUME NEW key \in Backends
       PROVE  ReadStringList(in, key) = c[key] /\ StringListFits(in, key)
  <2>1. /\ key \in DOMAIN in /\ in[key] = UrlList(c[key])
        /\ c[key] \in Seq({<<u>> : u \in Schemed})
    BY <1>3, <1>8 DEF WellMade, UrlLists
  <2> QED
    BY <2>1, ReadsList
<1>13. \A default : /\ Endpoints(in, "executionApiUrls", default) = c.executionApiUrls
                    /\ Endpoints(in, "beaconApiUrls", default) = c.beaconApiUrls
  BY <1>8, <1>12 DEF Endpoints
<1>14. ASSUME NEW key \in DOMAIN Knobs, NEW default
       PROVE  Read(in, key, default) = c[key] /\ Fits(in, key, "int")
  BY <1>4, <1>8, ReadsValue
<1>15. /\ Read(in, "autoStart", Switches.autoStart) = c.autoStart
       /\ Fits(in, "autoStart", "bool")
       /\ in["trustedBlockRoot"].is = "text"
       /\ in["trustedBlockRoot"].value = c.trustedBlockRoot
  <2>1. /\ Read(in, "autoStart", Switches.autoStart) = c.autoStart
        /\ Fits(in, "autoStart", "bool")
    BY <1>5, <1>8, ReadsValue
  <2> QED
    BY <1>5, <2>1 DEF Text
<1>16. ASSUME NEW key \in DOMAIN TuningInts, NEW default
       PROVE  Read(tuning, key, default) = c[key] /\ Fits(tuning, key, "int")
  BY <1>6, ReadsValue
<1>17. /\ Read(tuning, "syncHeaderStore", Switches.syncHeaderStore) = c.syncHeaderStore
       /\ Fits(tuning, "syncHeaderStore", "bool")
  BY <1>6, ReadsValue
<1>18. /\ Read(served, "enabled", Switches.enabled) = c.httpEnabled
       /\ Fits(served, "enabled", "bool")
       /\ Read(served, "port", 8545) = c.httpPort /\ Fits(served, "port", "int")
       /\ Read(served, "host", <<"127.0.0.1">>) = c.httpHost /\ served["host"].is = "text"
  <2>1. "enabled" \in DOMAIN served /\ "host" \in DOMAIN served /\ "port" \in DOMAIN served
    BY <1>7
  <2>2. served["host"].is = "text"
    BY <1>7 DEF Text
  <2> QED
    BY <1>7, <2>1, <2>2, ReadsValue
<1>19. r = c
  <2> DEFINE profile == table[Network(in)]
  <2>1. Complete(r)
    BY ResolvedFields
  <2>2. \A key \in DOMAIN Enums : r[key] = c[key]
    BY <1>9, ResolvedFields
  <2>3. r.network = c.network /\ r.trustedBlockRoot = c.trustedBlockRoot
    <3>1. r.network = Network(in) /\ r.trustedBlockRoot = in["trustedBlockRoot"].value
      BY ResolvedFields
    <3> QED
      BY <1>10, <1>15, <3>1
  <2>4. r.beaconSource = c.beaconSource
    <3>1. r.beaconSource = BeaconSource(in, profile)
      BY ResolvedFields
    <3> QED
      BY <1>11, <3>1
  <2>5. r.executionApiUrls = c.executionApiUrls /\ r.beaconApiUrls = c.beaconApiUrls
    <3>1. /\ r.executionApiUrls = Endpoints(in, "executionApiUrls", profile.executionApiUrl)
          /\ r.beaconApiUrls = Endpoints(in, "beaconApiUrls", profile.beaconApiUrl)
      BY ResolvedFields
    <3> QED
      BY <1>13, <3>1
  <2>6. \A key \in Backends : r[key] = c[key]
    <3>1. \A key \in Backends \ {"executionApiUrls", "beaconApiUrls"} :
            r[key] = ReadStringList(in, key)
      BY ResolvedFields
    <3> HIDE DEF r
    <3> QED
      BY <1>12, <2>5, <3>1
  <2>7. /\ r.syncHeaderStore = c.syncHeaderStore
        /\ \A key \in DOMAIN TuningInts : r[key] = c[key]
    <3>1. /\ r.syncHeaderStore = Read(tuning, "syncHeaderStore", Switches.syncHeaderStore)
          /\ \A key \in DOMAIN TuningInts : r[key] = Read(tuning, key, TuningInts[key])
      BY ResolvedFields DEF tuning
    <3> HIDE DEF r
    <3> QED
      BY <1>16, <1>17, <3>1
  <2>8. r.autoStart = c.autoStart
    BY <1>15, ResolvedFields
  <2>9. r.httpEnabled = c.httpEnabled /\ r.httpPort = c.httpPort /\ r.httpHost = c.httpHost
    <3>1. /\ r.httpEnabled = Read(served, "enabled", Switches.enabled)
          /\ r.httpPort = Read(served, "port", 8545)
          /\ r.httpHost = Read(served, "host", <<"127.0.0.1">>)
      BY ResolvedFields DEF served
    <3> QED
      BY <1>18, <3>1
  <2>10. \A key \in DOMAIN Knobs : r[key] = c[key]
    <3>1. /\ r.keepAliveIntervalMs =
               Greater(Read(in, "keepAliveIntervalMs", BeaconSlotMs), BeaconSlotMs)
          /\ \A key \in DOMAIN Knobs \ {"keepAliveIntervalMs"} :
               r[key] = Read(in, key, Knobs[key])
      BY ResolvedFields
    <3> HIDE DEF r
    <3>2. r.keepAliveIntervalMs = c.keepAliveIntervalMs
      BY <1>14, <3>1, AllKeys DEF WellMade
    <3> QED
      BY <1>14, <3>1, <3>2
  <2> HIDE DEF r
  <2>11. \A key \in Settings : r[key] = c[key]
    BY <2>2, <2>3, <2>4, <2>5, <2>6, <2>7, <2>8, <2>9, <2>10 DEF Settings
  <2>12. Complete(c)
    BY DEF WellMade
  <2> QED
    BY ONLY <2>1, <2>11, <2>12 DEF Complete
<1>20. Accepts(Raw(c), table)
  <2>1. TuningFits(Part(in, "tuning"))
    BY <1>6, <1>16, <1>17 DEF TuningFits, tuning
  <2>2. HttpFits(Part(in, "httpServer"))
    <3>1. c.httpEnabled = FALSE \/ c.httpPort \in Ports
      BY DEF WellMade
    <3> QED
      BY <1>7, <1>18, <3>1 DEF HttpFits, served
  <2>3. /\ \A key \in Backends : ValidUrls(r[key])
        /\ r.executionApiUrls # <<>> /\ (r.beaconSource = "urls" => r.beaconApiUrls # <<>>)
    <3> HIDE DEF r
    <3>1. ASSUME NEW key \in Backends
          PROVE  ValidUrls(c[key])
      <4>1. c[key] \in Seq({<<u>> : u \in Schemed})
        BY DEF WellMade, UrlLists
      <4>2. \A i \in 1..Len(c[key]) : c[key][i] \in {<<u>> : u \in Schemed}
        BY <4>1, ElementOfSeq
      <4>3. DOMAIN c[key] = 1..Len(c[key])
        BY <4>1, LenProperties
      <4> QED
        BY <4>2, <4>3 DEF ValidUrls
    <3> QED
      BY <1>19, <3>1 DEF WellMade
  <2>4. \A key \in DOMAIN Knobs \ {"drainTimeoutMs"} : Read(in, key, Knobs[key]) > 0
    BY <1>14 DEF WellMade
  <2>5. in["trustedBlockRoot"].value \in Roots
    BY <1>15 DEF WellMade
  <2>6. Raw(c).value = in
    BY DEF in
  <2> HIDE DEF r
  <2>7. Resolved(in, table) = r
    BY DEF r
  <2> QED
    BY <1>1, <1>8, <1>9, <1>10, <1>11, <1>12, <1>14, <1>15, <2>1, <2>2, <2>3, <2>4, <2>5,
       <2>6, <2>7
    DEF Accepts
<1> QED
  BY <1>19, <1>20 DEF in

LEMMA UrlListsAreLists ==
  ASSUME NEW urls
  PROVE  urls \in UrlLists <=> IsList(urls) /\ ValidUrls(urls)
<1>1. ASSUME urls \in UrlLists
      PROVE  IsList(urls) /\ ValidUrls(urls)
  BY <1>1, SeqIsList DEF UrlLists, ValidUrls
<1>2. ASSUME IsList(urls), ValidUrls(urls)
      PROVE  urls \in UrlLists
  BY <1>2, ListOf DEF UrlLists, ValidUrls
<1> QED
  BY <1>1, <1>2

LEMMA ReadListIsList ==
  ASSUME NEW json, Parsed(json), json.is = "object", NEW key \in Backends,
         StringListFits(json.value, key)
  PROVE  IsList(ReadStringList(json.value, key))
<1> DEFINE in == json.value
           given == in[key].value
<1>1. Given(in, key) => IsList(given)
  BY DEF Given, Parsed, IsList, StringListFits
<1> HIDE DEF in, given
<1>2. CASE ~Given(in, key)
  <2>1. ReadStringList(in, key) = <<>>
    BY <1>2 DEF ReadStringList
  <2>2. IsList(<<>>)
    BY EmptySeq DEF IsList
  <2> QED
    BY <2>1, <2>2 DEF in
<1>3. CASE Given(in, key) /\ in[key].is = "text"
  <2> DEFINE pieces == Picked(given, {i \in DOMAIN given : given[i] # ""})
  <2>1. IsList(pieces)
    BY <1>1, <1>3, PickedIsList
  <2>2. ReadStringList(in, key) = [i \in DOMAIN pieces |-> <<pieces[i]>>]
    BY <1>3 DEF ReadStringList, given
  <2> HIDE DEF pieces
  <2>3. Len(pieces) \in Nat /\ DOMAIN pieces = 1..Len(pieces)
    BY <2>1, ListIsFunction
  <2> QED
    BY <2>2, <2>3, FunctionIsList DEF in
<1>4. CASE Given(in, key) /\ in[key].is # "text"
  <2>1. ReadStringList(in, key) = [i \in DOMAIN given |-> given[i].value]
    BY <1>4 DEF ReadStringList, given
  <2>2. Len(given) \in Nat /\ DOMAIN given = 1..Len(given)
    BY <1>1, <1>4, ListIsFunction
  <2> QED
    BY <2>1, <2>2, FunctionIsList DEF in
<1> QED
  BY <1>2, <1>3, <1>4

LEMMA ResolvedLists ==
  ASSUME NEW json, Parsed(json), json.is = "object", NEW table, NEW key \in Backends,
         StringListFits(json.value, key)
  PROVE  IsList(Resolved(json.value, table)[key])
<1> DEFINE in == json.value
           r == Resolved(in, table)
           profile == table[Network(in)]
<1>1. \A default : IsList(Endpoints(in, key, default))
  <2>1. ASSUME NEW default
        PROVE  IsList(<<<<default>>>>)
    <3>1. /\ DOMAIN <<<<default>>>> = 1..1
          /\ <<<<default>>>> = [i \in 1..1 |-> <<<<default>>>>[i]]
      OBVIOUS
    <3> QED
      BY <3>1, FunctionIsList
  <2>2. IsList(ReadStringList(in, key))
    BY ReadListIsList
  <2> QED
    BY <2>1, <2>2 DEF Endpoints
<1>2. \/ key = "executionApiUrls" /\ r[key] = Endpoints(in, key, profile.executionApiUrl)
      \/ key = "beaconApiUrls" /\ r[key] = Endpoints(in, key, profile.beaconApiUrl)
      \/ r[key] = ReadStringList(in, key)
  BY ResolvedFields
<1> HIDE DEF r, in
<1> QED
  BY <1>1, <1>2, ReadListIsList DEF r, in

\* What configure() accepts, it makes a configuration of that the library can
\* work with, whatever the defaults of its release were filled in for.
LEMMA AcceptedIsWellMade ==
  ASSUME NEW json, Parsed(json), NEW table, Accepts(json, table), "mainnet" \in DOMAIN table
  PROVE  /\ WellMade(Resolved(json.value, table))
         /\ Resolved(json.value, table).network \in DOMAIN table
<1> DEFINE in == json.value
           c == Resolved(in, table)
           served == Part(in, "httpServer").value
<1>1. /\ json.is = "object"
      /\ NetworkFits(in, table)
      /\ \A key \in DOMAIN Enums : EnumFits(in, key, Enums[key])
      /\ EnumFits(in, "beaconSource", Sources)
      /\ in["trustedBlockRoot"].value \in Roots
      /\ \A key \in Backends : StringListFits(in, key)
      /\ HttpFits(Part(in, "httpServer"))
      /\ \A key \in Backends : ValidUrls(c[key])
      /\ c.executionApiUrls # <<>>
      /\ c.beaconSource = "urls" => c.beaconApiUrls # <<>>
      /\ \A key \in DOMAIN Knobs \ {"drainTimeoutMs"} : Read(in, key, Knobs[key]) > 0
  BY DEF Accepts
<1>2. ASSUME NEW key, NEW allowed, EnumFits(in, key, allowed), NEW default \in allowed
      PROVE  ReadEnum(in, key, default) \in allowed
  BY <1>2 DEF EnumFits, ReadEnum, Read
<1>3. /\ Complete(c)
      /\ \A key \in DOMAIN Enums : c[key] = ReadEnum(in, key, EnumDefaults[key])
      /\ c.network = Network(in)
      /\ c.trustedBlockRoot = in["trustedBlockRoot"].value
      /\ c.beaconSource = BeaconSource(in, table[Network(in)])
      /\ c.httpEnabled = Read(served, "enabled", Switches.enabled)
      /\ c.httpPort = Read(served, "port", 8545)
      /\ c.keepAliveIntervalMs =
           Greater(Read(in, "keepAliveIntervalMs", BeaconSlotMs), BeaconSlotMs)
      /\ \A key \in DOMAIN Knobs \ {"keepAliveIntervalMs"} :
           c[key] = Read(in, key, Knobs[key])
  BY ResolvedFields
<1>4. \A key \in Backends : IsList(c[key])
  BY <1>1, ResolvedLists
<1> HIDE DEF c, in, served
<1>5. \A key \in DOMAIN Enums : c[key] \in Enums[key]
  <2>1. \A key \in DOMAIN Enums : EnumDefaults[key] \in Enums[key]
    BY DEF Enums, EnumDefaults
  <2> QED
    BY <1>1, <1>2, <1>3, <2>1
<1>6. c.network \in DOMAIN table
  BY <1>1, <1>2, <1>3 DEF NetworkFits, Network
<1>7. c.beaconSource \in Sources
  <2>1. "module" \in Sources /\ "urls" \in Sources
    BY DEF Sources
  <2> QED
    BY <1>1, <1>2, <1>3, <2>1 DEF BeaconSource
<1>8. c.trustedBlockRoot \in Roots
  BY <1>1, <1>3
<1>9. \A key \in Backends : c[key] \in UrlLists
  BY <1>1, <1>4, UrlListsAreLists
<1>10. c.httpEnabled = FALSE \/ c.httpPort \in Ports
  BY <1>1, <1>3 DEF HttpFits, served
<1>11. /\ \A key \in DOMAIN Knobs \ {"drainTimeoutMs"} : c[key] > 0
       /\ c.keepAliveIntervalMs = Greater(c.keepAliveIntervalMs, BeaconSlotMs)
  <2> DEFINE given == Read(in, "keepAliveIntervalMs", BeaconSlotMs)
  <2>1. BeaconSlotMs > 0 /\ BeaconSlotMs >= BeaconSlotMs
    BY DEF BeaconSlotMs
  <2>2. /\ "keepAliveIntervalMs" \in DOMAIN Knobs \ {"drainTimeoutMs"}
        /\ Knobs.keepAliveIntervalMs = BeaconSlotMs
    BY DEF Knobs
  <2>3. given > 0
    BY <1>1, <2>2
  <2>4. c.keepAliveIntervalMs = Greater(given, BeaconSlotMs)
    BY <1>3
  <2> HIDE DEF given
  <2>5. /\ c.keepAliveIntervalMs > 0
        /\ c.keepAliveIntervalMs = Greater(c.keepAliveIntervalMs, BeaconSlotMs)
    BY <2>1, <2>3, <2>4 DEF Greater
  <2> QED
    BY <1>1, <1>3, <2>5
<1> QED
  BY <1>1, <1>3, <1>5, <1>6, <1>7, <1>8, <1>9, <1>10, <1>11 DEF WellMade, c, in

\* A configuration is a function of its settings.
LEMMA OneSettingChanges ==
  ASSUME NEW c, Complete(c), NEW key \in Settings, NEW v
  PROVE  LET d == [c EXCEPT ![key] = v]
         IN  /\ Complete(d) /\ d[key] = v
             /\ \A other \in Settings \ {key} : d[other] = c[other]
<1>1. DOMAIN c = Settings
  BY DEF Complete
<1> QED
  BY <1>1 DEF Complete

LEMMA WellMadeIsThere ==
  ASSUME NEW c, WellMade(c)
  PROVE  c # NoConfig
<1>1. DOMAIN c = Settings
  BY DEF WellMade, Complete
<1>2. "network" \in Settings
  BY DEF Settings
<1>3. DOMAIN NoConfig = {}
  BY DEF NoConfig
<1> QED
  BY <1>1, <1>2, <1>3

\* Another list of execution or beacon URLs is the only thing that is changed
\* of a configuration after it was accepted.
LEMMA OtherUrls ==
  ASSUME NEW c, WellMade(c), NEW key \in {"executionApiUrls", "beaconApiUrls"},
         NEW urls \in UrlLists, urls # <<>>
  PROVE  LET d == [c EXCEPT ![key] = urls]
         IN  /\ WellMade(d) /\ d[key] = urls
             /\ \A other \in Settings \ {key} : d[other] = c[other]
<1> DEFINE d == [c EXCEPT ![key] = urls]
<1>1. key \in Settings /\ key \in Backends
  BY AllKeys
<1>2. Complete(c)
  BY DEF WellMade
<1>3. /\ Complete(d) /\ d[key] = urls
      /\ \A other \in Settings \ {key} : d[other] = c[other]
  BY <1>1, <1>2, OneSettingChanges
<1> HIDE DEF d
<1>4. /\ \A other \in DOMAIN Enums : other \in Settings \ {key}
      /\ \A other \in DOMAIN Knobs : other \in Settings \ {key}
      /\ \A other \in Backends : other \in Settings
      /\ {"beaconSource", "trustedBlockRoot", "httpEnabled", "httpPort", "keepAliveIntervalMs"}
           \subseteq Settings \ {key}
      /\ {"executionApiUrls", "beaconApiUrls"} \subseteq Settings
  BY KeySets, AllKeys
<1>5. /\ \A other \in DOMAIN Enums : d[other] \in Enums[other]
      /\ \A other \in DOMAIN Knobs \ {"drainTimeoutMs"} : d[other] > 0
  BY <1>3, <1>4 DEF WellMade
<1>6. \A other \in Backends : d[other] \in UrlLists
  BY <1>3, <1>4 DEF WellMade
<1>7. /\ d.beaconSource = c.beaconSource /\ d.trustedBlockRoot = c.trustedBlockRoot
      /\ d.httpEnabled = c.httpEnabled /\ d.httpPort = c.httpPort
      /\ d.keepAliveIntervalMs = c.keepAliveIntervalMs
  BY <1>3, <1>4
<1>8. /\ d.executionApiUrls # <<>>
      /\ c.beaconApiUrls # <<>> => d.beaconApiUrls # <<>>
  <2>1. \A other \in {"executionApiUrls", "beaconApiUrls"} :
          d[other] = urls \/ d[other] = c[other]
    BY <1>3, <1>4
  <2> QED
    BY <2>1 DEF WellMade
<1>9. WellMade(d)
  BY <1>3, <1>5, <1>6, <1>7, <1>8 DEF WellMade
<1> QED
  BY <1>3, <1>9 DEF d

\* Moving a retired default on leaves a configuration that is accepted by the
\* release it is moved on to, and moving it on twice is moving it on once.
LEMMA MovedOnStays ==
  ASSUME NEW c, WellMade(c), NEW now \in DOMAIN Tables
  PROVE  /\ WellMade(MovedOn(c, now))
         /\ MovedOn(c, now).network = c.network
         /\ MovedOn(MovedOn(c, now), now) = MovedOn(c, now)
<1> DEFINE default == Tables[now][c.network].executionApiUrl
           urls == <<<<default>>>>
           d == [c EXCEPT !.executionApiUrls = urls]
<1>1. CASE MovedOn(c, now) = c
  BY <1>1
<1>2. CASE MovedOn(c, now) # c
  <2>1. MovedOn(c, now) = d /\ c.network \in DOMAIN Tables[now] /\ default # ""
    BY <1>2 DEF MovedOn
  <2>2. default \in Schemed
    BY <2>1, VerifiedProxyAssumption
  <2> HIDE DEF default
  <2>3. urls \in UrlLists /\ urls # <<>>
    <3>1. <<default>> \in {<<u>> : u \in Schemed}
      BY <2>2
    <3> QED
      BY <3>1 DEF UrlLists
  <2> HIDE DEF urls
  <2>4. WellMade(d) /\ d.executionApiUrls = urls /\ d.network = c.network
    BY <2>3, OtherUrls, AllKeys
  <2>5. [d EXCEPT !.executionApiUrls = urls] = d
    BY <2>4
  <2>6. Tables[now][d.network].executionApiUrl = default
    BY <2>4 DEF default
  <2> HIDE DEF d
  <2>7. MovedOn(d, now) = d
    BY <2>5, <2>6 DEF MovedOn, urls
  <2> QED
    BY <2>1, <2>4, <2>7
<1> QED
  BY <1>1, <1>2

\* Of what was written, the migration recognises a retired default in the list
\* and the network, and never stumbles over it.
LEMMA RetiredIsSeen ==
  ASSUME NEW c, WellMade(c), NEW in, in = Raw(c).value,
         NEW retired, \A old \in retired : old[2] # ""
  PROVE  /\ Migratable(Raw(c))
         /\ <<in["network"].value, OnlyUrl(in["executionApiUrls"])>>
              \in {<<<<old[1]>>, <<old[2]>>>> : old \in retired}
            <=> <<c.network, c.executionApiUrls>>
                  \in {<<old[1], <<<<old[2]>>>>>> : old \in retired}
<1> DEFINE urls == c.executionApiUrls
           only == OnlyUrl(in["executionApiUrls"])
<1>1. in["network"].is = "text" /\ in["network"].value = <<c.network>>
  <2>1. in["network"] = Word(c.network)
    BY RawFields
  <2> QED
    BY ONLY <2>1 DEF Word, Text
<1>2. IsList(urls) /\ Len(urls) \in Nat /\ DOMAIN urls = 1..Len(urls)
  <2>1. urls \in UrlLists
    BY AllKeys DEF WellMade
  <2> QED
    BY <2>1, UrlListsAreLists, ListIsFunction
<1>3. only = IF Len(urls) = 1 THEN urls[1] ELSE <<"">>
  <2> DEFINE texts == [i \in DOMAIN urls |-> Text(urls[i])]
  <2>1. in["executionApiUrls"] = UrlList(urls)
    BY RawFields, AllKeys
  <2> HIDE DEF urls
  <2>2. in["executionApiUrls"].is = "list" /\ in["executionApiUrls"].value = texts
    BY ONLY <2>1 DEF UrlList, List
  <2>3. Len(texts) = Len(urls)
    <3>1. DOMAIN texts = 1..Len(urls) /\ texts = [i \in 1..Len(urls) |-> texts[i]]
      BY <1>2
    <3> HIDE DEF texts
    <3> QED
      BY <1>2, <3>1, FunctionIsList
  <2>4. Len(urls) = 1 => texts[1].is = "text" /\ texts[1].value = urls[1]
    <3>1. Len(urls) = 1 => 1 \in DOMAIN urls
      BY <1>2, OnlyOne
    <3>2. \A i \in DOMAIN urls : texts[i] = Text(urls[i])
      OBVIOUS
    <3> HIDE DEF texts
    <3>3. Len(urls) = 1 => texts[1] = Text(urls[1])
      BY <3>1, <3>2
    <3> QED
      BY ONLY <3>3 DEF Text
  <2> HIDE DEF texts
  <2> QED
    BY <2>2, <2>3, <2>4 DEF OnlyUrl
<1> HIDE DEF urls, only
<1>4. ASSUME NEW old \in retired
      PROVE  <<in["network"].value, only>> = <<<<old[1]>>, <<old[2]>>>>
               <=> <<c.network, urls>> = <<old[1], <<<<old[2]>>>>>>
  <2>1. <<"">> # <<old[2]>>
    OBVIOUS
  <2>2. only = <<old[2]>> <=> Len(urls) = 1 /\ urls[1] = <<old[2]>>
    BY <1>3, <2>1
  <2>3. Len(urls) = 1 /\ urls[1] = <<old[2]>> <=> urls = <<<<old[2]>>>>
    <3>1. ASSUME Len(urls) = 1, urls[1] = <<old[2]>>
          PROVE  urls = <<<<old[2]>>>>
      <4>1. urls = <<urls[1]>>
        BY <1>2, <3>1, OnlyOne
      <4> QED
        BY <3>1, <4>1
    <3>2. \A x : Len(<<x>>) = 1 /\ <<x>>[1] = x
      OBVIOUS
    <3> QED
      BY <3>1, <3>2
  <2>4. in["network"].value = <<old[1]>> <=> c.network = old[1]
    <3>1. \A x, y : <<x>> = <<y>> <=> x = y
      OBVIOUS
    <3> QED
      BY <1>1, <3>1
  <2> QED
    BY <2>2, <2>3, <2>4
<1>5. Migratable(Raw(c))
  BY <1>1 DEF Migratable
<1> QED
  BY <1>4, <1>5 DEF urls, only

\* The migration of config.json at the next load is the configuration that was
\* written, moved on.
LEMMA MigratedRaw ==
  ASSUME NEW c, WellMade(c), NEW in, in = Raw(c).value, NEW now \in DOMAIN Tables
  PROVE  Migrated(Raw(c), Tables[now], Retired[now]) = Raw(MovedOn(c, now))
<1> DEFINE table == Tables[now]
           default == table[c.network].executionApiUrl
           urls == <<<<default>>>>
           d == [c EXCEPT !.executionApiUrls = urls]
           seen == <<in["network"].value, OnlyUrl(in["executionApiUrls"])>>
                     \in {<<<<old[1]>>, <<old[2]>>>> : old \in Retired[now]}
           known == c.network \in DOMAIN table /\ default # ""
<1>1. seen <=> <<c.network, c.executionApiUrls>>
                 \in {<<old[1], <<<<old[2]>>>>>> : old \in Retired[now]}
  BY RetiredIsSeen, VerifiedProxyAssumption
<1>2. MovedOn(c, now) = IF seen /\ known THEN d ELSE c
  BY <1>1, WellMadeIsThere DEF MovedOn
<1>3. /\ "executionApiUrls" \in DOMAIN in /\ "network" \in DOMAIN in
      /\ DOMAIN in = Written /\ in = [key \in Written |-> in[key]] /\ Raw(c) = Object(in)
  BY RawFields, AllKeys
<1>4. in["network"].value = <<c.network>>
  <2>1. in["network"] = Word(c.network)
    BY RawFields
  <2> QED
    BY ONLY <2>1 DEF Word, Text
<1>5. Migrated(Raw(c), table, Retired[now]) =
        IF seen /\ known
        THEN Object([in EXCEPT !["executionApiUrls"] = List(<<Word(default)>>)])
        ELSE Raw(c)
  <2>1. <<c.network>>[1] = c.network
    OBVIOUS
  <2> HIDE DEF table
  <2> QED
    BY <1>3, <1>4, <2>1 DEF Migrated, seen, known
<1>6. ASSUME seen /\ known
      PROVE  Object([in EXCEPT !["executionApiUrls"] = List(<<Word(default)>>)]) = Raw(d)
  <2> DEFINE out == Raw(d).value
             moved == [in EXCEPT !["executionApiUrls"] = List(<<Word(default)>>)]
  <2> HIDE DEF urls
  <2>1. /\ \A key \in Settings \ {"executionApiUrls"} : d[key] = c[key]
        /\ d.executionApiUrls = urls
    <3>1. Complete(c) /\ "executionApiUrls" \in Settings
      BY AllKeys DEF WellMade
    <3> QED
      BY <3>1, OneSettingChanges
  <2>2. d.executionApiUrls = <<<<default>>>>
    BY <2>1 DEF urls
  <2> HIDE DEF d
  <2>3. Raw(d) = Object(out) /\ out = [key \in Written |-> out[key]]
    BY RawFields
  <2>4. moved = [key \in Written |-> moved[key]]
    BY <1>3
  <2>5. moved["executionApiUrls"] = out["executionApiUrls"]
    <3>1. out["executionApiUrls"] = UrlList(<<<<default>>>>)
      <4>1. out["executionApiUrls"] = UrlList(d["executionApiUrls"])
        BY RawFields, AllKeys
      <4> QED
        BY <2>2, <4>1
    <3>2. moved["executionApiUrls"] = List(<<Word(default)>>)
      BY <1>3
    <3>3. [i \in DOMAIN <<<<default>>>> |-> Text(<<<<default>>>>[i])] = <<Word(default)>>
      BY DEF Word
    <3> QED
      BY <3>1, <3>2, <3>3 DEF UrlList
  <2>6. \A key \in Written \ {"executionApiUrls"} : moved[key] = in[key]
    BY <1>3
  <2>7. \A key \in Written \ {"executionApiUrls"} : in[key] = out[key]
    <3>1. /\ \A key \in DOMAIN Enums \cup DOMAIN Knobs \cup DOMAIN TuningInts :
                 key \in Settings \ {"executionApiUrls"}
          /\ \A key \in Backends : key \in Settings
          /\ {"network", "beaconSource", "trustedBlockRoot", "autoStart", "syncHeaderStore",
              "httpEnabled", "httpHost", "httpPort"} \subseteq Settings \ {"executionApiUrls"}
      BY KeySets, AllKeys
    <3>2. ASSUME NEW key \in DOMAIN Enums
          PROVE  in[key] = out[key]
      <4>1. in[key] = Word(c[key]) /\ out[key] = Word(d[key])
        BY RawFields
      <4> QED
        BY <2>1, <3>1, <4>1
    <3>3. in["network"] = out["network"] /\ in["beaconSource"] = out["beaconSource"]
      <4>1. /\ in["network"] = Word(c.network) /\ out["network"] = Word(d.network)
            /\ in["beaconSource"] = Word(c.beaconSource)
            /\ out["beaconSource"] = Word(d.beaconSource)
        BY RawFields
      <4>2. c.network = d.network /\ c.beaconSource = d.beaconSource
        BY <2>1, <3>1
      <4> QED
        BY <4>1, <4>2
    <3>4. ASSUME NEW key \in Backends \ {"executionApiUrls"}
          PROVE  in[key] = out[key]
      <4>1. in[key] = UrlList(c[key]) /\ out[key] = UrlList(d[key])
        BY RawFields
      <4> QED
        BY <2>1, <3>1, <4>1
    <3>5. ASSUME NEW key \in DOMAIN Knobs
          PROVE  in[key] = out[key]
      <4>1. in[key] = Int64(c[key]) /\ out[key] = Int64(d[key])
        BY RawFields
      <4> QED
        BY <2>1, <3>1, <4>1
    <3>6. /\ in["trustedBlockRoot"] = out["trustedBlockRoot"]
          /\ in["autoStart"] = out["autoStart"]
      <4>1. /\ in["trustedBlockRoot"] = Text(c.trustedBlockRoot)
            /\ out["trustedBlockRoot"] = Text(d.trustedBlockRoot)
            /\ in["autoStart"] = Bool(c.autoStart) /\ out["autoStart"] = Bool(d.autoStart)
        BY RawFields
      <4>2. c.trustedBlockRoot = d.trustedBlockRoot /\ c.autoStart = d.autoStart
        BY <2>1, <3>1
      <4> QED
        BY <4>1, <4>2
    <3>7. in["tuning"] = out["tuning"]
      <4>1. /\ in["tuning"] = Object([key \in DOMAIN TuningInts |-> Int64(c[key])]
                                     ++ [syncHeaderStore |-> Bool(c.syncHeaderStore)])
            /\ out["tuning"] = Object([key \in DOMAIN TuningInts |-> Int64(d[key])]
                                      ++ [syncHeaderStore |-> Bool(d.syncHeaderStore)])
        BY RawFields
      <4>2. /\ c.syncHeaderStore = d.syncHeaderStore
            /\ \A key \in DOMAIN TuningInts : c[key] = d[key]
        BY <2>1, <3>1
      <4>3. [key \in DOMAIN TuningInts |-> Int64(c[key])]
              = [key \in DOMAIN TuningInts |-> Int64(d[key])]
        BY <4>2
      <4> QED
        BY <4>1, <4>2, <4>3
    <3>8. in["httpServer"] = out["httpServer"]
      <4>1. /\ in["httpServer"] = Object([enabled |-> Bool(c.httpEnabled),
                                          host |-> Text(c.httpHost),
                                          port |-> Int64(c.httpPort)])
            /\ out["httpServer"] = Object([enabled |-> Bool(d.httpEnabled),
                                           host |-> Text(d.httpHost),
                                           port |-> Int64(d.httpPort)])
        BY RawFields
      <4>2. c.httpEnabled = d.httpEnabled /\ c.httpHost = d.httpHost /\ c.httpPort = d.httpPort
        BY <2>1, <3>1
      <4> QED
        BY <4>1, <4>2
    <3> HIDE DEF out
    <3> QED
      BY <3>2, <3>3, <3>4, <3>5, <3>6, <3>7, <3>8 DEF Written
  <2> HIDE DEF out, moved
  <2>8. \A key \in Written : moved[key] = out[key]
    BY <2>5, <2>6, <2>7
  <2>9. moved = out
    BY <2>3, <2>4, <2>8
  <2> QED
    BY <2>3, <2>9 DEF moved
<1> HIDE DEF seen, known, d
<1> QED
  BY <1>2, <1>5, <1>6 DEF table

LEMMA RawIsParsed ==
  ASSUME NEW c, \A key \in Backends : IsList(c[key])
  PROVE  Parsed(Raw(c))
<1>1. ASSUME NEW in, in = Raw(c).value, NEW key \in Backends
      PROVE  in[key].value \in Seq(Range(in[key].value))
  <2> DEFINE urls == c[key]
             texts == [i \in DOMAIN urls |-> Text(urls[i])]
  <2>1. in[key] = UrlList(urls)
    BY <1>1, RawFields
  <2>2. Len(urls) \in Nat /\ DOMAIN urls = 1..Len(urls)
    BY ListIsFunction
  <2> HIDE DEF urls
  <2>3. in[key].value = texts
    BY ONLY <2>1 DEF UrlList, List
  <2>4. DOMAIN texts = 1..Len(urls) /\ texts = [i \in 1..Len(urls) |-> texts[i]]
    BY <2>2
  <2> HIDE DEF texts
  <2>5. IsList(texts)
    BY <2>2, <2>4, FunctionIsList
  <2> QED
    BY <2>3, <2>5 DEF IsList
<1> QED
  BY <1>1 DEF Parsed

LEMMA MigratedIsParsed ==
  ASSUME NEW json, Parsed(json), json.is = "object", NEW table, NEW retired
  PROVE  Parsed(Migrated(json, table, retired)) /\ Migrated(json, table, retired).is = "object"
<1> DEFINE moved(url) ==
             Object([json.value EXCEPT !["executionApiUrls"] = List(<<Word(url)>>)])
<1>1. \/ Migrated(json, table, retired) = json
      \/ \E url : Migrated(json, table, retired) = moved(url)
  BY DEF Migrated
<1>2. ASSUME NEW url
      PROVE  Parsed(moved(url)) /\ moved(url).is = "object"
  <2> DEFINE in == moved(url).value
             word == Word(url)
  <2>1. /\ moved(url).is = "object"
        /\ in = [json.value EXCEPT !["executionApiUrls"] = List(<<word>>)]
    BY DEF Object
  <2> HIDE DEF in, word
  <2>2. DOMAIN in = DOMAIN json.value
    BY <2>1
  <2>3. ASSUME NEW key \in Backends \cap DOMAIN in, in[key].is \in {"text", "list"}
        PROVE  in[key].value \in Seq(Range(in[key].value))
    <3>1. CASE key = "executionApiUrls"
      <4>1. in[key] = List(<<word>>)
        BY <2>1, <2>2, <3>1
      <4>2. in[key].value = <<word>>
        BY <4>1 DEF List
      <4>3. word \in Range(<<word>>)
        <5>1. 1 \in DOMAIN <<word>> /\ <<word>>[1] = word
          OBVIOUS
        <5> QED
          BY <5>1 DEF Range
      <4> QED
        BY <4>2, <4>3
    <3>2. CASE key # "executionApiUrls"
      <4>1. in[key] = json.value[key]
        BY <2>1, <2>2, <3>2
      <4> QED
        BY <2>2, <2>3, <4>1 DEF Parsed
    <3> QED
      BY <3>1, <3>2
  <2> QED
    BY <2>1, <2>3 DEF Parsed, in
<1> HIDE DEF moved
<1> QED
  BY <1>1, <1>2

LEMMA ModuleUrlsAreUrls ==
  ASSUME NEW i \in DOMAIN Answers
  PROVE  ModuleUrls(Answers[i]) \in UrlLists
<1> DEFINE given == Answers[i].providers
           enabled == Picked(given, {n \in DOMAIN given : given[n].enabled})
           urls == [n \in DOMAIN enabled |-> enabled[n].endpoint]
<1>1. IsList(given)
  BY VerifiedProxyAssumption DEF IsList
<1> HIDE DEF given
<1>2. Len(enabled) \in Nat /\ DOMAIN enabled = 1..Len(enabled)
  BY <1>1, PickedIsList, ListIsFunction
<1> HIDE DEF enabled
<1>3. IsList(urls)
  BY <1>2, FunctionIsList
<1> HIDE DEF urls
<1>4. IsList(<<>>) /\ ValidUrls(<<>>)
  BY EmptySeq DEF IsList, ValidUrls
<1>5. \/ ModuleUrls(Answers[i]) = <<>>
      \/ ValidUrls(urls) /\ ModuleUrls(Answers[i]) = urls
  BY DEF ModuleUrls, urls, enabled, given
<1> QED
  BY <1>3, <1>4, <1>5, UrlListsAreLists

\* What is accepted of a written configuration names a network of the table.
LEMMA AcceptedNetwork ==
  ASSUME NEW c, NEW table, Accepts(Raw(c), table)
  PROVE  c.network \in DOMAIN table
<1>1. ASSUME NEW in, in = Raw(c).value
      PROVE  in["network"].value = <<c.network>> /\ in["network"].is = "text"
             /\ "network" \in DOMAIN in
  <2>1. in["network"] = Word(c.network) /\ "network" \in DOMAIN in
    BY <1>1, RawFields, AllKeys
  <2> QED
    BY ONLY <2>1 DEF Word, Text
<1>2. NetworkFits(Raw(c).value, table)
  BY DEF Accepts
<1>3. \A x, y : <<x>> = <<y>> <=> x = y
  OBVIOUS
<1>4. <<c.network>> \in {<<v>> : v \in DOMAIN table}
  BY <1>1, <1>2 DEF NetworkFits, EnumFits, Given
<1> QED
  BY <1>3, <1>4

\* What the library is given, and makes of it, are the URLs as configured.
LEMMA LibraryReadsUrls ==
  ASSUME NEW c, WellMade(c)
  PROVE  /\ Upstream(c).eth2Network = c.network /\ Upstream(c).logLevel = c.logLevel
         /\ \A key \in Backends :
              /\ Len(Upstream(c)[key]) = Len(c[key])
              /\ Range(Upstream(c)[key]) \subseteq Schemed
              /\ c[key] # <<>> => Upstream(c)[key] # <<>>
<1> DEFINE f == [key \in Backends |-> FlattenSeq(c[key])]
           g == [eth2Network |-> c.network, trustedBlockRoot |-> c.trustedBlockRoot,
                 logLevel |-> c.logLevel, logFormat |-> c.logFormat,
                 syncHeaderStore |-> c.syncHeaderStore]
           h == [key \in DOMAIN TuningInts |-> c[key]]
           fg == f ++ g
<1>1. Upstream(c) = fg ++ h
  BY DEF Upstream
<1>2. /\ DOMAIN f = Backends /\ \A key \in Backends : f[key] = FlattenSeq(c[key])
      /\ "eth2Network" \in DOMAIN g /\ "logLevel" \in DOMAIN g
      /\ g.eth2Network = c.network /\ g.logLevel = c.logLevel
      /\ "eth2Network" \notin Backends /\ "logLevel" \notin Backends
  BY DEF Backends
<1> HIDE DEF f, g, h
<1>3. /\ DOMAIN fg = DOMAIN f \cup DOMAIN g
      /\ \A x \in DOMAIN f : fg[x] = f[x]
      /\ \A x \in DOMAIN g \ DOMAIN f : fg[x] = g[x]
  BY Merged
<1> HIDE DEF fg
<1>4. \A x \in DOMAIN fg : (fg ++ h)[x] = fg[x]
  BY Merged
<1>5. ASSUME NEW key \in Backends
      PROVE  /\ Len(FlattenSeq(c[key])) = Len(c[key])
             /\ Range(FlattenSeq(c[key])) \subseteq Schemed
             /\ c[key] # <<>> => FlattenSeq(c[key]) # <<>>
  <2> DEFINE urls == c[key]
             flat == FlattenSeq(urls)
  <2>1. urls \in Seq({<<u>> : u \in Schemed})
    BY DEF WellMade, UrlLists
  <2>2. IsList(urls) /\ ValidUrls(urls)
    BY <2>1, UrlListsAreLists DEF UrlLists
  <2> HIDE DEF urls
  <2>3. flat = [i \in 1..Len(urls) |-> urls[i][1]]
    BY <2>1, Flat
  <2>4. Len(urls) \in Nat /\ DOMAIN urls = 1..Len(urls)
    BY <2>2, ListIsFunction
  <2>5. \A i \in 1..Len(urls) : urls[i][1] \in Schemed
    BY <2>2, <2>4 DEF ValidUrls
  <2> HIDE DEF flat
  <2>6. IsList(flat) /\ Len(flat) = Len(urls)
    BY <2>3, <2>4, FunctionIsList
  <2>7. Range(flat) \subseteq Schemed
    BY <2>3, <2>5 DEF Range
  <2>8. urls # <<>> => flat # <<>>
    <3>1. Len(urls) = 0 => urls = <<>>
      BY <2>1, EmptySeq
    <3>2. Len(<<>>) = 0
      OBVIOUS
    <3> QED
      BY <2>6, <3>1, <3>2
  <2> QED
    BY <2>6, <2>7, <2>8 DEF urls, flat
<1> QED
  BY <1>1, <1>2, <1>3, <1>4, <1>5

-----------------------------------------------------------------------------
(* Where the operation, the runtime and the endpoint are *)

Pcs == {"loading", "reading", "opening file", "writing file", "free", "start",
        "start waits", "opening http", "stop", "stop waits"}


Saving   == pc \in {"opening file", "writing file"}
Loading  == pc \in {"loading", "reading"} \/ (Saving /\ task # "user")
Starting == pc \in {"start waits", "opening http"}
Stopping == pc \in {"stop", "stop waits"}

Asked(c) == c.httpEnabled

LEMMA AfterTaskGoesOn ==
  /\ task = "env" => AfterTask = "reading"
  /\ task # "env" => AfterTask \in {"start", "free"}
  /\ task \notin {"env", "file"} => AfterTask = "free"
<1>1. task = "env" => AfterTask = "reading"
  BY DEF AfterTask
<1>2. task # "env" => AfterTask = IF task = "file" /\ cfg.autoStart THEN "start" ELSE "free"
  BY DEF AfterTask
<1> DEFINE on == task = "file" /\ cfg.autoStart
<1>3. on => task = "file"
  OBVIOUS
<1> HIDE DEF on
<1> QED
  BY <1>1, <1>2, <1>3 DEF on

\* What is configured was accepted by the release that is installed, and so was
\* what a run was started with.
ConfigInv ==
  /\ env \in Envs /\ release \in DOMAIN Tables
  /\ Parsed(file)
  /\ cfg # NoConfig => WellMade(cfg) /\ cfg.network \in DOMAIN Table
  /\ Saving \/ Starting \/ pc = "start" => cfg # NoConfig
  /\ run # "none" => /\ WellMade(runCfg) /\ runCfg.network \in DOMAIN Table
                     /\ runCfg.beaconApiUrls # <<>>

LEMMA ConfigInit == Init => ConfigInv
<1> SUFFICES ASSUME Init PROVE ConfigInv
  OBVIOUS
<1>1. env \in Envs /\ release \in DOMAIN Tables
  BY VerifiedProxyAssumption DEF Init
<1>2. Parsed(file)
  <2>1. CASE file = Missing
    <3>1. Missing.is # "object"
      BY DEF Missing
    <3> QED
      BY <2>1, <3>1 DEF Parsed
  <2>2. CASE file \in {Files[i] : i \in DOMAIN Files}
    BY <2>2, VerifiedProxyAssumption
  <2> QED
    BY <2>1, <2>2 DEF Init
<1>3. cfg = NoConfig /\ run = "none" /\ pc = "loading"
  BY DEF Init
<1> QED
  BY <1>1, <1>2, <1>3 DEF ConfigInv, Saving, Starting

\* What a run is started with is what is configured, but for the beacon URLs.
LEMMA RunIsAsked ==
  ASSUME WellMade(cfg), NEW c \in RunConfigs,
         cfg.beaconSource = "module" => c.beaconApiUrls # <<>>
  PROVE  /\ WellMade(c) /\ c.network = cfg.network /\ c.beaconApiUrls # <<>>
         /\ Asked(c) <=> Asked(cfg)
<1>1. CASE cfg.beaconSource = "module"
  <2>1. PICK i \in DOMAIN Answers : c = [cfg EXCEPT !.beaconApiUrls = ModuleUrls(Answers[i])]
    BY <1>1 DEF RunConfigs
  <2> DEFINE urls == ModuleUrls(Answers[i])
  <2>2. urls \in UrlLists
    BY ModuleUrlsAreUrls
  <2> HIDE DEF urls
  <2> DEFINE d == [cfg EXCEPT !["beaconApiUrls"] = urls]
  <2>3. c = d
    BY <2>1 DEF urls
  <2>4. d.beaconApiUrls = urls
    <3>1. Complete(cfg) /\ "beaconApiUrls" \in Settings
      BY AllKeys DEF WellMade
    <3> QED
      BY <3>1, OneSettingChanges
  <2>5. urls # <<>>
    <3> HIDE DEF d
    <3> QED
      BY <1>1, <2>3, <2>4
  <2>6. /\ WellMade(d)
        /\ \A other \in Settings \ {"beaconApiUrls"} : d[other] = cfg[other]
    BY <2>2, <2>5, OtherUrls
  <2> HIDE DEF d
  <2>7. {"network", "httpEnabled"} \subseteq Settings \ {"beaconApiUrls"}
    BY DEF Settings, Backends, Enums, TuningInts, Knobs
  <2>8. c.network = cfg.network /\ c.httpEnabled = cfg.httpEnabled
    BY <2>3, <2>6, <2>7
  <2>9. Asked(c) <=> Asked(cfg)
    BY <2>8, Zenon DEF Asked
  <2> QED
    BY <2>3, <2>4, <2>5, <2>6, <2>8, <2>9
<1>2. CASE cfg.beaconSource # "module"
  <2>1. c = cfg
    BY <1>2 DEF RunConfigs
  <2>2. cfg.beaconSource = "urls"
    BY <1>2 DEF WellMade, Sources
  <2> QED
    BY <2>1, <2>2 DEF WellMade
<1> QED
  BY <1>1, <1>2

LEMMA ConfigStep == ConfigInv /\ [Next]_vars => ConfigInv'
<1> SUFFICES ASSUME ConfigInv, [Next]_vars
             PROVE  ConfigInv'
  OBVIOUS
<1> USE DEF Saving, Starting, Stopping, Onto
<1>1. "mainnet" \in DOMAIN Table
  BY VerifiedProxyAssumption DEF ConfigInv, Table
<1>2. ASSUME NEW json, NEW who, Configure(json, who), Parsed(json)
      PROVE  ConfigInv'
  <2>1. /\ Accepts(json, Table) /\ cfg' = Resolved(json.value, Table) /\ pc' = "opening file"
        /\ UNCHANGED <<env, release, file, run, runCfg>>
    BY <1>2 DEF Configure, Applies, hostVars, runtimeVars
  <2>2. WellMade(cfg') /\ cfg'.network \in DOMAIN Table
    BY <1>1, <1>2, <2>1, AcceptedIsWellMade
  <2> QED
    BY <2>1, <2>2, WellMadeIsThere DEF ConfigInv, Table
<1>3. ASSUME NEW network \in DOMAIN Table, NEW root \in Roots
      PROVE  Parsed(DefaultConfig(network, root))
  <2> DEFINE seed == [network |-> Word(network), trustedBlockRoot |-> Text(root)]
             json == Object(seed)
  <2>1. json.is = "object" /\ json.value = seed
    BY DEF Object
  <2>2. DOMAIN seed = {"network", "trustedBlockRoot"}
    OBVIOUS
  <2> HIDE DEF seed, json
  <2>3. \A key \in Backends : key \notin DOMAIN seed
    BY <2>2 DEF Backends
  <2>4. Parsed(json) /\ \A key \in Backends : StringListFits(json.value, key)
    BY <2>1, <2>3 DEF Parsed, StringListFits, Given
  <2>5. \A key \in Backends : IsList(Resolved(seed, Table)[key])
    BY <2>1, <2>4, ResolvedLists
  <2> QED
    BY <2>5, RawIsParsed DEF DefaultConfig, seed
<1>4. CASE UserConfigures
  BY <1>2, <1>3, <1>4, VerifiedProxyAssumption DEF UserConfigures
<1>5. CASE LoadsEnvironment
  <2>1. env # "none" /\ Applies(Inputs[env]) => env \in DOMAIN Inputs
    BY VerifiedProxyAssumption DEF ConfigInv
  <2> QED
    BY <1>2, <1>5, <2>1, VerifiedProxyAssumption
    DEF LoadsEnvironment, ConfigInv, hostVars, moduleVars, runtimeVars, Table
<1>6. CASE LoadsFile
  BY <1>2, <1>6, MigratedIsParsed
  DEF LoadsFile, Readable, ConfigInv, hostVars, moduleVars, runtimeVars, Table
<1>7. CASE SaveRefused
  BY <1>7, AfterTaskGoesOn DEF SaveRefused, ConfigInv, hostVars, moduleVars, runtimeVars, Table
<1>8. CASE SaveTruncates
  BY <1>8 DEF SaveTruncates, ConfigInv, hostVars, moduleVars, runtimeVars, Table, Torn, Parsed
<1>9. CASE SaveWrites
  <2>1. /\ pc = "writing file" /\ pc' = AfterTask
        /\ UNCHANGED <<env, release, cfg, run, runCfg>>
        /\ file' = file \/ file' = Raw(cfg)
    BY <1>9 DEF SaveWrites, Saved, hostVars, moduleVars, runtimeVars
  <2>2. cfg # NoConfig /\ WellMade(cfg)
    BY <2>1 DEF ConfigInv
  <2>3. Parsed(Raw(cfg))
    BY <2>2, RawIsParsed, UrlListsAreLists DEF WellMade
  <2> QED
    BY <2>1, <2>2, <2>3, AfterTaskGoesOn DEF ConfigInv, Table
<1>10. CASE Reload
  <2>1. release' \in DOMAIN Tables
    <3>1. release \in 1..Len(Tables) /\ release' \in release..Len(Tables)
      BY <1>10, VerifiedProxyAssumption DEF Reload, ConfigInv
    <3>2. release' \in 1..Len(Tables)
      BY <3>1
    <3> QED
      BY <3>2, VerifiedProxyAssumption
  <2> QED
    BY <1>10, <2>1 DEF Reload, ConfigInv
<1>11. CASE StartPosts
  <2>1. /\ pc = "start" /\ pc' \in {"start waits", "free"}
        /\ UNCHANGED <<env, release, file, cfg>>
        /\ runCfg' \in RunConfigs
        /\ cfg.beaconSource = "module" => runCfg'.beaconApiUrls # <<>>
    BY <1>11 DEF StartPosts, Life!Posted, hostVars, moduleVars
  <2>2. cfg # NoConfig /\ WellMade(cfg) /\ cfg.network \in DOMAIN Table
    BY <2>1 DEF ConfigInv
  <2>3. WellMade(runCfg') /\ runCfg'.network \in DOMAIN Table /\ runCfg'.beaconApiUrls # <<>>
    BY <2>1, <2>2, RunIsAsked
  <2> QED
    BY <2>1, <2>2, <2>3 DEF ConfigInv, Table
<1>12. ASSUME UNCHANGED <<env, release, file, cfg, run, runCfg>>,
              pc' \in {"start", "start waits", "opening http"} => cfg # NoConfig,
              pc' \notin {"opening file", "writing file"}
       PROVE  ConfigInv'
  BY <1>12 DEF ConfigInv, Table
<1>13. CASE UserStarts
  BY <1>12, <1>13 DEF UserStarts, hostVars, moduleVars, runtimeVars
<1>14. CASE StartFails
  BY <1>12, <1>14 DEF StartFails, hostVars, moduleVars, runtimeVars
<1>15. CASE StartSucceeds
  <2>1. pc = "start waits" /\ UNCHANGED <<env, release, file, cfg, run, runCfg>>
    BY <1>15 DEF StartSucceeds, hostVars, moduleVars, runtimeVars
  <2>2. pc' = IF Asked(cfg) THEN "opening http" ELSE "free"
    BY <1>15, Zenon DEF StartSucceeds, Asked
  <2>3. pc' \in {"opening http", "free"}
    BY <2>2
  <2> QED
    BY <1>12, <2>1, <2>3 DEF ConfigInv
<1>16. CASE StartGivesUp
  BY <1>12, <1>16 DEF StartGivesUp, hostVars, moduleVars, runtimeVars
<1>17. CASE HttpOpens
  BY <1>12, <1>17 DEF HttpOpens, hostVars, runtimeVars
<1>18. CASE HttpFails
  BY <1>12, <1>18 DEF HttpFails, hostVars, runtimeVars
<1>19. CASE Stops
  BY <1>12, <1>19
  DEF Stops, UserStops, StopRequests, Life!Told, StopReturns, hostVars, moduleVars, runtimeVars
<1>20. CASE RunProceeds
  <2>1. UNCHANGED <<env, release, file, cfg, pc, task, runCfg>> /\ run # "none"
    BY <1>20 DEF RunProceeds, Life!Proceeds, Life!Goes, hostVars, moduleVars, opVars
  <2> QED
    BY <2>1 DEF ConfigInv, Table
<1>21. CASE UNCHANGED vars
  BY <1>21 DEF vars, ConfigInv, hostVars, moduleVars, opVars, runtimeVars, Table
<1> QED
  BY <1>4, <1>5, <1>6, <1>7, <1>8, <1>9, <1>10, <1>11, <1>13, <1>14, <1>15, <1>16, <1>17,
     <1>18, <1>19, <1>20, <1>21
  DEF Next, Saves, Load, Starts

\* Before stop() asks the runtime, the endpoint is closed; from there on, and
\* until start() has seen a run that serves, it stays closed.
LifeInv ==
  /\ pc \in Pcs /\ run \in Life!Places /\ http \in {"none", "open"}
  /\ Loading => run = "none" /\ http = "none"
  /\ pc = "start" => http = "none" /\ run # "prologue"
  /\ Stopping => http = "none"
  /\ run = "none" => ~stopping
  /\ pc = "stop waits" => stopping \/ run = "none"
  /\ http = "open" => Live /\ ~stopping
  /\ Starting => http = "none" /\ ~stopping /\ (Asked(runCfg) <=> Asked(cfg))
  /\ pc = "opening http" => Live /\ Asked(cfg)
  /\ run \notin {"none", "draining", "ending"} /\ ~Starting /\ pc # "stop" /\ ~stopping /\ ~gaveUp
       => Live /\ (http = "open" <=> Asked(runCfg))

LEMMA LifeInit == Init => LifeInv
  BY DEF Init, LifeInv, Pcs, Life!Places, Loading, Saving, Starting, Stopping, Live, Life!Live

LEMMA LifeStep == ConfigInv /\ LifeInv /\ [Next]_vars => LifeInv'
<1> SUFFICES ASSUME ConfigInv, LifeInv, [Next]_vars
             PROVE  LifeInv'
  OBVIOUS
<1> USE DEF LifeInv, Pcs, Life!Places, Loading, Saving, Starting, Stopping, Live, Life!Live, Onto
<1> USE DEF hostVars, moduleVars, opVars, runtimeVars, historyVars
<1>1. ASSUME NEW json, NEW who, Configure(json, who),
             IF who = "user" THEN pc = "free" ELSE Loading
      PROVE  LifeInv'
  BY <1>1 DEF Configure
<1>2. CASE UserConfigures
  BY <1>1, <1>2 DEF UserConfigures
<1>3. CASE SaveRefused
  BY <1>3, AfterTaskGoesOn DEF SaveRefused
<1>4. CASE SaveTruncates
  BY <1>4 DEF SaveTruncates
<1>5. CASE SaveWrites
  BY <1>5, AfterTaskGoesOn DEF SaveWrites
<1>6. CASE LoadsEnvironment
  BY <1>1, <1>6 DEF LoadsEnvironment
<1>7. CASE LoadsFile
  BY <1>1, <1>7 DEF LoadsFile
<1>8. CASE Reload
  BY <1>8 DEF Reload
<1>9. CASE UserStarts
  BY <1>9 DEF UserStarts, Active, Life!Active
<1>10. CASE StartFails
  BY <1>10 DEF StartFails
<1>11. CASE StartPosts
  <2>1. pc = "start" /\ run = "none" /\ http = "none"
    BY <1>11 DEF StartPosts, Life!Posted
  <2>2. /\ \/ run' = "prologue" /\ pc' = "start waits"
           \/ run' = run /\ pc' = "free"
        /\ ~stopping' /\ UNCHANGED <<cfg, http, task>>
    <3>1. \/ run' = "prologue" /\ pc' = "start waits"
          \/ run' = run /\ pc' = "free"
      BY <1>11 DEF StartPosts, Life!Posted
    <3>2. UNCHANGED <<cfg, http, task>>
      BY <1>11 DEF StartPosts, Life!Posted
    <3>3. ~stopping'
      BY <1>11, <2>1 DEF StartPosts, Life!Posted
    <3> QED
      BY <3>1, <3>2, <3>3
  <2>3. /\ runCfg' \in RunConfigs
        /\ cfg.beaconSource = "module" => runCfg'.beaconApiUrls # <<>>
    BY <1>11 DEF StartPosts, Life!Posted
  <2>4. WellMade(cfg)
    BY <2>1 DEF ConfigInv
  <2>5. Asked(runCfg') <=> Asked(cfg)
    BY <2>3, <2>4, RunIsAsked
  <2>6. Asked(cfg)' <=> Asked(cfg)
    BY <2>2, Zenon DEF Asked
  <2>7. Asked(runCfg)' <=> Asked(runCfg')
    BY Zenon DEF Asked
  <2> QED
    BY <2>1, <2>2, <2>5, <2>6, <2>7
<1>12. CASE StartSucceeds
  <2>1. /\ pc = "start waits" /\ UNCHANGED <<cfg, http, task, run, runCfg, stopping, gaveUp>>
        /\ run \in {"running", "degraded"}
    BY <1>12 DEF StartSucceeds
  <2>2. pc' = IF Asked(cfg) THEN "opening http" ELSE "free"
    BY <1>12, Zenon DEF StartSucceeds, Asked
  <2> QED
    BY <2>1, <2>2
<1>13. CASE StartGivesUp
  BY <1>13 DEF StartGivesUp
<1>14. CASE HttpOpens
  BY <1>14 DEF HttpOpens
<1>15. CASE HttpFails
  BY <1>15 DEF HttpFails
<1>16. CASE UserStops
  BY <1>16 DEF UserStops
<1>17. CASE StopRequests
  <2>1. /\ pc = "stop" /\ http = "none" /\ UNCHANGED <<cfg, http, task, run, runCfg, gaveUp>>
        /\ \/ run \in {"none", "ending"} /\ pc' = "free" /\ UNCHANGED stopping
           \/ run # "none" /\ pc' = "stop waits" /\ stopping'
    BY <1>17 DEF StopRequests, Life!Told
  <2>2. CASE run = "none"
    BY <2>1, <2>2
  <2>3. CASE run # "none"
    BY <2>1, <2>3
  <2> QED
    BY <2>2, <2>3
<1>18. CASE StopReturns
  BY <1>18 DEF StopReturns
<1>19. CASE RunProceeds
  <2>1. /\ UNCHANGED <<cfg, http, pc, task, runCfg, gaveUp>>
        /\ run # "none" /\ stopping' = (stopping /\ run' # "none")
    BY <1>19 DEF RunProceeds, Life!Proceeds, Life!Goes
  <2>2. \/ run = "prologue" /\ run' \in {"syncing", "ending"}
        \/ run = "syncing" /\ run' = "running"
        \/ {run, run'} = {"running", "degraded"}
        \/ stopping /\ run \in {"syncing", "running", "degraded"} /\ run' = "draining"
        \/ run = "draining" /\ run' = "ending"
        \/ run = "ending" /\ run' = "none"
    BY <1>19 DEF RunProceeds, Life!Proceeds, Life!Goes
  <2>3. Asked(cfg)' <=> Asked(cfg)
    BY <2>1, Zenon DEF Asked
  <2>4. Asked(runCfg)' <=> Asked(runCfg)
    BY <2>1, Zenon DEF Asked
  <2> QED
    BY <2>1, <2>2, <2>3, <2>4
<1>20. CASE UNCHANGED vars
  BY <1>20 DEF vars
<1> QED
  BY <1>2, <1>3, <1>4, <1>5, <1>6, <1>7, <1>8, <1>9, <1>10, <1>11, <1>12, <1>13, <1>14,
     <1>15, <1>16, <1>17, <1>18, <1>19, <1>20
  DEF Next, Saves, Load, Starts, Stops

-----------------------------------------------------------------------------
(* What is kept of the user's configuration *)

\* The file holds it, but while it is written; once it is loaded again it is in
\* use, and so it is while a load saves what it made of it.
KeptInv ==
  env = "none" =>
    /\ pc \in {"loading", "reading"} => cfg = NoConfig
    /\ Saving => task \in {"file", "user"}
    /\ chosen # NoConfig =>
         /\ WellMade(chosen)
         /\ pc # "writing file" => file = Raw(chosen)
         /\ /\ pc \notin {"loading", "reading"}
            /\ ~(Saving /\ task = "user")
            /\ Saving \/ chosen.network \in DOMAIN Table
            => cfg = Remembered

LEMMA KeptInit == Init => KeptInv
  BY DEF Init, KeptInv, Saving

LEMMA EnvironmentStays == [Next]_vars => env' = env
<1> SUFFICES ASSUME [Next]_vars PROVE env' = env
  OBVIOUS
<1> USE DEF hostVars
<1>1. CASE UserConfigures
  BY <1>1 DEF UserConfigures, Configure
<1>2. CASE Saves
  BY <1>2 DEF Saves, SaveRefused, SaveTruncates, SaveWrites
<1>3. CASE Load
  <2>1. CASE LoadsEnvironment
    BY <2>1 DEF LoadsEnvironment, Configure
  <2>2. CASE LoadsFile
    BY <2>2 DEF LoadsFile, Configure
  <2>3. CASE Reload
    BY <2>3 DEF Reload
  <2> QED
    BY <1>3, <2>1, <2>2, <2>3 DEF Load
<1>4. CASE Starts
  BY <1>4
  DEF Starts, UserStarts, StartFails, StartPosts, StartSucceeds, StartGivesUp, HttpOpens,
      HttpFails
<1>5. CASE Stops
  BY <1>5 DEF Stops, UserStops, StopRequests, StopReturns
<1>6. CASE RunProceeds
  BY <1>6 DEF RunProceeds
<1>7. CASE UNCHANGED vars
  BY <1>7 DEF vars
<1> QED
  BY <1>1, <1>2, <1>3, <1>4, <1>5, <1>6, <1>7 DEF Next

LEMMA KeptStep == ConfigInv /\ LifeInv /\ KeptInv /\ [Next]_vars => KeptInv'
<1> SUFFICES ASSUME ConfigInv, LifeInv, KeptInv, [Next]_vars, env = "none"
             PROVE  KeptInv'
  BY EnvironmentStays DEF KeptInv
<1> DEFINE Kept == chosen # NoConfig
<1>1. /\ pc \in {"loading", "reading"} => cfg = NoConfig
      /\ Saving => task \in {"file", "user"}
      /\ Kept => WellMade(chosen) /\ (pc # "writing file" => file = Raw(chosen))
      /\ Kept /\ Saving /\ task # "user" => cfg = Remembered
      /\ /\ Kept /\ pc \notin {"loading", "reading"} /\ ~Saving
         /\ chosen.network \in DOMAIN Table
         => cfg = Remembered
  BY DEF KeptInv, Saving
<1>2. ASSUME UNCHANGED <<release, file, cfg, task, chosen>>,
             \/ pc' = pc
             \/ {pc, pc'} \cap {"loading", "reading", "opening file", "writing file"} = {}
      PROVE  KeptInv'
  BY <1>2 DEF KeptInv, Saving, Remembered, Table
<1>3. CASE UserConfigures
  <2>1. /\ pc = "free" /\ pc' = "opening file" /\ task' = "user"
        /\ UNCHANGED <<release, file, chosen>>
    BY <1>3 DEF UserConfigures, Configure, Onto, hostVars, historyVars
  <2> QED
    BY <1>1, <2>1 DEF KeptInv, Saving
<1>4. CASE SaveRefused
  <2>1. /\ pc = "opening file" /\ pc' = AfterTask
        /\ UNCHANGED <<release, file, cfg, task>>
        /\ task # "user" => chosen' = chosen
    BY <1>4 DEF SaveRefused, Onto, hostVars, moduleVars
  <2>2. chosen' # NoConfig => task # "user"
    BY <1>4 DEF SaveRefused
  <2>3. pc' \in {"start", "free"}
    BY <1>1, <2>1, AfterTaskGoesOn DEF Saving
  <2> QED
    BY <1>1, <2>1, <2>2, <2>3 DEF KeptInv, Saving, Remembered
<1>5. CASE SaveTruncates
  <2>1. /\ pc = "opening file" /\ pc' = "writing file"
        /\ UNCHANGED <<release, cfg, task, chosen>>
    BY <1>5 DEF SaveTruncates, Onto, hostVars, moduleVars, historyVars
  <2> QED
    BY <1>1, <2>1 DEF KeptInv, Saving, Remembered
<1>6. CASE SaveWrites
  <2>1. /\ pc = "writing file" /\ pc' = AfterTask
        /\ UNCHANGED <<release, cfg, task>>
    BY <1>6 DEF SaveWrites, Onto, hostVars, moduleVars
  <2>2. chosen' # NoConfig =>
          /\ file' = Raw(cfg)
          /\ task = "user" => chosen' = cfg
          /\ task = "file" => chosen' = MovedOn(chosen, release)
    BY <1>6 DEF SaveWrites, Saved
  <2>3. pc' \in {"start", "free"}
    BY <1>1, <2>1, AfterTaskGoesOn DEF Saving
  <2>4. WellMade(cfg) /\ release \in DOMAIN Tables
    BY <2>1 DEF ConfigInv, Saving
  <2>5. CASE task = "user"
    BY <2>1, <2>2, <2>3, <2>4, <2>5 DEF KeptInv, Saving, Remembered
  <2>6. CASE task = "file"
    <3>1. chosen' # NoConfig => chosen # NoConfig
      BY <2>2, <2>6 DEF MovedOn
    <3>2. ASSUME chosen' # NoConfig
          PROVE  /\ WellMade(chosen') /\ file' = Raw(chosen') /\ cfg = chosen'
                 /\ MovedOn(chosen', release) = chosen'
      <4>1. WellMade(chosen) /\ cfg = MovedOn(chosen, release)
        BY <1>1, <2>1, <2>2, <2>6, <3>1, <3>2 DEF Saving, Remembered
      <4> QED
        BY <2>1, <2>2, <2>4, <2>6, <3>2, <4>1, MovedOnStays
    <3> QED
      BY <2>1, <2>3, <2>6, <3>2 DEF KeptInv, Saving, Remembered
  <2> QED
    BY <1>1, <2>1, <2>5, <2>6 DEF Saving
<1>7. CASE LoadsEnvironment
  <2>1. pc = "loading" /\ pc' = "reading" /\ UNCHANGED <<release, file, cfg, chosen>>
    BY <1>7 DEF LoadsEnvironment, Onto, hostVars, moduleVars, historyVars
  <2> QED
    BY <1>1, <2>1 DEF KeptInv, Saving
<1>8. CASE LoadsFile
  <2> DEFINE json == Migrated(file, Table, Retired[release])
             moved == MovedOn(chosen, release)
  <2>1. pc = "reading" /\ UNCHANGED <<release, file, chosen>>
    BY <1>8 DEF LoadsFile, Configure, hostVars, historyVars
  <2>2. run = "none" /\ release \in DOMAIN Tables
    BY <2>1 DEF LifeInv, Loading, ConfigInv
  <2>3. Kept => WellMade(chosen) /\ file = Raw(chosen)
    BY <1>1, <2>1
  <2>4. Kept => /\ json = Raw(moved) /\ WellMade(moved) /\ moved.network = chosen.network
                /\ Readable /\ Migratable(file)
    <3>1. Readable <=> file.is = "object"
      BY DEF Readable
    <3> HIDE DEF json
    <3>2. ASSUME Kept
          PROVE  /\ json = Raw(moved) /\ Migratable(file)
                 /\ WellMade(moved) /\ moved.network = chosen.network
      <4>1. json = Raw(moved)
        BY <2>2, <2>3, <3>2, MigratedRaw DEF json, Table
      <4>2. Migratable(file)
        BY <2>2, <2>3, <3>2, RetiredIsSeen, VerifiedProxyAssumption
      <4>3. WellMade(moved) /\ moved.network = chosen.network
        BY <2>2, <2>3, <3>2, MovedOnStays
      <4> QED
        BY <4>1, <4>2, <4>3
    <3> QED
      BY <2>3, <3>1, <3>2, RawFields
  <2>5. CASE Configure(json, "file")
    <3>1. /\ Accepts(json, Table) /\ cfg' = Resolved(json.value, Table)
          /\ pc' = "opening file" /\ task' = "file"
      BY <2>5 DEF Configure, Applies, Onto
    <3>2. Kept => cfg' = moved
      BY <2>4, <3>1, RoundTrip, AcceptedNetwork
    <3> QED
      BY <2>1, <2>3, <3>1, <3>2 DEF KeptInv, Saving, Remembered
  <2>6. CASE ~(Readable /\ Migratable(file) /\ Applies(json))
    <3>1. pc' = "free"
      BY <1>8, <2>6 DEF LoadsFile, Onto
    <3>2. Kept => chosen.network \notin DOMAIN Table
      <4>1. Kept => ~Accepts(Raw(moved), Table)
        BY <2>2, <2>4, <2>6 DEF Applies
      <4> QED
        BY <2>4, <4>1, RoundTrip
    <3> QED
      BY <2>1, <2>3, <3>1, <3>2 DEF KeptInv, Saving, Table
  <2> QED
    BY <1>8, <2>5, <2>6 DEF LoadsFile
<1>9. CASE Reload
  <2>1. pc' = "loading" /\ cfg' = NoConfig /\ file' = file
    BY <1>9 DEF Reload, Onto
  <2>2. chosen' # NoConfig => chosen' = chosen /\ pc # "writing file"
    BY <1>9 DEF Reload
  <2> QED
    BY <1>1, <2>1, <2>2 DEF KeptInv, Saving
<1>10. CASE Starts
  <2>1. UNCHANGED <<release, file, cfg, task, chosen>>
    BY <1>10
    DEF Starts, UserStarts, StartFails, StartPosts, StartSucceeds, StartGivesUp, HttpOpens,
        HttpFails, hostVars, moduleVars, historyVars
  <2>2. pc \in {"free", "start", "start waits", "opening http"}
    BY <1>10
    DEF Starts, UserStarts, StartFails, StartPosts, StartSucceeds, StartGivesUp, HttpOpens,
        HttpFails
  <2>3. pc' \in {"free", "start", "start waits", "opening http", "stop"}
    <3>1. CASE StartSucceeds
      <4>1. pc' = IF Asked(cfg) THEN "opening http" ELSE "free"
        BY <3>1, Zenon DEF StartSucceeds, Onto, Asked
      <4> QED
        BY <4>1
    <3>2. CASE ~StartSucceeds
      BY <1>10, <3>2
      DEF Starts, UserStarts, StartFails, StartPosts, StartGivesUp, HttpOpens, HttpFails, Onto
    <3> QED
      BY <3>1, <3>2
  <2> QED
    BY <1>2, <2>1, <2>2, <2>3
<1>11. CASE Stops
  <2>1. UNCHANGED <<release, file, cfg, task, chosen>>
    BY <1>11
    DEF Stops, UserStops, StopRequests, StopReturns, hostVars, moduleVars, historyVars
  <2>2. pc \in {"free", "stop", "stop waits"} /\ pc' \in {"free", "stop", "stop waits"}
    BY <1>11 DEF Stops, UserStops, StopRequests, StopReturns, Onto
  <2> QED
    BY <1>2, <2>1, <2>2
<1>12. CASE RunProceeds
  BY <1>2, <1>12 DEF RunProceeds, hostVars, moduleVars, opVars, historyVars
<1>13. CASE UNCHANGED vars
  BY <1>2, <1>13 DEF vars, hostVars, moduleVars, opVars, historyVars
<1> QED
  BY <1>3, <1>4, <1>5, <1>6, <1>7, <1>8, <1>9, <1>10, <1>11, <1>12, <1>13
  DEF Next, Saves, Load

LEMMA ModuleInvariants == Spec => [](ConfigInv /\ LifeInv /\ KeptInv)
<1>1. Init => ConfigInv /\ LifeInv /\ KeptInv
  BY ConfigInit, LifeInit, KeptInit
<1>2. ConfigInv /\ LifeInv /\ KeptInv /\ [Next]_vars => (ConfigInv /\ LifeInv /\ KeptInv)'
  BY ConfigStep, LifeStep, KeptStep
<1> QED
  BY <1>1, <1>2, PTL DEF Spec

\* RpcHttpServer::stop() has come back before ProxyRuntime::stop() is called,
\* and start() opens the endpoint only over a run it saw serving: while the
\* endpoint is open there is a run that serves, and that nobody told to stop.
THEOREM EndpointNeverOutlivesRun == Spec => []EndpointHasRun
<1>1. LifeInv => EndpointHasRun
  BY DEF LifeInv, EndpointHasRun
<1> QED
  BY <1>1, ModuleInvariants, PTL

\* Whatever fails or is given up between start() and the next operation, a run
\* that start() reported has the endpoint its own configuration asks for, even
\* after another configure(), and one that stop() ended has none.
THEOREM StartLeavesWhole == Spec => []StartIsWhole
<1>1. LifeInv => StartIsWhole
  <2>1. LifeInv /\ pc = "free" /\ Live /\ ~stopping /\ ~gaveUp =>
          (http = "open" <=> Asked(runCfg))
    BY DEF LifeInv, Live, Life!Live, Starting
  <2> QED
    BY <2>1, Zenon DEF StartIsWhole, Asked
<1> QED
  BY <1>1, ModuleInvariants, PTL

\* For every table of networks and every input: whatever run there is was
\* given a network and a log level the library knows and URLs that it reads as
\* they were configured, through the default endpoints, the migration and the
\* beacon module's providers alike.
THEOREM LibraryIsNeverGivenUnknown == Spec => []LibraryCanStart
<1>1. ConfigInv => LibraryCanStart
  <2> SUFFICES ASSUME ConfigInv, run # "none"
               PROVE  LET given == Upstream(runCfg)
                      IN  /\ given.eth2Network \in DOMAIN Table
                          /\ given.logLevel \in Enums.logLevel
                          /\ given.executionApiUrls # <<>> /\ given.beaconApiUrls # <<>>
                          /\ \A key \in Backends :
                               /\ Len(given[key]) = Len(runCfg[key])
                               /\ Range(given[key]) \subseteq Schemed
    BY DEF LibraryCanStart
  <2>1. /\ WellMade(runCfg) /\ runCfg.network \in DOMAIN Table
        /\ runCfg.beaconApiUrls # <<>>
    BY DEF ConfigInv
  <2>2. runCfg.logLevel \in Enums.logLevel /\ runCfg.executionApiUrls # <<>>
    BY <2>1, KeySets DEF WellMade
  <2> QED
    BY <2>1, <2>2, LibraryReadsUrls, AllKeys
<1> QED
  BY <1>1, ModuleInvariants, PTL

\* The user's configuration survives crashes in any step of configure(),
\* start() and stop(), any number of loads and any sequence of releases: the
\* module comes back with it, as it was or with a retired default moved on.
THEOREM ConfigIsRemembered == Spec => []RemembersConfig
<1>1. KeptInv => RemembersConfig
  BY DEF KeptInv, RemembersConfig, Saving
<1> QED
  BY <1>1, ModuleInvariants, PTL
=============================================================================
