--------------------------- MODULE RuntimeConfig ---------------------------
(***************************************************************************)
(* What prepareBridgeRuntime (src/src/bridge/config.ts) makes of a session's*)
(* options and the environment, as operators on an input record o.  A      *)
(* launch argument is a record of its key and value, in the order Chromium *)
(* gets them; "bare" is an argument without a value.  Of several with one   *)
(* key the bridge reads the first that has a value (First), Chromium uses   *)
(* the last (Last).  o.malformed names the step whose parser refuses its    *)
(* text; settings nothing else depends on are left out.                     *)
(***************************************************************************)
EXTENDS Sequences, Naturals, FiniteSets

Arg(k, v) == [key |-> k, value |-> v]
Keys(args) == {args[i].key : i \in DOMAIN args}
\* args.filter: what is at the positions I, in their order
Order[I \in SUBSET Nat] ==
  [n \in 1 .. Cardinality(I) |-> CHOOSE i \in I : Cardinality({j \in I : j <= i}) = n]
Picked(args, I) == LET at == Order[I] IN [n \in DOMAIN at |-> args[at[n]]]
\* [...new Set(args)]: a repeated argument stays where it came first
Distinct(args) == Picked(args, {i \in DOMAIN args : \A j \in 1 .. (i - 1) : args[j] # args[i]})
Without(args, keys) == Picked(args, {i \in DOMAIN args : args[i].key \notin keys})
\* findLaunchArgValue: the first argument with that key and a value
Given(args, k) == {i \in DOMAIN args : args[i].key = k /\ args[i].value # "bare"}
First(args, k) == IF Given(args, k) = {} THEN "undefined"
                  ELSE args[CHOOSE i \in Given(args, k) : \A j \in Given(args, k) : i <= j].value
Last(args, k) == args[CHOOSE i \in DOMAIN args :
                        args[i].key = k /\ \A j \in (i + 1) .. Len(args) : args[j].key # k].value

Fingerprint == "--fingerprint"
WebrtcIp    == "--fingerprint-webrtc-ip"
ProxyServer == "--proxy-server"
DebugPort   == "--remote-debugging-port"
Prohibited  == {DebugPort, "--remote-debugging-address", "--remote-debugging-pipe",
                "--remote-allow-origins"}
\* isCloakGeneratedArg
Generated   == {"--start-maximized", "--fingerprint-timezone", WebrtcIp, "--lang",
                "--fingerprint-locale", ProxyServer, "--proxy-bypass-list",
                "--load-extension", "--disable-extensions-except"}

IsGenerated(a) == /\ a.key \in Generated
                  /\ a.value # "bare" \/ a.key = "--start-maximized"

\* the arguments of a launch, whatever texts the operator writes
CONSTANT Texts
ASSUME TextsAssumption ==
  {Fingerprint, WebrtcIp, ProxyServer, DebugPort,
   "random", "seed", "internal", "own", "exit", "invalid"} \subseteq Texts
LaunchArgs == Seq([key : Texts, value : Texts])

\* A proxy: who names it, and whether its URL holds credentials.  Those with a
\* malformed escape ("undecoded") parseProxyServer does not see: it catches the
\* error and takes the text as it is.
NoProxy == [from |-> "none", secret |-> "none"]
HasProxyCredentials(proxy) == proxy.secret = "decoded"

\* browserEngine, useCloak and headless: extension mode comes first
UseCloak(o) == ~o.extension /\ o.engine = "cloak"
Headless(o) == ~o.extension /\ (IF o.headless = "unset" THEN o.headlessEnv # "off"
                                ELSE o.headless = "on")

\* createLaunchArgs, with CloakBrowser: its defaults hold a random fingerprint
StealthArgs(o) == IF o.stealth THEN <<Arg(Fingerprint, "random")>> ELSE <<>>
BaseArgs(o) ==
  IF UseCloak(o) THEN Distinct(StealthArgs(o) \o o.extraArgs) ELSE o.extraArgs

\* the kinds of JSON value each context option accepts
ContextAccepts ==
  [ userAgent |-> {"text"}, locale |-> {"text"}, timezoneId |-> {"text"},
    viewport |-> {"null", "size"}, colorScheme |-> {"scheme"},
    permissions |-> {"texts", "empty array"}, geolocation |-> {"position"},
    extraHTTPHeaders |-> {"map", "empty object"}, httpCredentials |-> {"credentials"},
    ignoreHTTPSErrors |-> {"boolean"}, offline |-> {"boolean"}, isMobile |-> {"boolean"},
    hasTouch |-> {"boolean"}, deviceScaleFactor |-> {"positive"} ]
ContextOptionNames == DOMAIN ContextAccepts
\* parseBridgeContextOptions throws: an unknown option or a kind it does not accept
ContextRefused(c) ==
  ~ \A k \in DOMAIN c : k \in ContextOptionNames /\ c[k] \in ContextAccepts[k]
\* resolveConfiguredContextOptions, mergeContextOptions: initialize metadata over
\* the environment, key by key, and both are parsed
Context(o) ==
  [k \in DOMAIN o.context \cup DOMAIN o.contextEnv |->
     IF k \in DOMAIN o.context THEN o.context[k] ELSE o.contextEnv[k]]
OverridesHide(o) == ContextRefused(Context(o))
EitherRefused(o) == ContextRefused(o.contextEnv) \/ ContextRefused(o.context)

\* resolveConfiguredProxy: initialize metadata, environment, arguments
ConfiguredProxy(o) ==
  IF o.proxy # NoProxy THEN o.proxy
  ELSE IF o.proxyEnv # NoProxy THEN o.proxyEnv
  ELSE IF Given(BaseArgs(o), ProxyServer) # {} THEN [from |-> "args", secret |-> "none"]
  ELSE NoProxy

\* PLAYWRIGHT_MCP_PROXY_SERVER of the child: createChildEnv, applyRuntimeProxyEnv.
\* HTTP_PROXY and its like and the operator's own arguments it inherits unseen.
InheritedProxy(o) == IF o.proxy # NoProxy THEN o.proxy ELSE o.proxyEnv
ChildProxy(o) ==
  LET chosen == IF o.proxy # NoProxy THEN o.proxy ELSE o.proxyEnv
  IN  IF HasProxyCredentials(chosen) THEN NoProxy ELSE chosen

\* shouldMatchProxyGeoip, and only with a proxy (resolveCloakLaunchOptions)
MatchesGeoip(o) == o.geoip /\ ConfiguredProxy(o) # NoProxy

\* validateManagedCdpLaunchArgs
NeverConflicts(o, args) == FALSE
Conflicts(o, args) == o.managed /\ Keys(args) \cap Prohibited # {}

ExplicitFingerprint(o) == Fingerprint \in Keys(o.extraArgs)
WantsSeed(o) == UseCloak(o) /\ o.userDataDir /\ o.stealth /\ ~ExplicitFingerprint(o)

\* collectExtensionModeConflicts
ExtensionConflicts(o) ==
  \/ o.managed \/ o.attachEnv # "none"
  \/ o.headless = "on" \/ o.headlessEnv = "on"
  \/ o.isolatedEnv \/ ConfiguredProxy(o) # NoProxy
  \/ o.geoip \/ o.humanize \/ DOMAIN Context(o) # {} \/ o.extensionPaths
  \/ o.extraArgs # <<>> \/ ~o.stealth

\* texts that a parser refuses, in the order they are looked at: engine, preset,
\* codegen and timeouts; the profile directory, which must be writable; its name
\* and the extension directories; the binary, a readable executable file; the
\* release channel
BaseMalformed(o) == o.malformed = "base"
ProfileUnusable(o) == o.malformed = "profile"
NamesMalformed(o) == o.malformed = "options"
BinaryUnusable(o) == o.malformed = "binary"
ChannelMalformed(o) == o.malformed = "channel"

\* what is thrown before the profile is locked, right after it, and once the
\* seed of the profile is known
RefusedUnlocked(o) == BaseMalformed(o) \/ ProfileUnusable(o) \/ Conflicts(o, BaseArgs(o))
RefusedLocked(o) ==
  \/ NamesMalformed(o) \/ EitherRefused(o)
  \/ o.extensionPaths /\ ~o.userDataDir
  \/ o.extension /\ (~o.token \/ ~o.userDataDir \/ ExtensionConflicts(o))

\* the seed of the profile replaces every other --fingerprint
SeedBeforeDefaults(o) ==
  (IF WantsSeed(o) THEN <<Arg(Fingerprint, "seed")>> ELSE <<>>) \o BaseArgs(o)
SeededArgs(o) ==
  IF WantsSeed(o) THEN <<Arg(Fingerprint, "seed")>> \o Without(BaseArgs(o), {Fingerprint})
  ELSE BaseArgs(o)

\* createCloakLaunchOptions: the arguments handed to buildLaunchOptions
BuilderSees(o) == SeededArgs(o)
BuilderArgs(o) == IF MatchesGeoip(o) THEN Without(SeededArgs(o), {WebrtcIp}) ELSE SeededArgs(o)

\* validateGeoipExitArgs
ExitIpFound(o, built) ==
  MatchesGeoip(o) => First(built, WebrtcIp) \notin {"undefined", "invalid"}
SpoofedIp(o) == First(SeededArgs(o), WebrtcIp) \notin {"undefined", "auto"}
Refuses(o) == IF MatchesGeoip(o) /\ SpoofedIp(o) THEN {WebrtcIp} ELSE {}

\* mergeLaunchArgs: a replacement takes the place of the first argument with
\* its key, the others with that key go, and new keys come last
MergeLaunchArgs[lists \in LaunchArgs \X LaunchArgs] ==
  LET args == lists[1]
      replacements == lists[2]
      FirstOf(s, i) == \A j \in 1 .. (i - 1) : s[j].key # s[i].key
      stay == {i \in DOMAIN args : args[i].key \notin Keys(replacements) \/ FirstOf(args, i)}
      add  == {i \in DOMAIN replacements :
                 replacements[i].key \notin Keys(args) /\ FirstOf(replacements, i)}
      Replaced(a) == IF a.key \in Keys(replacements) THEN Arg(a.key, Last(replacements, a.key)) ELSE a
  IN  Picked([i \in DOMAIN args |-> Replaced(args[i])], stay) \o Picked(replacements, add)

\* resolveCloakLaunchOptions after the builder answered
OwnArgs(args, refused) ==
  Picked(args, {i \in DOMAIN args : IsGenerated(args[i]) /\ args[i].key \notin refused})
CloakArgs(o, built) == MergeLaunchArgs[<<SeededArgs(o), OwnArgs(built, Refuses(o))>>]

\* applyManagedCdpLaunchOption looks at the merged arguments again
FinalArgs(o, args) == IF o.managed THEN Append(args, Arg(DebugPort, "internal")) ELSE args

\* applyManagedCdpLaunchOption drops every CDP variable the child would inherit
AllInherited(o) == o.attachEnv
WithoutCdp(o) == IF o.attachEnv = "cdp" THEN "none" ELSE o.attachEnv

\* browserConfig and childEnv of the runtime that is returned
Runtime(o, args, proxy) ==
  [ args     |-> IF o.extension THEN <<>> ELSE FinalArgs(o, args),
    proxy    |-> IF o.extension THEN NoProxy ELSE proxy,
    isolated |-> o.isolated /\ ~o.userDataDir /\ ~o.extension,
    profile  |-> o.userDataDir,
    context  |-> Context(o),
    child    |-> [ proxy    |-> ChildProxy(o),
                   isolated |-> ~o.userDataDir /\ ~o.extension /\ (o.isolated \/ o.isolatedEnv),
                   token    |-> o.extension /\ o.token,
                   attach   |-> WithoutCdp(o),
                   headless |-> Headless(o) ] ]
=============================================================================
