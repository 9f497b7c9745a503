------------------------------ MODULE CliConfig ------------------------------
(***************************************************************************)
(* What the command line and the environment make of the process           *)
(* (src/src/cli/options.ts, src/src/cdp/config.ts, src/src/cdp/urls.ts),   *)
(* as operators on an invocation: args and env are partial functions from  *)
(* option names to texts, flags the set of CDP switches on the command     *)
(* line.  Of a text only what the parsers look at is kept: the constants   *)
(* say which texts read as integers, port ranges, booleans, paths and      *)
(* hosts, and as which; any other text does not match the parser's form.   *)
(***************************************************************************)
EXTENDS Integers, TLC

CONSTANTS
  Numeral,     \* texts of decimal integers -> the integer
  RangeOf,     \* texts of the form a or a-b -> <<a, b>>
  BooleanText, \* texts that read true or false, whatever their case -> BOOLEAN
  PathForm,    \* texts that start with "/" -> the set of what is odd about them
  HostKind,    \* valid hosts -> "loopback", "wildcard" or "remote"
  Blank        \* texts of nothing but white space

\* the texts stand for the integers they read as, the default of httpSessionMax too
ASSUME NumeralAssumption ==
  /\ Numeral \in [DOMAIN Numeral -> Int]
  /\ "32" \in DOMAIN Numeral /\ Numeral["32"] = 32

Unset == "unset"
Choice(values, default) == [kind |-> "choice", values |-> values, default |-> default]
Parsed(kind, default) == [kind |-> kind, values |-> {}, default |-> default]

TlsNames == {"httpsCert", "httpsKey", "httpsPfx", "httpsPassphrase"}
\* without the switches, which parse their own way
cliOptionDefinitions ==
  [ transport            |-> Choice({"stdio", "streamable-http"}, "stdio"),
    humanPreset          |-> Choice({"default", "careful"}, "default"),
    releaseChannel       |-> Choice({"stable", "preview"}, "stable"),
    binaryPath           |-> Parsed("text", Unset),
    httpProtocol         |-> Choice({"http", "https"}, "http"),
    httpHost             |-> Parsed("text", "127.0.0.1"),
    httpPort             |-> Parsed("port", "3000"),
    httpEndpoint         |-> Parsed("path", "/mcp"),
    httpAuthToken        |-> Parsed("text", Unset),
    httpSessionBackend   |-> Choice({"memory"}, "memory"),
    httpSessionIdleTtlMs |-> Parsed("positive", "3600000"),
    httpSessionMax       |-> Parsed("positive", "32"),
    httpsCert            |-> Parsed("text", Unset), httpsKey        |-> Parsed("text", Unset),
    httpsPfx             |-> Parsed("text", Unset), httpsPassphrase |-> Parsed("text", Unset),
    cdpPortRange         |-> Parsed("range", Unset),
    cdpHost              |-> Parsed("text", "127.0.0.1"),
    cdpAdvertisedHost    |-> Parsed("text", Unset),
    cdpAdvertisedScheme  |-> Choice({"http", "https"}, "http") ]

\* the command line before the environment before the default
Setting(inv, name) ==
  IF name \in DOMAIN inv.args THEN inv.args[name]
  ELSE IF name \in DOMAIN inv.env THEN inv.env[name]
  ELSE cliOptionDefinitions[name].default

\* parseBooleanEnvValue; validateCdpHost, isLoopbackCdpHost, isWildcardCdpHost
Reads(text) == text \in DOMAIN BooleanText /\ BooleanText[text]
KindOf(host) == IF host \in DOMAIN HostKind THEN HostKind[host] ELSE "invalid"

IntegerIn(text, min, max) == text \in DOMAIN Numeral /\ Numeral[text] \in min .. max
IsPort(n) == n \in 1 .. 65535
parseCdpPortRange(text) ==
  /\ text \in DOMAIN RangeOf
  /\ IsPort(RangeOf[text][1]) /\ IsPort(RangeOf[text][2]) /\ RangeOf[text][1] <= RangeOf[text][2]
ProbePaths == {"/healthz", "/readyz"}
parseHttpEndpoint(text) ==
  /\ text \in DOMAIN PathForm /\ PathForm[text] \cap {"query", "fragment", "trailing slash"} = {}
  /\ text \notin ProbePaths

Accepts(option, text) ==
  CASE option.kind = "choice"   -> text \in option.values
    [] option.kind = "text"     -> text \notin Blank
    [] option.kind = "port"     -> IntegerIn(text, 0, 65535)
    [] option.kind = "positive" -> text \in DOMAIN Numeral /\ Numeral[text] > 0
    [] option.kind = "path"     -> parseHttpEndpoint(text)
    [] option.kind = "range"    -> parseCdpPortRange(text)
\* a default is not parsed, and neither is a variable the command line overrides
TextRefused(inv) ==
  \E name \in DOMAIN cliOptionDefinitions :
    /\ name \in DOMAIN inv.args \cup DOMAIN inv.env
    /\ ~Accepts(cliOptionDefinitions[name], Setting(inv, name))

\* readRawBooleanEnv, normalizeBoolean: --humanize and --geoip-proxy-match
NormalizeBoolean(inv, name) ==
  name \in DOMAIN inv.args \/ (name \in DOMAIN inv.env /\ Reads(inv.env[name]))
BooleanRefused(inv, name) ==
  name \notin DOMAIN inv.args /\ name \in DOMAIN inv.env /\ inv.env[name] \notin DOMAIN BooleanText

\* validateCdpBooleanFlagConflicts, resolveCdpBooleanSetting
Switches == [ cdpEnabled     |-> [on |-> "--cdp-enabled", off |-> "--no-cdp-enabled"],
              cdpAllowRemote |-> [on |-> "--cdp-allow-remote", off |-> "--no-cdp-allow-remote"] ]
EnvironmentFirst(inv, name) ==
  IF name \in DOMAIN inv.env THEN Reads(inv.env[name])
  ELSE Switches[name].on \in inv.flags
ResolveSwitch(inv, name) ==
  \/ Switches[name].on \in inv.flags
  \/ /\ Switches[name].off \notin inv.flags
     /\ name \in DOMAIN inv.env /\ Reads(inv.env[name])
SwitchRefused(inv, name) ==
  LET said == {Switches[name].on, Switches[name].off} \cap inv.flags
  IN  IF said = {} THEN name \in DOMAIN inv.env /\ inv.env[name] \notin DOMAIN BooleanText
      ELSE said = {Switches[name].on, Switches[name].off}

\* validateHttpProtocolOptions
TlsGiven(inv) == {name \in TlsNames : Setting(inv, name) # Unset}
TlsRefused(inv) ==
  LET given == TlsGiven(inv) IN
  IF Setting(inv, "httpProtocol") = "http" THEN given # {}
  ELSE IF "httpsPfx" \in given THEN given \cap {"httpsCert", "httpsKey"} # {}
  ELSE ~ {"httpsCert", "httpsKey"} \subseteq given

\* createCdpEndpointConfig
Advertised(inv) == Setting(inv, "cdpAdvertisedHost")
WildcardRefused(inv) ==
  \/ Advertised(inv) # Unset /\ KindOf(Advertised(inv)) = "wildcard"
  \/ KindOf(Setting(inv, "cdpHost")) = "wildcard" /\ Advertised(inv) = Unset
RemoteRefused(inv) ==
  KindOf(Setting(inv, "cdpHost")) # "loopback" /\ ~ResolveSwitch(inv, "cdpAllowRemote")
CdpRefused(inv) ==
  \/ KindOf(Setting(inv, "cdpHost")) = "invalid"
  \/ Advertised(inv) # Unset /\ KindOf(Advertised(inv)) = "invalid"
  \/ WildcardRefused(inv) \/ RemoteRefused(inv)
  \/ ResolveSwitch(inv, "cdpEnabled") /\ Setting(inv, "cdpPortRange") = Unset

\* parseCliOptions, toCliOptions: any of these ends the process before it starts
Refused(inv) ==
  \/ TextRefused(inv)
  \/ \E name \in {"geoipProxyMatch", "humanize"} : BooleanRefused(inv, name)
  \/ \E name \in DOMAIN Switches : SwitchRefused(inv, name)
  \/ TlsRefused(inv) \/ CdpRefused(inv)

CliOptions(inv) ==
  [ transport |-> Setting(inv, "transport"),
    bridge    |-> [ geoipProxyMatch |-> NormalizeBoolean(inv, "geoipProxyMatch"),
                    humanize        |-> NormalizeBoolean(inv, "humanize"),
                    humanPreset     |-> Setting(inv, "humanPreset"),
                    releaseChannel  |-> Setting(inv, "releaseChannel"),
                    binaryPath      |-> Setting(inv, "binaryPath") ],
    cdp       |-> [ processEnabled  |-> ResolveSwitch(inv, "cdpEnabled"),
                    allowRemote     |-> ResolveSwitch(inv, "cdpAllowRemote"),
                    bindHost        |-> Setting(inv, "cdpHost"),
                    advertisedHost  |-> Advertised(inv),
                    advertisedScheme |-> Setting(inv, "cdpAdvertisedScheme"),
                    portRange       |-> Setting(inv, "cdpPortRange") ],
    http      |-> [ protocol   |-> Setting(inv, "httpProtocol"),
                    tls        |-> TlsGiven(inv),
                    host       |-> Setting(inv, "httpHost"),
                    endpoint   |-> Setting(inv, "httpEndpoint"),
                    authToken  |-> Setting(inv, "httpAuthToken"),
                    sessionMax |-> Numeral[Setting(inv, "httpSessionMax")] ] ]
=============================================================================
