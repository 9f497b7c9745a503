-------------------------- MODULE MCBridgeRuntime --------------------------
(* Instance of BridgeRuntime for TLC.  The first preparation tries every      *)
(* input of a few themes, each around a plain base; the second, of a plain     *)
(* session or one of the same profile, interleaves with it.                   *)
EXTENDS BridgeRuntime, TLC

CONSTANTS p1, p2
AnyText == STRING

Base ==
  [ extension |-> FALSE, engine |-> "cloak", headless |-> "unset", headlessEnv |-> "unset",
    stealth |-> TRUE, extraArgs |-> <<>>, proxy |-> NoProxy, proxyEnv |-> NoProxy,
    geoip |-> FALSE, managed |-> FALSE, userDataDir |-> FALSE, token |-> FALSE,
    attachEnv |-> "none", isolated |-> FALSE, isolatedEnv |-> FALSE, humanize |-> FALSE,
    context |-> <<>>, contextEnv |-> <<>>, extensionPaths |-> FALSE, malformed |-> "none" ]

Proxies(source) ==
  {NoProxy} \cup {[from |-> source, secret |-> s] : s \in {"none", "decoded", "undecoded"}}
Spoofs == {<<>>, <<Arg(WebrtcIp, "spoof")>>, <<Arg(WebrtcIp, "auto")>>, <<Arg(WebrtcIp, "bare")>>,
           <<Arg(WebrtcIp, "spoof"), Arg(WebrtcIp, "auto"), Arg(WebrtcIp, "spoof")>>,
           <<Arg(WebrtcIp, "auto"), Arg(WebrtcIp, "spoof")>>}
ProxyTheme ==
  {[Base EXCEPT !.proxy = a, !.proxyEnv = b, !.extraArgs = args, !.geoip = g, !.engine = e] :
     a \in Proxies("metadata"), b \in Proxies("env"),
     args \in {<<>>, <<Arg(WebrtcIp, "spoof"), Arg(ProxyServer, "operator")>>},
     g \in BOOLEAN, e \in {"cloak", "playwright"}}
SpoofTheme ==
  {[Base EXCEPT !.proxy = a, !.extraArgs = args, !.geoip = g] :
     a \in {NoProxy, [from |-> "metadata", secret |-> "none"]}, args \in Spoofs, g \in BOOLEAN}
ArgsTheme ==
  {[Base EXCEPT !.extraArgs = args, !.managed = mg, !.userDataDir = d, !.stealth = st] :
     args \in {<<>>, <<Arg(Fingerprint, "explicit")>>,
               <<Arg(Fingerprint, "1"), Arg(Fingerprint, "2"), Arg(Fingerprint, "1")>>,
               <<Arg(Fingerprint, "1"), Arg(Fingerprint, "random")>>,
               <<Arg("--lang", "x"), Arg(DebugPort, "operator")>>,
               <<Arg("--remote-debugging-pipe", "bare")>>},
     mg \in BOOLEAN, d \in BOOLEAN, st \in BOOLEAN}
ExtensionTheme ==
  {[Base EXCEPT !.extension = x, !.token = t, !.userDataDir = d, !.attachEnv = at,
                !.headless = h, !.managed = mg] :
     x \in BOOLEAN, t \in BOOLEAN, d \in BOOLEAN, at \in {"none", "cdp", "endpoint"},
     h \in {"unset", "on"}, mg \in BOOLEAN}
Extending == [Base EXCEPT !.extension = TRUE, !.token = TRUE, !.userDataDir = TRUE]
ConflictTheme ==
  {[Extending EXCEPT !.proxyEnv = [from |-> "env", secret |-> "none"]],
   [Extending EXCEPT !.geoip = TRUE], [Extending EXCEPT !.humanize = TRUE],
   [Extending EXCEPT !.extensionPaths = TRUE], [Extending EXCEPT !.isolatedEnv = TRUE], [Extending EXCEPT !.headlessEnv = "on"],
   [Extending EXCEPT !.contextEnv = [offline |-> "boolean"]],
   [Extending EXCEPT !.extraArgs = <<Arg("--lang", "x")>>]}
Contexts == {<<>>, [viewport |-> "null"], [viewport |-> "text"], [userAgent |-> "text"],
             [unknown |-> "text"]}
ProfileTheme ==
  {[Base EXCEPT !.userDataDir = d, !.isolated = i, !.isolatedEnv = j, !.extensionPaths = e] :
     d \in BOOLEAN, i \in BOOLEAN, j \in BOOLEAN, e \in BOOLEAN}
  \cup {[Base EXCEPT !.context = ctx, !.contextEnv = env] : ctx \in Contexts, env \in Contexts}
MalformedTheme ==
  {[Base EXCEPT !.malformed = w, !.userDataDir = d] :
     w \in {"base", "profile", "options", "binary", "channel"}, d \in BOOLEAN}
InputTable ==
  (p1 :> (ProxyTheme \cup SpoofTheme \cup ArgsTheme \cup ExtensionTheme \cup ConflictTheme \cup ProfileTheme
            \cup MalformedTheme))
  @@ (p2 :> {Base, [Base EXCEPT !.userDataDir = TRUE]})
=============================================================================
