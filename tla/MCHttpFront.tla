----------------------------- MODULE MCHttpFront -----------------------------
(* Instance of HttpFront for TLC.  Every combination of the TLS options and *)
(* of the CDP settings that depend on one another, every other option with  *)
(* a text its parser takes and one it refuses, from either source and from  *)
(* both; HTTP servers with and without token, with managed CDP on, possible *)
(* and impossible; doctors over sound and broken installations.  r1 asks    *)
(* anything, r2 opens sessions and streams.                                 *)
EXTENDS HttpFront
CONSTANTS r1, r2

Numbers == ("0" :> 0) @@ ("1" :> 1) @@ ("2" :> 2) @@ ("3" :> 3) @@ ("32" :> 32) @@ ("3000" :> 3000)
           @@ ("65535" :> 65535) @@ ("65536" :> 65536) @@ ("-1" :> -1) @@ ("3600000" :> 3600000)
Ranges == ("9300" :> <<9300, 9300>>) @@ ("9300-9310" :> <<9300, 9310>>) @@ ("9310-9300" :> <<9310, 9300>>)
          @@ ("0-9" :> <<0, 9>>) @@ ("65535-65536" :> <<65535, 65536>>)
TrueFalse == ("true" :> TRUE) @@ (" TRUE " :> TRUE) @@ ("false" :> FALSE)
Paths == ("/mcp" :> {}) @@ ("/healthz" :> {}) @@ ("/readyz" :> {}) @@ ("/a?b" :> {"query"})
         @@ ("/a/" :> {"trailing slash"})
Hosts == ("127.0.0.1" :> "loopback") @@ ("0.0.0.0" :> "wildcard") @@ ("::" :> "wildcard")
         @@ ("10.0.0.1" :> "remote") @@ ("cdp.example" :> "remote")
Blanks == {"", " "}

Invoked(args, env, flags) == [command |-> "serve", args |-> args, env |-> env, flags |-> flags]
Maybe(name, texts) == {<<>>} \cup {name :> t : t \in texts}

OfTls == {Invoked([n \in given |-> "file"] @@ ("httpProtocol" :> p), <<>>, {}) :
            given \in SUBSET TlsNames, p \in {"http", "https"}}
OfCdp ==
  {Invoked(host @@ published @@ range, on @@ remote, flags) :
     host \in Maybe("cdpHost", {"0.0.0.0", "10.0.0.1", "no host"}),
     published \in Maybe("cdpAdvertisedHost", {"cdp.example", "::", "no host"}),
     range \in Maybe("cdpPortRange", {"9300-9310"}),
     on \in Maybe("cdpEnabled", {"true", "yes"}),
     remote \in Maybe("cdpAllowRemote", {" TRUE ", "false", "yes"}),
     flags \in SUBSET {"--cdp-enabled", "--no-cdp-enabled", "--cdp-allow-remote", "--no-cdp-allow-remote"}}
Texts == {"", "stdio", "stable", "65535", "65536", "-1", "0", "/readyz", "/a?b", "/a/", "9310-9300",
          "0-9", "65535-65536", "9300", "http"}
OfTexts ==
  UNION {{Invoked(n :> t, <<>>, {}), Invoked(<<>>, n :> t, {}), Invoked(n :> "stable", n :> t, {})} :
           n \in DOMAIN cliOptionDefinitions \ {"transport"}, t \in Texts}
OfBooleans == {Invoked(a, e, {}) : a \in Maybe("humanize", {"given"}), e \in Maybe("humanize", {"yes", "true"})}

Served(more, flags) ==
  Invoked(("transport" :> "streamable-http") @@ ("httpSessionMax" :> "1") @@ more
          @@ ("humanize" :> "given") @@ ("binaryPath" :> "/bin"), <<>>, flags)
Guarded == ("httpAuthToken" :> "secret") @@ ("cdpPortRange" :> "9300")
OfServers == {Served(<<>>, {}), Served(Guarded, {}), Served(Guarded, {"--cdp-enabled"})}

Facts == [ node : {<<22, 12, 0>>, <<21, 13, 1>>}, engine : {NoRange, <<22, 11, 5>>, <<20, 18, 0>>},
           cli : {"throws", "missing", "found"},
           above : {<<[name |-> "other", version |-> "1"], [name |-> "@playwright/mcp", version |-> "2"]>>, <<>>},
           playwright : {"1", Null}, playwrightCore : {"1", Null},
           bundle : {"missing", "found as .js"},
           aboveBundle : {<<[name |-> "playwright-core", version |-> "1"]>>,
                          <<[name |-> "playwright-core", version |-> "2"]>>},
           binary : {"installed", "absent", "throws"} ]
OfDoctors == {[command |-> "doctor", facts |-> f] : f \in Facts}

InvocationSet == OfTls \cup OfCdp \cup OfTexts \cup OfBooleans \cup OfServers \cup OfDoctors

Plain == [ path |-> "/mcp", host |-> "valid", auth |-> "right", method |-> "POST", json |-> TRUE,
           declared |-> Absent, session |-> Absent, payload |-> "initialize", meta |-> NoMeta ]
Sent(keys) == [Plain EXCEPT !.meta = [sent |-> "object", keys |-> keys]]
Opens == {Plain, Sent("cdpEnabled" :> "true"),
          Sent(("humanize" :> "false") @@ ("extensionMode" :> "true") @@ ("cdpEnabled" :> "false"))}
Faulty ==
  { Sent("proxyBypass" :> "text"), Sent("extensionToken" :> "text"), Sent("humanize" :> "number"),
    [Plain EXCEPT !.meta = [sent |-> "not an object", keys |-> <<>>]],
    [Plain EXCEPT !.json = FALSE], [Plain EXCEPT !.payload = "not JSON"],
    [Plain EXCEPT !.payload = "call"], [Plain EXCEPT !.declared = "3"], [Plain EXCEPT !.declared = "2"],
    [Plain EXCEPT !.auth = "wrong"], [Plain EXCEPT !.host = "invalid"], [Plain EXCEPT !.path = "/other"],
    [Plain EXCEPT !.method = "PUT"], [Plain EXCEPT !.method = "GET"] }
Probes == [path : {"/healthz", "/readyz"}, host : {"valid"}, auth : {"right", "none"},
           method : {"GET", "POST"}]
InSession(s) == {[Plain EXCEPT !.method = m, !.session = s, !.payload = "call"] : m \in {"GET", "POST", "DELETE"}}

AskTable == (r1 :> Opens \cup Faulty \cup Probes \cup InSession(r2))
            @@ (r2 :> {Plain, Sent(("headless" :> "true") @@ ("proxyServer" :> "text"))} \cup InSession(r1))
=============================================================================
