---------------------------- MODULE CdpAdmission ----------------------------
(***************************************************************************)
(* What the external CDP proxy decides about a request by looking at it     *)
(* (src/src/cdp/httpProxy.ts, webSocketProxy.ts, urls.ts, capability.ts):   *)
(* which answer it gets, and which rejections are counted for the report.   *)
(*                                                                         *)
(* A request is a record of what the decisions read: "presented" is the     *)
(* path segment after /cdp/, "path" the class of the rest, and a header     *)
(* that may be repeated is the sequence of its values.                      *)
(***************************************************************************)
EXTENDS Integers, Sequences, FiniteSets

CONSTANT Advertised      \* the advertised scheme, host and port

\* resolveCdpConfig lets no other scheme through
ASSUME AdvertisedAssumption == Advertised.scheme \in {"http", "https"}

Dummy     == 0  \* dummyCapability: what is compared when there is none
Malformed == -1 \* not 43 base64url characters
NoPort    == 0

Authorities == [scheme : STRING, host : STRING, port : Nat, form : STRING]
Input == [kind : {"http", "upgrade"}, prefixed : BOOLEAN, presented : Int, path : STRING,
          query : {"none", "valid", "invalid"}, target : BOOLEAN, method : STRING,
          transferEncoding : BOOLEAN, lengths : Seq({"zero", "some", "malformed"}),
          headersOver : BOOLEAN, hosts : Seq(Authorities), origins : Seq(Authorities), token : Nat,
          upgrade : STRING, key : BOOLEAN, version : Nat, protocols : Seq(STRING)]

\* matchesCdpCapability: two capabilities that are both well formed and equal
Matches(expected, presented) == presented # Malformed /\ presented = expected

Mismatched(r, expected) == r.prefixed /\ ~Matches(expected, r.presented)
-----------------------------------------------------------------------------
\* errorPolicies: what an exchange can be answered, but for success
Failures == {"bad_gateway", "bad_request", "forbidden", "gateway_timeout", "headers_too_large",
             "internal_error", "method_not_allowed", "not_found", "payload_too_large",
             "unavailable", "upstream_error"}

(* Routes.                                                                  *)

StaticRoutes == {"version", "list", "protocol", "new"}
TargetRoutes == {"activate", "close"}
Method(path) == IF path = "new" THEN "PUT" ELSE "GET"
ResponseKind(path) == IF path \in TargetRoutes THEN "text" ELSE "json"

BadStatic(r) == r.query # "none" /\ (r.path # "new" \/ r.query = "invalid")
BadTarget(r) == r.query # "none" \/ ~r.target

Route(r, expected) ==
  IF ~r.prefixed \/ ~Matches(expected, r.presented) THEN "not_found"
  ELSE IF r.path \in StaticRoutes THEN IF BadStatic(r) THEN "bad_request" ELSE "route"
  ELSE IF r.path \in TargetRoutes THEN IF BadTarget(r) THEN "bad_request" ELSE "route"
  ELSE "not_found"

\* requestBodyPolicy; a length is its number, or "malformed"
BodyPolicy(r) ==
  IF r.transferEncoding THEN "payload_too_large"
  ELSE IF r.lengths = <<>> THEN "accepted"
  ELSE IF Len(r.lengths) # 1 \/ r.lengths[1] = "malformed" THEN "bad_request"
  ELSE IF r.lengths[1] = "zero" THEN "accepted" ELSE "payload_too_large"

\* acceptLocalHttpRequest: the first check that fails answers
LocalAnswer(r, expected) ==
  IF Route(r, expected) # "route" THEN Route(r, expected)
  ELSE IF r.method # Method(r.path) THEN "method_not_allowed"
  ELSE IF BodyPolicy(r) # "accepted" THEN BodyPolicy(r)
  ELSE IF r.headersOver THEN "headers_too_large"
  ELSE "accepted"
-----------------------------------------------------------------------------
(* Host and Origin.                                                         *)

\* an authority whose host is written as URL parsing would write it, with
\* nothing around it
Canonical(a) == a.form = "canonical"

ParsesAsOrigin(a) == a.scheme \in {"http", "https"} /\ Canonical(a)

EffectivePort(scheme, a) ==
  IF a.port # NoPort THEN a.port ELSE IF scheme = "https" THEN 443 ELSE 80

SameAuthority(scheme, a) ==
  a.host = Advertised.host /\ EffectivePort(scheme, a) = Advertised.port

HostPolicy(r) ==
  IF Len(r.hosts) # 1 \/ ~Canonical(r.hosts[1]) THEN "bad_request"
  ELSE IF ~SameAuthority(Advertised.scheme, r.hosts[1]) THEN "forbidden"
  ELSE "accepted"

\* an Origin carries its own scheme, and with it its own default port
OriginPolicy(r) ==
  IF r.origins = <<>> THEN "accepted"
  ELSE IF Len(r.origins) # 1 \/ ~ParsesAsOrigin(r.origins[1]) THEN "bad_request"
  ELSE IF ~SameAuthority(r.origins[1].scheme, r.origins[1]) THEN "forbidden"
  ELSE "accepted"

AuthorityPolicy(r) == IF HostPolicy(r) # "accepted" THEN HostPolicy(r) ELSE OriginPolicy(r)
-----------------------------------------------------------------------------
(* WebSocket upgrades.                                                      *)

UpgradeRoute(r, expected) ==
  IF ~r.prefixed \/ ~Matches(expected, r.presented) THEN "not_found"
  ELSE IF r.path # "devtools" \/ r.query # "none" THEN "not_found"
  ELSE IF r.target THEN "route" ELSE "bad_request"

\* protocols: the offered subprotocols, "bad" when one of them is not a token
ValidHandshake(r) ==
  /\ r.method = "GET" /\ r.upgrade = "websocket" /\ r.key /\ r.version \in {8, 13}
  /\ \A i, j \in 1 .. Len(r.protocols) :
       r.protocols[i] # "bad" /\ (i # j => r.protocols[i] # r.protocols[j])

\* #acceptUpgrade, then hasValidWebSocketHandshake
UpgradeAnswer(r, expected, full) ==
  IF UpgradeRoute(r, expected) # "route" THEN UpgradeRoute(r, expected)
  ELSE IF AuthorityPolicy(r) # "accepted" THEN AuthorityPolicy(r)
  ELSE IF full THEN "unavailable"
  ELSE IF ~ValidHandshake(r) THEN "bad_request"
  ELSE "accepted"
-----------------------------------------------------------------------------
(* The discovery payload: a payload that is not JSON, or what its two URL   *)
(* fields hold, wherever they are nested.  A WebSocket URL is "browser" or  *)
(* "page" by its path, and becomes the advertised one; a frontend URL may   *)
(* embed one ("embedded") that is rewritten in place.                       *)

Rewritable(payload) ==
  /\ payload.json
  /\ payload.debuggerUrl \in {"none", "browser", "page"}
  /\ payload.frontendUrl \in {"none", "plain", "embedded"}

\* what a reader of the rewritten payload can connect to
RewrittenUrl(payload) == payload.debuggerUrl
-----------------------------------------------------------------------------
(* Security rejections, by category.                                        *)

AuthorityRejections(r) ==
  IF HostPolicy(r) # "accepted" THEN {"host"}
  ELSE IF OriginPolicy(r) # "accepted" THEN {"origin"} ELSE {}

CapabilityRejections(r, expected) == IF Mismatched(r, expected) THEN {"capability"} ELSE {}
=============================================================================
