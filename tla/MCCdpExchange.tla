--------------------------- MODULE MCCdpExchange ----------------------------
(* Instance of CdpExchange for TLC: an input is a good request or upgrade    *)
(* with up to two things wrong, so that the order of the checks shows.      *)
EXTENDS CdpExchange

Public == [scheme |-> "https", host |-> "public", port |-> 443]

Authority(scheme, host, port, form) == [scheme |-> scheme, host |-> host, port |-> port, form |-> form]
GoodHost == Authority("https", "public", 443, "canonical")
Hosts   == {<<>>, <<GoodHost, GoodHost>>, <<Authority("https", "public", NoPort, "canonical")>>,
            <<Authority("https", "other", 443, "canonical")>>, <<Authority("https", "public", 443, "userinfo")>>}
Origins == {<<GoodHost>>, <<Authority("http", "public", NoPort, "canonical")>>,
            <<Authority("ws", "public", 443, "canonical")>>}

Request == [kind |-> "http", prefixed |-> TRUE, presented |-> 1, path |-> "version", query |-> "none",
            target |-> TRUE, method |-> "GET", transferEncoding |-> FALSE, lengths |-> <<>>,
            headersOver |-> FALSE, hosts |-> <<GoodHost>>, origins |-> <<>>, token |-> 0,
            upgrade |-> "websocket", key |-> TRUE, version |-> 13, protocols |-> <<>>]
New      == [Request EXCEPT !.path = "new", !.method = "PUT", !.query = "valid"]
Activate == [Request EXCEPT !.path = "activate"]
Upgrade  == [Request EXCEPT !.kind = "upgrade", !.path = "devtools", !.protocols = <<"cdp">>]

Capabilities == {1, 2, Dummy, Malformed}
Presented(in) == {[in EXCEPT !.presented = c] : c \in Capabilities} \cup {[in EXCEPT !.prefixed = FALSE]}
Routed(in)    == {in} \cup {[in EXCEPT !.path = p] : p \in {"none", "other"}}
                 \cup {[in EXCEPT !.query = q] : q \in {"none", "valid", "invalid"}}
                 \cup {[in EXCEPT !.target = FALSE], [in EXCEPT !.method = "POST"]}
Framed(in)    == {in} \cup {[in EXCEPT !.transferEncoding = TRUE], [in EXCEPT !.headersOver = TRUE]}
                 \cup {[in EXCEPT !.lengths = l] : l \in {<<"zero">>, <<"some">>, <<"malformed">>, <<"zero", "zero">>}}
Addressed(in) == {in} \cup {[in EXCEPT !.hosts = h] : h \in Hosts} \cup {[in EXCEPT !.origins = o] : o \in Origins}
Handshake(in) == {in} \cup {[in EXCEPT !.upgrade = "h2c"], [in EXCEPT !.key = FALSE], [in EXCEPT !.version = 7]}
                 \cup {[in EXCEPT !.protocols = p] : p \in {<<"cdp", "cdp">>, <<"bad">>}}
Probed(in)    == {[in EXCEPT !.token = t] : t \in {0, 1}}

InputTable ==
  UNION {Routed(in) : in \in Presented(Request) \cup Presented(Upgrade) \cup {New, Activate}}
  \cup UNION {Framed(in) \cup Addressed(in) : in \in {Request, [Request EXCEPT !.prefixed = FALSE]}}
  \cup UNION {Addressed(in) \cup Handshake(in) : in \in Presented(Upgrade)}
  \cup Probed(Request)

Payload(json, debugger, frontend) == [json |-> json, debuggerUrl |-> debugger, frontendUrl |-> frontend]
PayloadTable == {Payload(FALSE, "none", "none"), Payload(TRUE, "browser", "embedded"),
                 Payload(TRUE, "page", "plain"), Payload(TRUE, "not_ws", "none"), Payload(TRUE, "none", "malformed")}
=============================================================================
