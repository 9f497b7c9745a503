--------------------------- MODULE InitializeMeta ----------------------------
(***************************************************************************)
(* The per-session options a client sends in the metadata of initialize    *)
(* (src/src/http/requests.ts), and what the server makes of them and of    *)
(* the options of the process (src/src/http/server.ts).  The metadata is a *)
(* partial function from keys to the values sent; kinds of values that no  *)
(* reader accepts stand for all the others.                                *)
(***************************************************************************)
EXTENDS TLC

Absent == "undefined"
Booleans == {"true", "false"}

\* readOptionalBoolean, readOptionalString, readOptionalHumanPreset,
\* readOptionalContextOptions, readOptionalStringArray: what each key accepts
MetaAccepts ==
  [ cdpEnabled |-> Booleans, extensionMode |-> Booleans, geoipProxyMatch |-> Booleans,
    headless |-> Booleans, humanize |-> Booleans, humanPreset |-> {"default", "careful"},
    userDataDir |-> {"text"}, profileDirName |-> {"text"}, proxyServer |-> {"text"},
    proxyBypass |-> {"text"}, extensionPaths |-> {"texts", "empty array"},
    contextOptions |-> {"options"} ]

\* readBridgeInitializeMeta: no metadata for the bridge at all, or not an object
NoMeta == [sent |-> "none", keys |-> <<>>]
MetaRefused(meta) ==
  \/ meta.sent = "not an object"
  \/ "extensionToken" \in DOMAIN meta.keys
  \/ \E k \in DOMAIN meta.keys \cap DOMAIN MetaAccepts : meta.keys[k] \notin MetaAccepts[k]
  \/ "proxyBypass" \in DOMAIN meta.keys /\ "proxyServer" \notin DOMAIN meta.keys

\* readBridgeRuntimeOptionsFromMeta, compactRuntimeOptions; other keys are ignored
SessionOption(meta, k) ==
  IF k = "proxy" THEN
    IF "proxyServer" \notin DOMAIN meta.keys THEN Absent
    ELSE IF "proxyBypass" \in DOMAIN meta.keys THEN "proxy with bypass" ELSE "proxy"
  ELSE IF k \in DOMAIN meta.keys THEN meta.keys[k] ELSE Absent

\* preferSessionOption
TruthyFirst(session, default) == IF session \in {Absent, "false"} THEN default ELSE session
PreferSessionOption(session, default) == IF session = Absent THEN default ELSE session

\* the options prepareBridgeRuntime gets; mergeContextOptions keeps what the
\* session does not name, binary and release channel are the process's
SessionOptions == {"geoipProxyMatch", "headless", "humanize", "humanPreset", "userDataDir",
                   "profileDirName", "proxy", "extensionPaths", "extensionMode", "contextOptions"}
ProcessOptions == {"binaryPath", "releaseChannel"}
RuntimeOptions(meta, process) ==
  LET Of(k) == PreferSessionOption(SessionOption(meta, k), process[k])
  IN  [k \in SessionOptions \cup ProcessOptions \cup {"browserIsolated"} |->
         CASE k \in SessionOptions    -> Of(k)
           [] k \in ProcessOptions    -> process[k]
           [] k = "browserIsolated"   -> IF Of("extensionMode") = "true" THEN "false" ELSE "true"]

\* resolveCdpSessionEnabled
CdpEnabled(meta, processEnabled) ==
  IF SessionOption(meta, "cdpEnabled") = Absent THEN processEnabled
  ELSE SessionOption(meta, "cdpEnabled") = "true"
=============================================================================
