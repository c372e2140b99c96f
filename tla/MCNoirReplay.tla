---------------------------- MODULE MCNoirReplay ----------------------------
(* Instances of NoirReplay for TLC. *)
EXTENDS NoirReplay

CONSTANTS good, goodUrl, small, big

MCDomains == {good}
MCUrls == {goodUrl}
MCExtractDomain == [u \in Urls |-> good]
MCPayloads == {small, big}

\* The big payload is one byte over the circuit's entry buffer.
MCBodySize == [b \in Bodies |-> IF b = big THEN 3 ELSE 2]

\* An allowlist (a call without a url is not on it) with room for one call, and a
\* schema for its domain.
OneCall ==
  [allowed_domains |-> {good}, allowed_http_methods |-> {},
   max_tool_calls |-> 1, max_payload_bytes_per_call |-> 3,
   schema_versions |-> [d \in ReadDomains |-> IF d = good THEN {small} ELSE Payloads]]

MCPolicies == {NoPolicy, OneCall}
MCOneCall == {OneCall}
=============================================================================
