--------------------------- MODULE MCGuestReplay ---------------------------
(* Instances of GuestReplay for TLC. *)
EXTENDS GuestReplay

CONSTANTS good, other, goodUrl, otherUrl, oddUrl, small, big

\* One url for each domain, and one in which extract_domain finds no host.
MCDomains == {good, other}
MCUrls == {goodUrl, otherUrl, oddUrl}
MCExtractDomain ==
  [u \in Urls |-> CASE u = goodUrl -> good [] u = otherUrl -> other [] u = oddUrl -> NoDomain]

\* Without the odd one, for the largest instance.
MCNamedUrls == {goodUrl, otherUrl}

\* A single domain, for the runs with two HTTP tools.
MCOtherDomain == {other}
MCOtherUrls == {otherUrl, oddUrl}

MCPayloads == {small, big}

\* One byte for a short response, three for a long one; a denial spells out
\* the tool or the domain and is longer than the other messages.
MCBodySize ==
  [b \in Bodies |-> IF b = big THEN 3
                    ELSE IF b \in {"method_denied", "domain_denied"} THEN 2 ELSE 1]

AnyPayload == [d \in ReadDomains |-> Payloads]

\* The allowlist of one domain and method, with room for two calls.
Allowlist ==
  [allowed_domains |-> {good}, allowed_http_methods |-> {"http_get"},
   max_tool_calls |-> 2, max_payload_bytes_per_call |-> 3,
   schema_versions |-> AnyPayload]

\* The same with a call to spare, enough for a replay that strays after a refusal
\* to ask for more entries than there are.
Roomy == [Allowlist EXCEPT !.max_tool_calls = 3]

\* No lists, one call, short answers only, and a schema for one domain.
Tight ==
  [allowed_domains |-> {}, allowed_http_methods |-> {},
   max_tool_calls |-> 1, max_payload_bytes_per_call |-> 1,
   schema_versions |-> [AnyPayload EXCEPT ![other] = {small}]]

\* Only POST, which the live host has no tool for, and a call to spare.
PostOnly ==
  [allowed_domains |-> {other}, allowed_http_methods |-> {"http_post"},
   max_tool_calls |-> 3, max_payload_bytes_per_call |-> 2,
   schema_versions |-> AnyPayload]

\* A method list that names no HTTP tool denies every HTTP call.
OtherMethod ==
  [allowed_domains |-> {}, allowed_http_methods |-> {"http_put"},
   max_tool_calls |-> 2, max_payload_bytes_per_call |-> 3,
   schema_versions |-> AnyPayload]

MCPolicies == {NoPolicy, Allowlist, Tight}
MCGuestPolicies == MCPolicies \cup {Roomy}
MCMethodPolicies == {Tight, PostOnly, OtherMethod}
MCAllowlist == {Allowlist}
MCTight == {Tight}
=============================================================================
