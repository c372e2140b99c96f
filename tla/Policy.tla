------------------------------- MODULE Policy -------------------------------
(***************************************************************************)
(* The execution policy of src/src/policy: what an OraclePolicy lets a     *)
(* tool call do, and what it lets a response look like.  Pure operators;   *)
(* the hosts that apply them are in DryRun (OraclePolicyHost) and          *)
(* GuestReplay (PolicyEnforcingHost).                                      *)
(*                                                                         *)
(* A url is a member of Urls. The only thing the policy reads of it is the *)
(* domain that extract_domain finds in it, which is a function of the url  *)
(* and no more than that: two urls may have the same one, and a url in     *)
(* which it finds no host has NoDomain, the "" of the code, as does a call *)
(* without a url. Which hosts the HTTP client contacts for a url is up to  *)
(* the client, which parses the url itself and follows redirects; that is  *)
(* not modelled, and nothing here speaks of it. A response is a member of  *)
(* Payloads.                                                               *)
(***************************************************************************)
EXTENDS Naturals

CONSTANTS
  Urls,          \* the urls a program may pass
  NoUrl,         \* no url argument, or one that is not a string
  Domains,       \* the non-empty domains extract_domain may read
  NoDomain,      \* the "" that the policy falls back to
  ExtractDomain, \* canonical::extract_domain, for each url
  Payloads,      \* the canonical bytes of successful responses
  Tools,         \* tool names a program may call
  NoPolicy       \* no --policy on the command line, empty policy_canonical

\* What the policy may read as the domain of a call.
ReadDomains == Domains \cup {NoDomain}

ASSUME PolicyAssumption ==
  /\ NoDomain \notin Domains
  /\ NoUrl \notin Urls
  /\ ExtractDomain \in [Urls -> ReadDomains]

\* canonical::is_http_tool
HttpTools == {"http_get", "http_post"}
IsHttpTool(tool) == tool \in HttpTools

\* What a program passes to call_tool; only HTTP tools read a url.
Calls == {c \in [tool : Tools, url : Urls \cup {NoUrl}] :
            IsHttpTool(c.tool) \/ c.url = NoUrl}

\* get_url_from_args, then extract_domain(url).unwrap_or("").
DomainOf(call) == IF call.url = NoUrl THEN NoDomain ELSE ExtractDomain[call.url]

\* An empty allowed_* list means no restriction; a list may name any string,
\* tool or not.  schema_versions gives, per domain, the payloads its registered
\* schema accepts: all of them for a domain with no entry.
Policies ==
  [allowed_domains           : SUBSET ReadDomains,
   allowed_http_methods      : SUBSET STRING,
   max_tool_calls            : Nat,
   max_payload_bytes_per_call: Nat,
   schema_versions           : [ReadDomains -> SUBSET Payloads]]

Permitted == "permitted"

\* Fault: the method list is never consulted.
CheckHttpCallNoMethods(policy, call) ==
  IF policy.allowed_domains # {} /\ DomainOf(call) \notin policy.allowed_domains
    THEN "domain_denied" ELSE Permitted

\* OraclePolicy::check_http_call and PolicyView::check_http_call: the method
\* list is consulted first, and the error names the list that refused.
CheckHttpCall(policy, call) ==
  IF policy.allowed_http_methods # {} /\ call.tool \notin policy.allowed_http_methods
    THEN "method_denied"
  ELSE IF policy.allowed_domains # {} /\ DomainOf(call) \notin policy.allowed_domains
    THEN "domain_denied"
  ELSE Permitted

\* OraclePolicy::check_response_schema, on a successful response.
CheckResponseSchema(policy, call, payload) ==
  payload \in policy.schema_versions[DomainOf(call)]

-----------------------------------------------------------------------------
(* Reference reading of the OraclePolicy document, used by properties only. *)

\* The policy document admits the call: each list that is given must name its
\* tool, or the domain the policy reads from its url.
Admits(policy, call) ==
  call.tool \in {"http_get", "http_post"} =>
    /\ policy.allowed_http_methods = {} \/ call.tool \in policy.allowed_http_methods
    /\ policy.allowed_domains = {} \/ DomainOf(call) \in policy.allowed_domains
=============================================================================
