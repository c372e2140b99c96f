--------------------------- MODULE MCGatewayTrace ---------------------------
(* Instances of GatewayTrace for TLC. *)
EXTENDS GatewayTrace

\* The message of a failed call is longer than a response.
MCBodySize == [b \in Bodies |-> IF b = "tool_failed" THEN 2 ELSE 1]
\* The tools of this instance read no url.
MCExtractDomain == [u \in Urls |-> NoDomain]
MCNoPolicies == {NoPolicy}
MCNonIntegers == {NonInteger}
=============================================================================
