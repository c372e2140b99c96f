--------------------------- MODULE MCPolicyProof ---------------------------
(* Instances of PolicyProof for TLC. *)
EXTENDS PolicyProof

Get == <<0>>
Post == <<0, 1>>
Here == <<1>>
There == <<2>>

MCDocuments ==
  {LoadSpec("constrained_http_v1", {}), LoadSpec("template_price_feed_v1", {}),
   Document(<<Here, There>>, <<Get, Post>>, 2, 3, PreferredAttested, Schema(<<2, 1>>), {}),
   Document(<<There, Here>>, <<Post, Get>>, 2, 3, PreferredAttested, Schema(<<1, 2>>), {}),
   Document(<<Here>>, << >>, 1, 4, UnattestedPermitted, NoSchema,
            {<<Here, Schema(<< >>)>>, <<There, Schema(<<3>>)>>})}

\* The third run is over most call caps or off the list, and catches what is refused.
MCRuns ==
  {[method |-> Get, domain |-> Here, calls |-> 1, payload |-> 1, catches |-> FALSE],
   [method |-> Post, domain |-> There, calls |-> 2, payload |-> 3, catches |-> FALSE],
   [method |-> Get, domain |-> There, calls |-> 3, payload |-> 0, catches |-> TRUE]}

MCBlobs == {<< >>, <<0, 1>>}
=============================================================================
