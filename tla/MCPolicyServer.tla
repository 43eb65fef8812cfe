--------------------------- MODULE MCPolicyServer ---------------------------
(* Small values for PolicyServer: two bundles of two files, of which one has *)
(* the same id in both; a policy of its own and one with the id of a file; a *)
(* text that parses and one that does not.                                   *)
EXTENDS PolicyServer, TLC

CONSTANTS c1, good, bad, roles, x

MCBackends == {"memory", "disk"}

MCOneClient == {c1}
MCDirectIds == {<<"authz">>, <<"bundle", "a", "b", "p">>}
MCNames == {<<"a">>, <<"a", "b">>}
MCPaths == {<<"p">>, <<"b", "p">>}
MCSources == {good, bad}
MCParsable == {good}
MCOneRoot == {roles}
MCItems == {x}

OnlyRoles == [EmptyDocument EXCEPT ![roles] = {x}]

\* Policies only, a smaller archive with data, one with a text the parser
\* refuses, and the two that break activation.
MCArchives ==
  LET p == <<"p">>
      q == <<"b", "p">>
      none == [path \in MCPaths |-> NoPolicy]
  IN {[data |-> EmptyDocument, policies |-> [none EXCEPT ![p] = good, ![q] = good],
       fault |-> "none"],
      [data |-> OnlyRoles, policies |-> [none EXCEPT ![p] = good], fault |-> "none"],
      [data |-> OnlyRoles, policies |-> [none EXCEPT ![q] = bad], fault |-> "none"],
      [data |-> OnlyRoles, policies |-> [none EXCEPT ![p] = good], fault |-> "bad_data"],
      [data |-> OnlyRoles, policies |-> [none EXCEPT ![p] = good], fault |-> "bad_text"]}
=============================================================================
