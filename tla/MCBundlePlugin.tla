--------------------------- MODULE MCBundlePlugin ---------------------------
(* Two sources: authz ships two versions of its policies and one that cannot *)
(* be decoded, rbac a policy the parser refuses and a good one.  Both ship a *)
(* policy under the path q.                                                  *)
EXTENDS BundlePlugin, TLC

CONSTANTS authz, rbac, p, q, r, v1, v2, broken, users, roles

MCPaths == {p, q, r}
MCSources == {v1, v2, broken}
MCParsable == {v1, v2}
MCFacts == {users, roles}

Policies(f) == f @@ [x \in MCPaths |-> NoPolicy]
Good(ps, d) == [data |-> d, policies |-> Policies(ps), fault |-> "none"]

MCOffered(n) ==
  IF n = authz
  THEN {Good(p :> v1 @@ q :> v1, {users}),
        Good(p :> v2, {}),
        [data |-> {users}, policies |-> Policies(p :> v2), fault |-> "bad_content"]}
  ELSE {Good(r :> v1 @@ q :> v2, {roles}), Good(r :> broken, {roles}),
        [data |-> {}, policies |-> Policies(r :> v1), fault |-> "bad_archive"]}

MCNoConfigs == {}
MCTwoConfigs == {{authz}, {authz, rbac}}
MCAuthz == {authz}
MCBoth == {authz, rbac}
=============================================================================
