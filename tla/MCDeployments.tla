--------------------------- MODULE MCDeployments ---------------------------
(* Small instances of Deployments for TLC. *)
EXTENDS Deployments, TLC

CONSTANTS i1, i2, n1, h1, s1

MCDomain  == <<"models", "org">>
OldDomain == <<"org">>
MCForeign == {[host |-> <<"*", "other", "org">>, class |-> "same"],
              [host |-> <<"*", "models", "org">>, class |-> "other"]}

NoRows == [i \in Ids |-> [state |-> "unborn", name |-> None, status |-> "deploying", calm |-> TRUE]]
Spaces(in) == [n \in Names |-> [NoObjects EXCEPT !.ns = IF in THEN "active" ELSE "absent"]]
NoAuths == [s \in Secrets |-> NoAuth]
Route(host, scheme, s) ==
  [host |-> host, scheme |-> scheme, auth |-> s, version |-> 1, edited |-> {}, by |-> i1, checked |-> 0, repeated |-> FALSE]

GoneRow(i) == [NoRows EXCEPT ![i].state = "gone", ![i].name = n1]
(* Nothing is deployed: two deployments without a failure, or one with.    *)
Empty == [inCluster |-> TRUE, rows |-> NoRows, k8s |-> Spaces(TRUE), auth |-> NoAuths,
          allowHttp |-> TRUE, sent |-> 1, faults |-> MaxFaults]
Single(in) == [inCluster |-> in, rows |-> GoneRow(i2), k8s |-> Spaces(in), auth |-> NoAuths,
               allowHttp |-> TRUE, sent |-> 1, faults |-> 0]
(* One deployment is exposed. *)
Running(g, auths) ==
  [inCluster |-> TRUE, auth |-> auths, allowHttp |-> FALSE, sent |-> 0, faults |-> 0,
   rows |-> [GoneRow(i2) EXCEPT ![i1] = [state |-> "live", name |-> n1, status |-> "applied", calm |-> TRUE]],
   k8s |-> [Spaces(TRUE) EXCEPT ![n1] = [ns |-> "active", dep |-> 1, service |-> TRUE, s3 |-> TRUE,
                                          pull |-> TRUE, ingress |-> g, touched |-> 1]]]
Secured == Running(Route(<<h1>> \o MCDomain, "https", s1),
                    [NoAuths EXCEPT ![s1] = [state |-> "live", name |-> n1, owner |-> None, middleware |-> TRUE]])
(* The domain and the policy were others once; no call fails. *)
Plain == [Running(Route(<<h1>> \o OldDomain, "http", None), NoAuths) EXCEPT !.faults = MaxFaults]
(* The name may be used again, and no call fails. *)
Reuse == [Secured EXCEPT !.rows[i2] = NoRows[i2], !.faults = MaxFaults]

MCSeeds == {Empty, Single(TRUE), Single(FALSE), Secured, Plain, Reuse}

Symmetry == Permutations(Clients)
=============================================================================
