------------------------- MODULE MCInstanceRegistry -------------------------
(* Small instances of InstanceRegistry for TLC. *)
EXTENDS InstanceRegistry, TLC

(* The service of every deployment has a URL of its own. *)
MCPendingUrl == CHOOSE f \in [Names -> Urls] :
  \A m, n \in Names : f[m] = f[n] => m = n

(* A renaming of names takes the URLs of their services along.  Ids are    *)
(* interchangeable where S3Ids has all or none of them.                    *)
Renamings == {p \in Permutations(Names \cup Urls) :
  \A n \in Names : p[n] \in Names /\ p[MCPendingUrl[n]] = MCPendingUrl[p[n]]}
Symmetry == Renamings \cup Permutations(Ids) \cup Permutations(Requests)
=============================================================================
