---------------------------- MODULE MCRepository ----------------------------
(* Small instances of Repository for TLC. *)
EXTENDS Repository, TLC

CONSTANTS fa, fb, n1, n2, a, b, c

(* A new version of a file may have the size of the old one. *)
MCSizeOf == (a :> 1) @@ (b :> 1) @@ (c :> 2)

Empty == [k \in Keys |-> None]

(* Two users, no deployment: a file in both folders, or two in one. *)
Twins  == [bucket |-> [Empty EXCEPT ![<<fa, n1>>] = a, ![<<fb, n1>>] = a],
           begun |-> 0, faults |-> MaxFaults - 1, mode |-> "off", direct |-> FALSE]
Others == [bucket |-> [Empty EXCEPT ![<<fa, n1>>] = a, ![<<fa, n2>>] = b, ![<<fb, n1>>] = c],
           begun |-> 0, faults |-> MaxFaults - 1, mode |-> "off", direct |-> FALSE]

(* A deployment of fa, and one change of the objects, or two. *)
Deployed(m, d) ==
  [bucket |-> [Empty EXCEPT ![<<fa, n1>>] = a, ![<<fa, n2>>] = a, ![<<fb, n1>>] = b, ![<<fb, n2>>] = c],
   begun |-> MaxRequests - 1, faults |-> 0, mode |-> m, direct |-> d]

MCSeeds == {Twins, Others, Deployed("init", FALSE)} \cup {Deployed("sidecar", d) : d \in BOOLEAN}
FirstSeeds == {[Deployed("sidecar", FALSE) EXCEPT !.begun = MaxRequests, !.faults = MaxFaults]}
=============================================================================
