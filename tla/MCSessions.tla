------------------------------ MODULE MCSessions ------------------------------
(* Instances of Sessions for TLC. *)
EXTENDS Sessions, Integers, FiniteSets, TLC

CONSTANTS u1, u2, b1, b2, w1, w2, r1, r2, s1, s2, s3

\* Requests are alike, and so are the ids of sessions.
AnyRequestOrId == Permutations(Request) \cup Permutations(Session)

Administering ==
  {r \in Request : request[r] # NoValue /\ request[r].kind \in {"create", "update", "status"}}

\* Bounds: administrators act one at a time, and the session that uses the last
\* id is opened while nobody administers and nobody has been added.
FewAtOnce ==
  /\ Cardinality(Administering) <= 1
  /\ (\A s \in Session : sessions[s] # NoValue) =>
       /\ Administering = {}
       /\ \A u \in User \ FirstUsers : users[u] = NoValue
       /\ \A b \in Business \ {FirstBusiness} : businesses[b] = "ninguno"
=============================================================================
