--------------------------- MODULE MCLoadBalancer ---------------------------
(* LoadBalancer for TLC: two concurrent requests of one conversation, two nodes. *)
EXTENDS LoadBalancer, TLC

CONSTANTS r1, r2, n1, n2, t1

Group(members, enabled, failover, url) ==
  [present |-> TRUE, members |-> members, known |-> {n1, n2},
   enabled |-> enabled, failover |-> failover, url |-> url]

BothNodes  == Group({n1, n2}, {n1, n2}, TRUE, 0)
NoFailover == Group({n1, n2}, {n1, n2}, FALSE, 0)
OneLeaves  == Group({n2}, {n1, n2}, TRUE, 0)
Gone == [present |-> FALSE, members |-> {}, known |-> {n2}, enabled |-> {n2},
         failover |-> FALSE, url |-> 0]

StillConfigs  == {BothNodes, NoFailover}
SavedConfigs  == {BothNodes, OneLeaves, Gone}

AllPairs == {<<n1, n2>>, <<n2, n1>>}

RequestSymmetry == Permutations({r1, r2})

=============================================================================
