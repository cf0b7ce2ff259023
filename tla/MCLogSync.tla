------------------------------ MODULE MCLogSync ------------------------------
(* Instances of LogSync for model checking: cluster 0 has given groups to  *)
(* cluster 1 (plan1) before it splits into clusters 0 and 2 (plan2).       *)
EXTENDS LogSync

CONSTANTS g1, g2, g3, plan1, plan2, plan3, accounts

Impact(cluster, newcluster, groups) ==
  [cluster |-> cluster, newcluster |-> newcluster, type |-> accounts, total |-> 3,
   groups |-> groups]

TwoSplits ==
  {[plan |-> plan1, epoch |-> 1,
    impacts |-> <<Impact(0, FALSE, <<g1, g2>>), Impact(1, TRUE, <<g3>>)>>],
   [plan |-> plan2, epoch |-> 2,
    impacts |-> <<Impact(0, FALSE, <<g1>>), Impact(2, TRUE, <<g2>>)>>],
   \* rejected: g1 is given twice
   [plan |-> plan3, epoch |-> 3,
    impacts |-> <<Impact(0, FALSE, <<g1>>), Impact(2, TRUE, <<g1, g2>>)>>]}

\* The source changes its leader before its second entry.
LeaderChange == <<1, 2, 2, 2>>

=============================================================================
