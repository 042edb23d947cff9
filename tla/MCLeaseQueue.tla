---------------------------- MODULE MCLeaseQueue ----------------------------
(* Instances of LeaseQueue: values of the constants that a cfg cannot write, *)
(* and behaviours in which little goes wrong.                               *)
EXTENDS LeaseQueue, TLC

CONSTANT MaxTroubles  \* crashes, lapses and deadlines that pass in a behaviour, together

SecondJobShares == [j \in Jobs |-> IF j <= 2 THEN 1 ELSE j]
EachJobItsOwn == [j \in Jobs |-> j]

troubles == crashes + lapses + Cardinality({j \in Jobs : expired(j)})

LeasesNext ==
  \/ \E j \in Jobs : CancelJob(j)
  \/ Next /\ troubles' <= MaxTroubles

=============================================================================
