------------------------- MODULE MCFundCoordination -------------------------
(* Small funds for TLC: the guests are interchangeable, and so are topics.  *)
EXTENDS FundCoordination, TLC

CONSTANTS host, g1, g2, t1, t2, s1

TwoAgents == {host, g1}
ThreeAgents == {host, g1, g2}

GuestsAndTopics == Permutations({g1, g2}) \cup Permutations({t1, t2})
TopicsOnly == Permutations({t1, t2})

=============================================================================
