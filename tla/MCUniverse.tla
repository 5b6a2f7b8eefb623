---------------------------- MODULE MCUniverse ----------------------------
(* An hourly series of two events, its nearest event recorded near the price, *)
(* and a category with one market more than the budget needs.                *)
EXTENDS Universe

MCMarket ==
  << [series |-> 1, event |-> 1, volume |-> 2, close |-> 3, mid |-> 1],
     [series |-> 1, event |-> 2, volume |-> 1, close |-> None, mid |-> 0],
     [series |-> 2, event |-> 1, volume |-> 2, close |-> None, mid |-> None] >>
MCCategory == <<"hourly", "sports">>
MCGroups ==
  << [series |-> <<1>>, category |-> "none", events |-> 1, perEvent |-> 1, max |-> None,
      horizon |-> None, near |-> TRUE],
     [series |-> << >>, category |-> "sports", events |-> 1, perEvent |-> 2, max |-> 2,
      horizon |-> None, near |-> FALSE] >>
=============================================================================
