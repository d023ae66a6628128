------------------------------- MODULE OneRequest -------------------------------
(***************************************************************************)
(* What the backend promises of everything it asks the City to do, whoever *)
(* asks, crashes or retries: one request at a time per item, another only  *)
(* after the City refused the last, and none once it has accepted.         *)
(* Sf311Filing (an item is a service code of a filing) and CityHelpNote    *)
(* (the item is the note) implement it.                                    *)
(***************************************************************************)
CONSTANT Items

VARIABLE city   \* what the City makes of each item

Init == city = [i \in Items |-> "nothing"]

Ask(i) == city[i] = "nothing" /\ city' = [city EXCEPT ![i] = "asked"]

Refuse(i) == city[i] = "asked" /\ city' = [city EXCEPT ![i] = "nothing"]

Accept(i) == city[i] = "asked" /\ city' = [city EXCEPT ![i] = "accepted"]

Next == \E i \in Items : Ask(i) \/ Refuse(i) \/ Accept(i)

Spec == Init /\ [][Next]_city
=============================================================================
