---------------------- MODULE MCEventLogConsolidator ------------------------
(* Instances: two forms of one event and one event without an Id; and two  *)
(* events without an Id whose texts are permutations of each other.        *)
EXTENDS EventLogConsolidator

MCEvent == {[id |-> "evt_1", chars |-> <<1>>],
            [id |-> "evt_1", chars |-> <<2>>],
            [id |-> None, chars |-> <<1, 2>>]}

MCAnagrams == {[id |-> None, chars |-> <<1, 2>>],
               [id |-> None, chars |-> <<2, 1>>]}
=============================================================================
