------------------------------ MODULE MCChirpPlan ------------------------------
(* ChirpPlan for TLC: all angles, and some whole turns more, of a few denominators; *)
(* the table sizes up to 50 and some around powers of two above.                    *)
EXTENDS ChirpPlan

MCTableSizes == (3..50 \ {2^e : e \in 2..5}) \cup {60, 62, 63, 65, 66, 68, 95, 97, 98, 100}
MCNums == 0..80
MCDens == {1, 2, 3, 5, 8, 12, 15, 21, 37, 64, 73} \cup MCTableSizes
==============================================================================
