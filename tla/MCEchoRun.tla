------------------------------ MODULE MCEchoRun ------------------------------
(* Instances of EchoRun for TLC. Run ids, workers and Echoes are           *)
(* interchangeable.                                                        *)
EXTENDS EchoRunInv, TLC

Symmetry == Permutations(Runs) \union Permutations(Workers)
            \union Permutations(Echoes)
=============================================================================
