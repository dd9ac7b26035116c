---------------------------- MODULE MCGovernedCall ----------------------------
(* Three calls for TLC: two of one request, under one confirmation, and one *)
(* that reuses their key for another request.                               *)
EXTENDS GovernedCall

CONSTANTS c1, c2, c3, k1, k2, a1, a2, f1, r1

KeyOfCalls == [c \in Calls |-> k1]
ArgOfCalls == [c \in Calls |-> IF c = c3 THEN a2 ELSE a1]
ConfOfCalls == [c \in Calls |-> IF c = c3 THEN NoConf ELSE f1]
RunOfKeys == [k \in Keys |-> r1]
=============================================================================
