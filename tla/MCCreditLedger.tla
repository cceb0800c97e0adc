--------------------------- MODULE MCCreditLedger ---------------------------
(* One owner and two builds that cost more than the welcome credits together. *)
EXTENDS CreditLedger

CONSTANTS o1, j1, j2, h1, h2, h3, f1, f2, g1, s1, s2

MCOwnerOf   == [j \in Jobs |-> o1]
MCJobOf     == [c \in HoldCalls \cup RefundCalls |-> IF c = h2 THEN j2 ELSE j1]
MCAccountOf == [c \in GrantCalls \cup EnsureCalls |-> o1]
MCPrice     == [c \in HoldCalls |-> IF c = h2 THEN 2 ELSE 1]
MCAmount    == [c \in GrantCalls |-> -1]
=============================================================================
