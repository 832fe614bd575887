--------------------------- MODULE MCOrderIntake ---------------------------
(***************************************************************************)
(* A request, its repetition and another body under the same key, and an   *)
(* order that competes for the balance.                                    *)
(***************************************************************************)
EXTENDS OrderIntake

MCCalls == {[id |-> 1, key |-> "k1", body |-> 1],
            [id |-> 2, key |-> "k1", body |-> 1],
            [id |-> 3, key |-> "k1", body |-> 2],
            [id |-> 4, key |-> "k2", body |-> 2]}

MCPolicies == {{1, 2}, {2}}
=============================================================================
