---------------------------- MODULE MCTransfers ----------------------------
(***************************************************************************)
(* Four requests under one key, a withdrawal, its repetition, a withdrawal *)
(* of more than the user has and a deposit: the first that is not refused  *)
(* decides what the key stands for.                                        *)
(***************************************************************************)
EXTENDS Transfers

MCKeys == {"k1"}

Call(id, direction, amount) ==
    [id |-> id, key |-> "k1", direction |-> direction, amount |-> amount]

MCCalls == {Call(1, "WITHDRAWAL", 1), Call(2, "WITHDRAWAL", 1), Call(3, "WITHDRAWAL", 2),
            Call(4, "DEPOSIT", 1)}
=============================================================================
