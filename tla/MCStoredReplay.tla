--------------------------- MODULE MCStoredReplay ---------------------------
(***************************************************************************)
(* A small instance of StoredReplay: two heights above the checkpoint, a   *)
(* fork at each of them, a transaction that fares differently on the two   *)
(* sides of the upper one, two observers.                                  *)
(***************************************************************************)
EXTENDS StoredReplay

Tree == {<<>>, <<0>>, <<0, 0>>, <<0, 1>>, <<0, 0, 0>>, <<0, 0, 1>>}
Checkpointed == <<0>>
TwoParts == <<"block", "receipts">>
NoBlock == {}

Fares(b) ==
  CASE b = <<0, 0, 0>> -> "Succeeded" [] b = <<0, 0, 1>> -> "Reverted" [] OTHER -> "Unknown"
Receipts == [b \in Block |-> [x \in Tx |-> Fares(b)]]

=============================================================================
