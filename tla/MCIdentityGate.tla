--------------------------- MODULE MCIdentityGate ---------------------------
(***************************************************************************)
(* Model of one AnteHandle invocation: two accounts written in either     *)
(* case, a pool of messages covering every branch of the signer and       *)
(* recipient extraction, and every transaction of at most two of them.    *)
(***************************************************************************)
EXTENDS IdentityGate

CONSTANTS a1, a2, cccd1

L(a) == <<a, "lower">>
U(a) == <<a, "upper">>
Fields(c, s, f) == [x \in {"Creator", "Signer", "FromAddress"} |->
                      IF x = "Creator" THEN c ELSE IF x = "Signer" THEN s ELSE f]

MsgPool == {
  CreateIdentityMsg(L(a1), cccd1),
  UpdateParamsMsg,
  SendMsg(L(a1), L(a2)),
  SendMsg(U(a1), U(a2)),
  SendMsg(InvalidText, L(a1)),
  MultiSendMsg(<<L(a1), L(a2)>>, <<L(a2)>>),
  MultiSendMsg(<<>>, <<L(a1)>>),
  LegacyMsg(<<a2, a1>>),
  CustomMsg(Fields(U(a1), NoField, NoField)),
  CustomMsg(Fields(Empty, L(a2), NoField)),
  CustomMsg(Fields(NoField, NoField, L(a2)))
}

MCTxSpace == BoundedSeq(MsgPool, 2)
MCHeights == {0, 7}
MCKeySets == SUBSET {L(a1), L(a2), U(a1)}

=============================================================================
