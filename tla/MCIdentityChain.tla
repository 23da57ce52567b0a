--------------------------- MODULE MCIdentityChain --------------------------
(***************************************************************************)
(* Two accounts, two CCCD ids and a pool of transactions that register,    *)
(* re-register and pay, alone and combined in one transaction, over       *)
(* InitChain and two blocks.                                               *)
(***************************************************************************)
EXTENDS IdentityChain

CONSTANTS a1, a2, c1, c2

L(a) == <<a, "lower">>
U(a) == <<a, "upper">>
Creator(t) == [x \in {"Creator", "Signer", "FromAddress"} |->
                 IF x = "Creator" THEN t ELSE NoField]

MCTxPool == {
  <<CreateIdentityMsg(L(a1), c1)>>,
  <<CreateIdentityMsg(L(a2), c1)>>,
  <<CreateIdentityMsg(L(a1), c2)>>,
  <<CreateIdentityMsg(L(a2), Empty)>>,
  <<CreateIdentityMsg(L(a1), c1), CreateIdentityMsg(L(a1), c2)>>,
  <<CreateIdentityMsg(L(a2), c2), SendMsg(L(a1), L(a2))>>,
  <<SendMsg(L(a1), L(a2))>>,
  <<SendMsg(L(a2), L(a1))>>,
  <<MultiSendMsg(<<L(a1)>>, <<L(a2)>>)>>,
  <<MultiSendMsg(<<L(a1), L(a2)>>, <<L(a1)>>)>>,
  <<CustomMsg(Creator(L(a1)))>>
}

\* Case variants of the same accounts, for the runs about address spelling.
MCTxPoolCase == MCTxPool \cup {
  <<CreateIdentityMsg(U(a2), c1)>>,
  <<SendMsg(L(a1), U(a2))>>
}

\* What clients submit to a node: two registrations and a payment.
MCCheckPool == {
  <<CreateIdentityMsg(L(a1), c1)>>,
  <<CreateIdentityMsg(L(a2), c2)>>,
  <<SendMsg(L(a1), L(a2))>>
}

MCGenesis == [k \in {} |-> 0]

=============================================================================
