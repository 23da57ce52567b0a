---------------------------- MODULE GateDecision ----------------------------
(***************************************************************************)
(* What IdentityVerificationDecorator.AnteHandle promises, as one atomic  *)
(* decision: a transaction is forwarded at genesis height, in simulation, *)
(* or when every check of every non-exempt message passes; otherwise it   *)
(* is rejected with the FIRST failing check, in the order the checks are  *)
(* made: messages in transaction order, and within a message the signer  *)
(* resolution, then each signer, then each recipient.                     *)
(***************************************************************************)
EXTENDS AnteMessages

CONSTANTS
  TxSpace,      \* transactions (sequences of messages) the gate may be given
  Heights,      \* block heights, 0 being genesis
  KeySets       \* key sets the identity store may hold (subsets of AddrText)

VARIABLES
  tx,           \* tx.GetMsgs()
  height,       \* ctx.BlockHeight()
  simulate,     \* the simulate flag
  registered,   \* keys of the identity store (GetIdentity finds exactly these)
  outcome       \* Pending until decided

inputs == <<tx, height, simulate, registered>>

Init ==
  /\ tx \in TxSpace
  /\ height \in Heights
  /\ simulate \in BOOLEAN
  /\ registered \in KeySets
  /\ outcome = Pending

Decide ==
  /\ outcome = Pending
  /\ outcome' = Decision(tx, height, simulate, registered)
  /\ UNCHANGED inputs

Spec == Init /\ [][Decide]_<<inputs, outcome>> /\ WF_<<inputs, outcome>>(Decide)

=============================================================================
