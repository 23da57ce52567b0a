---------------------------- MODULE IdentityGate ----------------------------
(***************************************************************************)
(* IdentityVerificationDecorator.AnteHandle (src/app/ante/ante.go), one   *)
(* invocation, step by step: the bypasses, the loop over messages, the    *)
(* inner loops over signers and recipients with one store lookup per      *)
(* step, and the early returns.  The registry is read-only to the gate,   *)
(* so its keys are an input fixed for the invocation.                     *)
(***************************************************************************)
EXTENDS AnteMessages

CONSTANTS TxSpace, Heights, KeySets

VARIABLES
  tx, height, simulate, registered,   \* the inputs, as in GateDecision
  pc,        \* "start", "msgs", "signers", "recipients", "done"
  i,         \* index of the message being processed
  j,         \* index into addrs
  addrs,     \* the signer or recipient list of message i
  outcome    \* Pending, then the returned error or the call of next

inputs == <<tx, height, simulate, registered>>
vars   == <<inputs, pc, i, j, addrs, outcome>>

Init ==
  /\ tx \in TxSpace
  /\ height \in Heights
  /\ simulate \in BOOLEAN
  /\ registered \in KeySets
  /\ pc = "start" /\ i = 0 /\ j = 0 /\ addrs = <<>>
  /\ outcome = Pending

Return(o) == pc' = "done" /\ outcome' = o

\* if ctx.BlockHeight() == 0 { return next(...) }
GenesisBypass ==
  /\ pc = "start" /\ height = 0
  /\ Return(Admitted) /\ UNCHANGED <<inputs, i, j, addrs>>

\* if simulate { return next(...) }
SimulateBypass ==
  /\ pc = "start" /\ height # 0 /\ simulate
  /\ Return(Admitted) /\ UNCHANGED <<inputs, i, j, addrs>>

\* if len(msgs) == 0 { return next(...) }
EmptyTx ==
  /\ pc = "start" /\ height # 0 /\ ~simulate /\ tx = <<>>
  /\ Return(Admitted) /\ UNCHANGED <<inputs, i, j, addrs>>

BeginMsgs ==
  /\ pc = "start" /\ height # 0 /\ ~simulate /\ tx # <<>>
  /\ pc' = "msgs" /\ i' = 1
  /\ UNCHANGED <<inputs, j, addrs, outcome>>

\* "if isIdentityModuleMsg(msgType) { continue }" has no action: the type URL
\* of a message never equals a literal of the table (see AnteMessages), so
\* every message goes on to signer extraction.
\* signer extraction, and the len(signers) == 0 early return; a panic of
\* MustAccAddressFromBech32 aborts the call (baseapp recovers it as an error)
ExtractMsgSigners ==
  /\ pc = "msgs" /\ i <= Len(tx) /\ ~isIdentityModuleMsg(MsgTypeURL(tx[i]))
  /\ LET s == ExtractSigners(tx[i]) IN
     \/ s.panic /\ Return(Rejected("Panic", Empty)) /\ UNCHANGED <<j, addrs>>
     \/ ~s.panic /\ s.addrs = <<>>
        /\ Return(Rejected("NoSigners", Empty)) /\ UNCHANGED <<j, addrs>>
     \/ ~s.panic /\ s.addrs # <<>>
        /\ pc' = "signers" /\ j' = 1 /\ addrs' = s.addrs
        /\ UNCHANGED outcome
  /\ UNCHANGED <<inputs, i>>

\* _, found := GetIdentity(ctx, signer.String())
SignerFound ==
  /\ pc = "signers" /\ j <= Len(addrs) /\ addrs[j] \in registered
  /\ j' = j + 1
  /\ UNCHANGED <<inputs, pc, i, addrs, outcome>>

SignerMissing ==
  /\ pc = "signers" /\ j <= Len(addrs) /\ addrs[j] \notin registered
  /\ Return(Rejected("UnregisteredSigner", addrs[j]))
  /\ UNCHANGED <<inputs, i, j, addrs>>

\* Mutant: the recipient loop left out, straight on to the next message.
SignersDoneSkipRecipients ==
  /\ pc = "signers" /\ j > Len(addrs)
  /\ pc' = "msgs" /\ i' = i + 1
  /\ UNCHANGED <<inputs, j, addrs, outcome>>

\* recipients := d.extractRecipients(ctx, msg, msgType)
SignersDone ==
  /\ pc = "signers" /\ j > Len(addrs)
  /\ pc' = "recipients" /\ j' = 1 /\ addrs' = extractRecipients(tx[i])
  /\ UNCHANGED <<inputs, i, outcome>>

\* _, found := GetIdentity(ctx, recipientAddr)
RecipientFound ==
  /\ pc = "recipients" /\ j <= Len(addrs) /\ addrs[j] \in registered
  /\ j' = j + 1
  /\ UNCHANGED <<inputs, pc, i, addrs, outcome>>

RecipientMissing ==
  /\ pc = "recipients" /\ j <= Len(addrs) /\ addrs[j] \notin registered
  /\ Return(Rejected("UnregisteredRecipient", addrs[j]))
  /\ UNCHANGED <<inputs, i, j, addrs>>

\* Mutant: the message index advanced twice at the end of a message.
RecipientsDoneSkipMsg ==
  /\ pc = "recipients" /\ j > Len(addrs)
  /\ pc' = "msgs" /\ i' = i + 2
  /\ UNCHANGED <<inputs, j, addrs, outcome>>

RecipientsDone ==
  /\ pc = "recipients" /\ j > Len(addrs)
  /\ pc' = "msgs" /\ i' = i + 1
  /\ UNCHANGED <<inputs, j, addrs, outcome>>

\* the loop ends: return next(ctx, tx, simulate)
AllPassed ==
  /\ pc = "msgs" /\ i > Len(tx)
  /\ Return(Admitted) /\ UNCHANGED <<inputs, i, j, addrs>>

Next ==
  \/ GenesisBypass \/ SimulateBypass \/ EmptyTx \/ BeginMsgs
  \/ ExtractMsgSigners \/ AllPassed
  \/ SignerFound \/ SignerMissing \/ SignersDone
  \/ RecipientFound \/ RecipientMissing \/ RecipientsDone

\* AnteHandle is a synchronous call that runs to completion.
Spec == Init /\ [][Next]_vars /\ WF_vars(Next)

-----------------------------------------------------------------------------
TypeOK ==
  /\ pc \in {"start", "msgs", "signers", "recipients", "done"}
  /\ i \in 0..(Len(tx) + 1)
  /\ addrs \in Seq(Texts)
  /\ outcome \in Outcomes \cup {Pending}

(***************************************************************************)
(* Refinement: the step-by-step AnteHandle, seen only through its inputs  *)
(* and its result, is the atomic GateDecision: every invocation ends, and *)
(* it forwards or rejects with exactly the first failing check (so no     *)
(* signer of a later message, and no recipient before the signers of its *)
(* message, is ever the reported cause).                                   *)
(***************************************************************************)
(***************************************************************************)
(* A registered account is never refused as a recipient (spec 3, 6:       *)
(* addresses are normalized before lookup): when AnteHandle rejects with  *)
(* UnregisteredRecipient, the account that string denotes has no record  *)
(* under its canonical address.                                            *)
(***************************************************************************)
RecipientRefusedOnlyIfUnregistered ==
  pc = "done" /\ outcome.verdict = "error" /\ outcome.reason = "UnregisteredRecipient"
  /\ Decodes(outcome.addr)
  => Normalize(outcome.addr) \notin registered

Decided == IF pc = "done" THEN outcome ELSE Pending
GateSpec == INSTANCE GateDecision WITH outcome <- Decided
ImplementsGateDecision == GateSpec!Spec

=============================================================================
