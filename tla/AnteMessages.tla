---------------------------- MODULE AnteMessages ----------------------------
(***************************************************************************)
(* Addresses, message shapes and the address extraction of the identity    *)
(* ante decorator (src/app/ante/ante.go).  Everything here is a pure       *)
(* operator: extraction never consults the registry.                      *)
(*                                                                         *)
(* An address string is abstracted to the account it denotes and the      *)
(* letter case it is written in: bech32 decoding accepts an all-lowercase  *)
(* and an all-uppercase string for the same account, and re-encoding      *)
(* (AccAddress.String) always yields the lowercase one.  InvalidText is a  *)
(* string that does not decode, Empty is the empty string.                 *)
(***************************************************************************)
EXTENDS Naturals, Sequences, SequencesExt

CONSTANTS
  Accounts,     \* accounts (20-byte addresses)
  Forms,        \* letter cases a bech32 string may be written in
  InvalidText,  \* a string that is not a bech32 address
  Empty,        \* the empty string ""
  NoField       \* a message struct without the reflected field

ASSUME Forms \subseteq {"lower", "upper"} /\ "lower" \in Forms

AddrText == Accounts \X Forms
Texts    == AddrText \cup {InvalidText}

\* sdk.MustAccAddressFromBech32: decodes either case, panics otherwise.
Decodes(t) == t \in AddrText

\* AccAddress.String(): the canonical lowercase bech32 encoding.
AccString(a) == <<a, "lower">>

\* MustAccAddressFromBech32(t).String()
Normalize(t) == AccString(t[1])

(***************************************************************************)
(* Message shapes.                                                         *)
(*   Legacy  : a message implementing GetSigners() []sdk.AccAddress       *)
(*   Custom  : any other module message, inspected by reflection          *)
(* "fields" gives the value of each reflected field, NoField where the    *)
(* struct has none: MsgCreateIdentity has Creator only, MsgUpdateParams   *)
(* (Authority, Params) none of the three.                                 *)
(***************************************************************************)
FieldNames == <<"Creator", "Signer", "FromAddress">>
FieldValues == Texts \cup {Empty, NoField}
NoFields == [f \in {"Creator", "Signer", "FromAddress"} |-> NoField]

CreateIdentityMsg(creator, cccd) ==
  [type |-> "MsgCreateIdentity", creator |-> creator, cccdId |-> cccd,
   fields |-> [NoFields EXCEPT !["Creator"] = creator]]
UpdateParamsMsg == [type |-> "MsgUpdateParams", fields |-> NoFields]
SendMsg(from, to) == [type |-> "MsgSend", from |-> from, to |-> to]
MultiSendMsg(ins, outs) == [type |-> "MsgMultiSend", inputs |-> ins, outputs |-> outs]
LegacyMsg(signers) == [type |-> "Legacy", getSigners |-> signers]
CustomMsg(fields) == [type |-> "Custom", fields |-> fields]

\* The proto package a message is declared in: x/identity's messages are
\* registered under "nexelra.identity", the bank messages under
\* "cosmos.bank.v1beta1".
ProtoPackage(m) ==
  CASE m.type \in {"MsgCreateIdentity", "MsgUpdateParams"} -> "nexelra.identity"
    [] m.type \in {"MsgSend", "MsgMultiSend"}              -> "cosmos.bank.v1beta1"
    [] OTHER                                               -> "other.module"

\* sdk.MsgTypeURL(msg): "/" and the full proto name, as the two tokens
\* <<package, message name>>.
MsgTypeURL(m) == <<ProtoPackage(m), m.type>>

\* The literals isIdentityModuleMsg compares the type URL with:
\* "/Nexelra.identity.MsgCreateIdentity", "/Nexelra.identity.MsgUpdateParams".
identityMsgTypes ==
  {<<"Nexelra.identity", "MsgCreateIdentity">>, <<"Nexelra.identity", "MsgUpdateParams">>}

\* isIdentityModuleMsg(msgType): exact string comparison with the table.
isIdentityModuleMsg(msgType) == msgType \in identityMsgTypes

\* extractCreatorFromMessage: the first of Creator, Signer, FromAddress that
\* the struct has as a string field, whatever its value (even "").
extractCreatorFromMessage(m) ==
  LET k == SelectInSeq(FieldNames, LAMBDA f : m.fields[f] # NoField)
  IN  IF k = 0 THEN Empty ELSE m.fields[FieldNames[k]]

(***************************************************************************)
(* The signer extraction of AnteHandle: a record whose "panic" is TRUE    *)
(* when MustAccAddressFromBech32 panics on one of the strings, and whose  *)
(* "addrs" is the ordered sequence of signer.String() values otherwise.   *)
(***************************************************************************)
Panic == [panic |-> TRUE, addrs |-> <<>>]
Signers(seq) == [panic |-> FALSE, addrs |-> seq]
DecodeAll(texts) ==
  IF \A k \in DOMAIN texts : Decodes(texts[k])
  THEN Signers([k \in DOMAIN texts |-> Normalize(texts[k])])
  ELSE Panic

ExtractSigners(m) ==
  CASE m.type = "Legacy"       -> Signers([k \in DOMAIN m.getSigners |-> AccString(m.getSigners[k])])
    [] m.type = "MsgSend"      -> DecodeAll(<<m.from>>)
    [] m.type = "MsgMultiSend" -> DecodeAll(m.inputs)
    [] OTHER ->
         LET c == extractCreatorFromMessage(m)
         IN  IF c = Empty THEN Signers(<<>>) ELSE DecodeAll(<<c>>)

\* Mutant: the MsgMultiSend case of extractRecipients forgotten.
extractRecipientsNoMultiSend(m) ==
  CASE m.type = "MsgSend" -> <<m.to>>
    [] OTHER              -> <<>>

\* extractRecipients: the raw destination strings of the two bank shapes.
extractRecipients(m) ==
  CASE m.type = "MsgSend"      -> <<m.to>>
    [] m.type = "MsgMultiSend" -> m.outputs
    [] OTHER                   -> <<>>

(***************************************************************************)
(* The verdict of AnteHandle as one function of its inputs: forwarded at  *)
(* genesis height, in simulation, or when every check of every           *)
(* non-exempt message passes; otherwise the FIRST failing check, in the   *)
(* order AnteHandle makes them.                                            *)
(***************************************************************************)
Pending  == [verdict |-> "pending"]
Admitted == [verdict |-> "next"]
Rejected(reason, addr) == [verdict |-> "error", reason |-> reason, addr |-> addr]
Outcomes ==
  {Admitted} \cup
  {Rejected(r, a) : r \in {"NoSigners", "Panic"}, a \in {Empty}} \cup
  {Rejected(r, a) : r \in {"UnregisteredSigner", "UnregisteredRecipient"},
                    a \in Texts \cup {Empty}}

\* The checks one message causes, in the order AnteHandle makes them.
MsgChecks(m) ==
  IF isIdentityModuleMsg(MsgTypeURL(m)) THEN <<>>
  ELSE LET s == ExtractSigners(m) IN
       IF s.panic THEN <<Rejected("Panic", Empty)>>
       ELSE IF s.addrs = <<>> THEN <<Rejected("NoSigners", Empty)>>
       ELSE [k \in DOMAIN s.addrs |-> Rejected("UnregisteredSigner", s.addrs[k])]
            \o [k \in DOMAIN extractRecipients(m) |->
                   Rejected("UnregisteredRecipient", extractRecipients(m)[k])]

Fails(check, reg) ==
  check.reason \in {"NoSigners", "Panic"} \/ check.addr \notin reg

\* The first check of a sequence that fails against the store's keys.
RECURSIVE FirstFailure(_, _)
FirstFailure(checks, reg) ==
  IF checks = <<>> THEN Admitted
  ELSE IF Fails(Head(checks), reg) THEN Head(checks)
  ELSE FirstFailure(Tail(checks), reg)

Decision(t, h, sim, reg) ==
  IF h = 0 \/ sim THEN Admitted
  ELSE FirstFailure(FlattenSeq([i \in DOMAIN t |-> MsgChecks(t[i])]), reg)

=============================================================================
