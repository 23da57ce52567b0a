---------------------------- MODULE IdentityKeeper ----------------------------
(***************************************************************************)
(* The x/identity keeper as its callers use it                            *)
(* (src/x/identity/keeper): the prefixed KV store of the module, with the  *)
(* four store accessors SetIdentity, GetIdentity, RemoveIdentity and      *)
(* GetAllIdentity, the CreateIdentity message handler and the single-     *)
(* record Identity query.  Each action is one call against the committed  *)
(* store.                                                                  *)
(*                                                                         *)
(* A store key is IdentityKey(address string), a value the protobuf       *)
(* encoding of the record as IdentityCodec writes it, over the bytes of   *)
(* the address and IdHash strings.  The caller passes the address string  *)
(* as it got it: a handler gets msg.Creator, a query req.Address.         *)
(***************************************************************************)
EXTENDS AnteMessages

CONSTANTS
  CreatorTexts,  \* msg.Creator strings that pass ValidateBasic
  QueryTexts,    \* req.Address strings of queries and removals
  Secrets,       \* msg.CccdId values
  Times,         \* values of time.Now().Unix()
  AddressBytes,  \* []byte(s) of each address string
  HexBytes       \* []byte(s) of the sha256 hex string of each CCCD id

ASSUME CreatorTexts \cup QueryTexts \subseteq AddrText
ASSUME AddressBytes \in [AddrText -> Seq(0..255)] /\ HexBytes \in [Secrets -> Seq(0..255)]

VARIABLES
  kv,    \* the identity prefix store: key -> encoded record
  resp   \* the answer of the last call

vars == <<kv, resp>>

\* types.IdentityKey: the address bytes followed by "/".
IdentityKey(address) == <<address, "/">>

Codec == INSTANCE IdentityCodec

\* fmt.Sprintf("%x", sha256.Sum256([]byte(cccd)))
IdHash(cccd) == [sha256hex |-> cccd]

\* string(b): the string whose bytes f gives as b; junk when there is none.
StringOf(f, b, junk) == IF \E x \in DOMAIN f : f[x] = b THEN CHOOSE x \in DOMAIN f : f[x] = b ELSE junk

\* cdc.MustMarshal of types.Identity: [err, bytes] of Identity.Marshal.
Marshal(identity) ==
  Codec!Marshal([address |-> AddressBytes[identity.address],
                 idHash |-> HexBytes[identity.idHash.sha256hex],
                 createdAt |-> identity.createdAt])

\* The values SetIdentity can write, each decoded once by Identity.Unmarshal.
Encodings ==
  {Marshal(id).bytes : id \in [address : CreatorTexts, idHash : {IdHash(c) : c \in Secrets},
                               createdAt : Times]}
Decoding == [b \in Encodings |-> Codec!Unmarshal(b)]

\* cdc.MustUnmarshal into a types.Identity: the decoded fields as strings.
Unmarshal(b) ==
  LET m == (IF b \in Encodings THEN Decoding[b] ELSE Codec!Unmarshal(b)).msg
  IN  [address |-> StringOf(AddressBytes, m.address, InvalidText),
       idHash |-> IdHash(StringOf(HexBytes, m.idHash, InvalidText)),
       createdAt |-> m.createdAt]

\* Mutant: the record stored under its bare address, not IdentityKey(address).
SetIdentityRawKey(s, identity) ==
  [k \in DOMAIN s \cup {identity.address} |->
     IF k = identity.address THEN Marshal(identity).bytes ELSE s[k]]

\* SetIdentity: store.Set(IdentityKey(identity.Address), MustMarshal(identity))
SetIdentity(s, identity) ==
  [k \in DOMAIN s \cup {IdentityKey(identity.address)} |->
     IF k = IdentityKey(identity.address) THEN Marshal(identity).bytes ELSE s[k]]

\* GetIdentity: the decoded record under IdentityKey(address), as the set
\* {val} when found and {} when store.Get returns nil.
GetIdentity(s, address) ==
  {Unmarshal(s[k]) : k \in {IdentityKey(address)} \cap DOMAIN s}

\* Mutant: the delete given the address without its IdentityKey encoding.
RemoveIdentityRawKey(s, address) == [k \in DOMAIN s \ {address} |-> s[k]]

\* RemoveIdentity: store.Delete(IdentityKey(address))
RemoveIdentity(s, address) == [k \in DOMAIN s \ {IdentityKey(address)} |-> s[k]]

\* GetAllIdentity: every value of the prefix, decoded.
GetAllIdentity(s) == {Unmarshal(s[k]) : k \in DOMAIN s}

Answer(kind, val) == [kind |-> kind, val |-> val]

(***************************************************************************)
(* msgServer.CreateIdentity: ErrInvalidRequest "address already has an     *)
(* identity" when GetIdentity finds msg.Creator, else SetIdentity of a     *)
(* fresh record; a panic of its MustMarshal aborts the handler, and the  *)
(* transaction with it, leaving the store as it was.                      *)
(***************************************************************************)
CreateIdentity(s, msg, now) ==
  LET identity == [address |-> msg.creator, idHash |-> IdHash(msg.cccdId), createdAt |-> now]
  IN  IF GetIdentity(s, msg.creator) # {}
      THEN [resp |-> Answer("AlreadyRegistered", {}), store |-> s]
      ELSE IF Marshal(identity).err # Codec!Ok
      THEN [resp |-> Answer("panic", {}), store |-> s]
      ELSE [resp |-> Answer("ok", {}), store |-> SetIdentity(s, identity)]

\* Keeper.Identity: codes.NotFound when GetIdentity(req.Address) finds nothing.
QueryIdentity(s, address) ==
  IF GetIdentity(s, address) = {} THEN Answer("NotFound", {})
  ELSE Answer("found", GetIdentity(s, address))

Init == kv = [k \in {} |-> 0] /\ resp = Answer("none", {})

CallCreate(creator, secret, now) ==
  LET r == CreateIdentity(kv, CreateIdentityMsg(creator, secret), now)
  IN  kv' = r.store /\ resp' = r.resp

CallGet(address) == resp' = QueryIdentity(kv, address) /\ UNCHANGED kv

CallRemove(address) == kv' = RemoveIdentity(kv, address) /\ resp' = Answer("ok", {})

CallList == resp' = Answer("list", GetAllIdentity(kv)) /\ UNCHANGED kv

Next ==
  \/ \E c \in CreatorTexts, s \in Secrets, t \in Times : CallCreate(c, s, t)
  \/ \E a \in QueryTexts : CallGet(a) \/ CallRemove(a)
  \/ CallList

Spec == Init /\ [][Next]_vars

-----------------------------------------------------------------------------
(***************************************************************************)
(* Every value of the prefix store decodes to a record whose address is   *)
(* the one its key was built from (SetIdentity keys by the address), so   *)
(* GetIdentity(a) returns the record of a.                                 *)
(***************************************************************************)
TypeOK ==
  /\ DOMAIN kv \subseteq {IdentityKey(a) : a \in AddrText}
  /\ \A k \in DOMAIN kv : k = IdentityKey(Unmarshal(kv[k]).address)
  /\ \A k \in DOMAIN kv : Unmarshal(kv[k]).address \in CreatorTexts
  /\ resp.kind \in {"none", "ok", "AlreadyRegistered", "NotFound", "found", "list"}

(***************************************************************************)
(* Every value the keeper has stored is the canonical protobuf encoding   *)
(* of a record: Identity.Unmarshal reads it without error, and            *)
(* Identity.Marshal of what it read writes the very same bytes, so Size   *)
(* and MarshalToSizedBuffer agree on its length.  A stored value that     *)
(* does not decode would make every later GetIdentity of its address, and *)
(* so every gate check of that address, panic in MustUnmarshal.           *)
(***************************************************************************)
EncodingRoundTrips ==
  \A k \in DOMAIN kv :
     LET d == Codec!Unmarshal(kv[k])
     IN  d.err = Codec!Ok /\ Codec!Marshal(d.msg) = [err |-> Codec!Ok, bytes |-> kv[k]]

(***************************************************************************)
(* The keeper implements the registry of the specification: the records  *)
(* of the store, under the normalized addresses, are the registry's, and  *)
(* every call answers what Create, Get, Remove and List promise, with      *)
(* addresses normalized before lookup.                                     *)
(***************************************************************************)
AbsEntry(id) == [address |-> Normalize(id.address), idHash |-> id.idHash, createdAt |-> id.createdAt]

Stored == {Unmarshal(kv[k]) : k \in DOMAIN kv}

AbsRecords ==
  [a \in {Normalize(id.address) : id \in Stored} |->
     LET id == CHOOSE id \in Stored : Normalize(id.address) = a
     IN  [idHash |-> id.idHash, createdAt |-> id.createdAt]]

Reg == INSTANCE IdentityRegistry
         WITH records <- AbsRecords,
              resp <- Answer(resp.kind, {AbsEntry(id) : id \in resp.val})

ImplementsRegistry == Reg!RSpec

=============================================================================
