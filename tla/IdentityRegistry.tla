--------------------------- MODULE IdentityRegistry ---------------------------
(***************************************************************************)
(* What the identity registry promises its callers: a map from the        *)
(* normalized account address to one record {IdHash, CreatedAt}, with    *)
(* Create (fails without change when the address has a record), Get,     *)
(* Remove and List.  Every operation leaves its answer in "resp": a kind  *)
(* and the set of entries it returns.                                      *)
(* Addresses are given here already normalized.                           *)
(***************************************************************************)
EXTENDS AnteMessages

CONSTANTS
  Secrets,   \* external identity-document references
  Times      \* values of "now"

VARIABLES
  records,   \* normalized address -> [idHash, createdAt]
  resp       \* the answer to the last operation

regVars == <<records, resp>>

\* hex(SHA-256(secret))
Digest(secret) == [sha256hex |-> secret]

Entry(a) == [address |-> a, idHash |-> records[a].idHash, createdAt |-> records[a].createdAt]

Answer(kind, val) == [kind |-> kind, val |-> val]

RInit == records = [a \in {} |-> 0] /\ resp = Answer("none", {})

RCreate(a, secret, now) ==
  IF a \in DOMAIN records
  THEN resp' = Answer("AlreadyRegistered", {}) /\ UNCHANGED records
  ELSE /\ records' = records @@ (a :> [idHash |-> Digest(secret), createdAt |-> now])
       /\ resp' = Answer("ok", {})

RGet(a) ==
  /\ resp' = IF a \in DOMAIN records THEN Answer("found", {Entry(a)}) ELSE Answer("NotFound", {})
  /\ UNCHANGED records

RRemove(a) ==
  /\ records' = [x \in DOMAIN records \ {a} |-> records[x]]
  /\ resp' = Answer("ok", {})

RList ==
  /\ resp' = Answer("list", {Entry(a) : a \in DOMAIN records})
  /\ UNCHANGED records

RNext ==
  \/ \E a \in {AccString(x) : x \in Accounts}, s \in Secrets, t \in Times : RCreate(a, s, t)
  \/ \E a \in {AccString(x) : x \in Accounts} : RGet(a) \/ RRemove(a)
  \/ RList

RSpec == RInit /\ [][RNext]_regVars

=============================================================================
