--------------------------- MODULE MCIdentityKeeper ---------------------------
(* The keeper for TLC: two accounts and two CCCD ids.  Creators are the   *)
(* lowercase strings AccAddress.String() produces; queries and removals   *)
(* take every spelling Forms allows.                                       *)
EXTENDS IdentityKeeper

CONSTANTS a1, a2, c1, c2

MCCreatorTexts == {AccString(a) : a \in Accounts}
MCQueryTexts == AddrText

\* The bytes of the 46-character bech32 address strings and of the
\* 64-character sha256 hex strings, told apart by their last byte.
MCAddressBytes == [t \in AddrText |-> [i \in 1..46 |-> IF i < 46 THEN 113 ELSE IF t[1] = a1 THEN 97 ELSE 98]]
MCHexBytes == [c \in Secrets |-> [i \in 1..64 |-> IF i < 64 THEN 48 ELSE IF c = c1 THEN 49 ELSE 50]]
=============================================================================
