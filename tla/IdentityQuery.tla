---------------------------- MODULE IdentityQuery ---------------------------
(***************************************************************************)
(* The paginated queries of x/identity (src/x/identity/keeper/            *)
(* query_identity.go IdentityAll, query_identity_by_cccd_id.go             *)
(* IdentityByCccdId) followed by a client that walks every page, while    *)
(* blocks keep committing new identities between two page requests.       *)
(*                                                                         *)
(* Each request reads one committed store.  query.Paginate (cosmos-sdk)   *)
(* iterates the prefix store in key order and calls the handler's         *)
(* callback on each record of the page; IdentityAll keeps every record,   *)
(* IdentityByCccdId only those whose IdHash is the requested one, while   *)
(* the page limit counts the records iterated, kept or not.               *)
(***************************************************************************)
EXTENDS Naturals, Sequences, SequencesExt, FiniteSets

CONSTANTS
  Keys,          \* identity keys (address bytes), ordered as numbers
  Hashes,        \* IdHash values
  Limits,        \* page limits a client may ask for (0: the default)
  DefaultLimit,  \* query.DefaultLimit
  InitKeys,      \* key sets the store may hold when the scan starts
  All,           \* an IdentityAll scan (no IdHash filter)
  NoKey          \* a nil NextKey / request key

ASSUME Keys \subseteq Nat /\ InitKeys \subseteq SUBSET Keys
ASSUME DefaultLimit \in Nat \ {0} /\ Limits \subseteq Nat

VARIABLES
  store,     \* committed identity store: key -> IdHash
  mode,      \* "key": follow NextKey; "offset": advance the offset
  limit,     \* PageRequest.Limit
  filter,    \* All, or the IdHash of an IdentityByCccdId scan
  key,       \* PageRequest.Key of the next request
  offset,    \* PageRequest.Offset of the next request
  seen,      \* keys of the records returned so far, in order
  done,      \* the client got a nil NextKey
  startKeys, \* keys of the store when the scan started
  behind     \* a key was inserted at or before a key already returned

vars == <<store, mode, limit, filter, key, offset, seen, done, startKeys, behind>>

\* Mutant: a zero limit taken literally instead of as the default.
PageSizeNoDefault(lim) == lim

\* The number of records a page iterates: a zero limit means the default.
PageSize(lim) == IF lim = 0 THEN DefaultLimit ELSE lim

SortedKeys(s) == SetToSortSeq(DOMAIN s, <)

\* Mutant: NextKey set to the last key of the page (re-read, inclusive).
PaginateNextIsLast(sorted, k, off, lim) ==
  LET l     == PageSize(lim)
      items == IF k = NoKey THEN sorted ELSE SelectSeq(sorted, LAMBDA x : x >= k)
      start == IF k = NoKey THEN off ELSE 0
      last  == IF start + l < Len(items) THEN start + l ELSE Len(items)
  IN  [page |-> SubSeq(items, start + 1, last),
       next |-> IF start + l < Len(items) THEN items[start + l] ELSE NoKey]

\* Mutant: the page one record short of the limit (count < end).
PaginateShortPage(sorted, k, off, lim) ==
  LET l     == PageSize(lim)
      items == IF k = NoKey THEN sorted ELSE SelectSeq(sorted, LAMBDA x : x >= k)
      start == IF k = NoKey THEN off ELSE 0
      last  == IF start + l < Len(items) THEN start + l - 1 ELSE Len(items)
  IN  [page |-> SubSeq(items, start + 1, last),
       next |-> IF start + l < Len(items) THEN items[start + l + 1] ELSE NoKey]

\* Mutant: NextKey set to the position after the page, not the key there.
PaginateNextIsIndex(sorted, k, off, lim) ==
  LET l     == PageSize(lim)
      items == IF k = NoKey THEN sorted ELSE SelectSeq(sorted, LAMBDA x : x >= k)
      start == IF k = NoKey THEN off ELSE 0
      last  == IF start + l < Len(items) THEN start + l ELSE Len(items)
  IN  [page |-> SubSeq(items, start + 1, last),
       next |-> IF start + l < Len(items) THEN start + l + 1 ELSE NoKey]

(***************************************************************************)
(* query.Paginate over the sorted keys: with a request key, the page is   *)
(* the first lim keys from it on; without, the keys after the first       *)
(* "offset"; NextKey is the key after the page, if any.  A zero limit is  *)
(* the default limit.                                                      *)
(***************************************************************************)
Paginate(sorted, k, off, lim) ==
  LET l     == PageSize(lim)
      items == IF k = NoKey THEN sorted ELSE SelectSeq(sorted, LAMBDA x : x >= k)
      start == IF k = NoKey THEN off ELSE 0
      last  == IF start + l < Len(items) THEN start + l ELSE Len(items)
  IN  [page |-> SubSeq(items, start + 1, last),
       next |-> IF start + l < Len(items) THEN items[start + l + 1] ELSE NoKey]

\* The handlers' callbacks: IdentityAll keeps every record, IdentityByCccdId
\* those with identity.IdHash == req.IdHash.
Keep(s, f, k) == f = All \/ s[k] = f

Query(s, f, k, off, lim) ==
  LET p == Paginate(SortedKeys(s), k, off, lim)
  IN  [identity |-> SelectSeq(p.page, LAMBDA x : Keep(s, f, x)), next |-> p.next]

Init ==
  /\ \E ks \in InitKeys : store \in [ks -> Hashes]
  /\ mode \in {"key", "offset"}
  /\ limit \in Limits
  /\ filter \in {All} \cup Hashes
  /\ key = NoKey /\ offset = 0
  /\ seen = <<>> /\ done = FALSE
  /\ startKeys = DOMAIN store
  /\ behind = FALSE

\* A committed MsgCreateIdentity adds a record between two requests.
CreateIdentity(k, h) ==
  /\ ~done
  /\ k \notin DOMAIN store
  /\ store' = [x \in DOMAIN store \cup {k} |-> IF x = k THEN h ELSE store[x]]
  /\ behind' = (behind \/ \E i \in DOMAIN seen : k <= seen[i])
  /\ UNCHANGED <<mode, limit, filter, key, offset, seen, done, startKeys>>

\* One request and the client's reaction to its response.
RequestPage ==
  /\ ~done
  /\ LET r == Query(store, filter, key, offset, limit) IN
     /\ seen' = seen \o r.identity
     /\ done' = (r.next = NoKey)
     /\ key' = IF mode = "key" THEN r.next ELSE NoKey
     /\ offset' = IF mode = "offset" THEN offset + PageSize(limit) ELSE 0
  /\ UNCHANGED <<store, mode, limit, filter, startKeys, behind>>

Next ==
  \/ \E k \in Keys, h \in Hashes : CreateIdentity(k, h)
  \/ RequestPage

\* The client keeps requesting pages until it gets a nil NextKey.
Spec == Init /\ [][Next]_vars /\ WF_vars(RequestPage)

-----------------------------------------------------------------------------
TypeOK ==
  /\ DOMAIN store \subseteq Keys /\ \A k \in DOMAIN store : store[k] \in Hashes
  /\ key \in Keys \cup {NoKey}
  /\ seen \in Seq(Keys) /\ \A i \in DOMAIN seen : seen[i] \in DOMAIN store
  /\ done \in BOOLEAN /\ behind \in BOOLEAN

(***************************************************************************)
(* A scan misses nothing (spec 4.1, 8: the pages together return every    *)
(* record): once the client has a nil NextKey, every record present when  *)
(* the scan started and kept by the handler's callback has been returned, *)
(* whatever was committed between the pages.                              *)
(***************************************************************************)
ScanComplete ==
  done => \A k \in startKeys : Keep(store, filter, k) => \E i \in DOMAIN seen : seen[i] = k

(***************************************************************************)
(* No record is returned twice (spec 4.1: stable under concurrent appends *)
(* after the cursor position): always when the client follows NextKey,    *)
(* and with offsets as long as no record was inserted at or before a      *)
(* record already returned.                                                *)
(***************************************************************************)
NoDuplicates == (mode = "key" \/ ~behind) => IsInjective(seen)

(***************************************************************************)
(* Every scan ends: a client that keeps requesting pages eventually gets  *)
(* a nil NextKey, however many records are committed meanwhile (finitely  *)
(* many here).                                                             *)
(***************************************************************************)
ScanTerminates == <>done

=============================================================================
