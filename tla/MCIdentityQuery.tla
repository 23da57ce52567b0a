--------------------------- MODULE MCIdentityQuery --------------------------
(***************************************************************************)
(* Three keys, two IdHash values, page limits 0 (the default, here 2), 1  *)
(* and 2, every initial store, and creations between pages.               *)
(***************************************************************************)
EXTENDS IdentityQuery

\* Address bytes in key order; apart from positions 1..3.
MCKeys == {10, 20, 30}
MCInitKeys == SUBSET MCKeys

=============================================================================
