--------------------------- MODULE MCAnchorClaims ---------------------------
(***************************************************************************)
(* Two operators, both of whom run discoveries, and two assets, alike; two *)
(* domains with an attestation URL each, and one contact, which the        *)
(* document of the first lists.                                            *)
(***************************************************************************)
EXTENDS AnchorClaims, TLC

CONSTANTS p1, p2, d1, d2, a1, a2, u1, u2, k1

const_DomainOf == k1 :> d1
const_Published == {<<d1, u1>>, <<d2, u2>>}
const_Listed == {k1}

\* nothing tells one operator, or one asset, from the other
Alike == Permutations({p1, p2}) \cup Permutations({a1, a2})
=============================================================================
