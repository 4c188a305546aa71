------------------------------ MODULE ListClient ------------------------------
(* What the lists that have a sentinel at each end add to SetClient.       *)
EXTENDS SetClient

CONSTANTS Head, Tail    \* the sentinels

ASSUME ListClientAssumption ==
    /\ Head # Tail /\ Node \cap {Head, Tail} = {}
    /\ NULL \notin {Head, Tail}
    /\ NONE \notin BOOLEAN \union Operation

keyOf(n) == CASE n = Head -> KEY_MIN [] n = Tail -> KEY_MAX [] OTHER -> key[n]
=============================================================================
