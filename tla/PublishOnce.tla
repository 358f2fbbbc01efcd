----------------------------- MODULE PublishOnce -----------------------------
(* What an Idempotency-Key promises: however often a publication is tried     *)
(* under one key, it is published at most once, and what was published stays. *)
CONSTANTS Key, Publication

VARIABLE published      \* the publications made under each key

Init == published = [k \in Key |-> {}]

Publish(k, p) ==
    /\ published[k] = {}
    /\ published' = [published EXCEPT ![k] = {p}]

Next == \E k \in Key, p \in Publication : Publish(k, p)

Spec == Init /\ [][Next]_published
=============================================================================
