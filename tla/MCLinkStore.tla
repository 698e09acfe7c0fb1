----------------------------- MODULE MCLinkStore ------------------------------
(* LinkStore for TLC: the sets of requests are symmetric, a cfg fixes the rest. *)
EXTENDS LinkStore, TLC

\* Requests, ids and workers are told apart only by what they do.
Symmetry == Permutations(Ids) \cup Permutations(Creates) \cup
            Permutations(Opens) \cup Permutations(Workers)

\* Budget sets a cfg cannot write down (a negative number).
OneTwoAny == {1, 2, Unlimited}
OneAny == {1, Unlimited}
OnlyAny == Unlimited
================================================================================
