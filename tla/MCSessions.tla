----------------------------- MODULE MCSessions -----------------------------
(***************************************************************************)
(* Names with and without upper-case letters, for checking Sessions.       *)
(***************************************************************************)
EXTENDS Sessions, TLC

CONSTANTS alice, Alice  \* a name in lower case, and as it may be typed

MCNames == {alice, Alice}
MCLower == [n \in MCNames |-> alice]

RequestSymmetry ==
    Permutations(Registers) \cup Permutations(Logins) \cup Permutations(Requests)
        \cup Permutations(Passwords)
=============================================================================
