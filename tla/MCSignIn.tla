------------------------------ MODULE MCSignIn ------------------------------
(***************************************************************************)
(* SignIn for TLC: Ann's address in two spellings, Bob's in one.           *)
(***************************************************************************)
EXTENDS SignIn, TLC

CONSTANTS ann, bob, e1, e2, f1

MCPeople == {ann, bob}
MCEmails == {e1, e2, f1}
MCMailboxOf == (e1 :> ann) @@ (e2 :> ann) @@ (f1 :> bob)

Symmetry == Permutations(Requests) \cup Permutations({e1, e2})
=============================================================================
