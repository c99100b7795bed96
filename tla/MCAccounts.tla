----------------------------- MODULE MCAccounts -----------------------------
(* Instances of Accounts for TLC: people, and requests, are interchangeable. *)
EXTENDS Accounts, TLC

AccountSymmetry == Permutations(People) \cup Permutations(Requests)

\* What a request may ask for: the roles of two levels, both below the first user's.
SomeGrants == {{"admin"}, {"acl"}}
OneGrant == {{"acl"}}
=============================================================================
