--------------------------- MODULE MCUserManager ---------------------------
(* A few users, tokens and connections for TLC. *)
EXTENDS UserManager, TLC

CONSTANTS ali, pouya, morad, t1, t2, t3

MCUsernames == {ali, pouya, morad}
MCTokens == {t1, t2, t3}
MCSymmetry == Permutations(Usernames) \cup Permutations(Tokens)
=============================================================================
