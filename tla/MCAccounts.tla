----------------------------- MODULE MCAccounts -----------------------------
\* Two people behind one address, an e-mail address in two spellings and a
\* Sleeper user with two leagues.
EXTENDS Accounts, TLC
CONSTANTS x, X, l1, l2
MCLower == x :> x @@ X :> x
MCAtSleeper == <<l1, l2>>
=============================================================================
