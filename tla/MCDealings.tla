----------------------------- MODULE MCDealings -----------------------------
\* Values for the constants of Dealings that a configuration cannot write.
EXTENDS Dealings, TLC
CONSTANTS a, b, c, me, rival, stranger, noone
Owners == (a :> me) @@ (b :> rival) @@ (c :> noone)
Chats == {{me, rival, stranger}, {me, stranger}, {rival, stranger}}
==============================================================================
