--------------------------- MODULE MCMisskeyLink ---------------------------
(***************************************************************************)
(* MisskeyLink with two guilds and three notes, each note tagged for       *)
(* another set of guilds: both, the one, the other.  The process stops     *)
(* twice, so also while it recovers, and the stream is cut once.           *)
(***************************************************************************)
EXTENDS MisskeyLink

CONSTANTS g1, g2

MCGuilds == {g1, g2}
MCTagged == [n \in 1 .. MaxNote |-> CASE n % 3 = 1 -> {g1, g2}
                                      [] n % 3 = 2 -> {g1}
                                      [] OTHER -> {g2}]
=============================================================================
