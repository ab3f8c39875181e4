----------------------------- MODULE MCReminder -----------------------------
(***************************************************************************)
(* Reminder on a small instance.  A user reaches the limit of one pending  *)
(* reminder, waits are longer than two chunks of setTimeout, the process   *)
(* stops once with timers and sends outstanding.                           *)
(***************************************************************************)
EXTENDS Reminder

CONSTANTS u1, u2, g1, g2

MCUsers == {u1, u2}
MCGuilds == {g1, g2}
=============================================================================
