---------------------------- MODULE MCVaultClients ----------------------------
(* Values for the constants of VaultClients. *)
EXTENDS VaultClients

CONSTANTS server, cli, r1, i1, token, key, none

MCNames == Runs \cup {Token}
MCValues == {Key} \cup Tokens
=============================================================================
