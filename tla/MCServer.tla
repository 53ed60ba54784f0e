------------------------------ MODULE MCServer -------------------------------
(* A small instance of Server for TLC: two requests of one client.             *)
EXTENDS Server

CONSTANTS r1, r2, alice

MCReqs == {r1, r2}
MCClients == {alice}
MCClientOf == [r \in MCReqs |-> alice]
=============================================================================
