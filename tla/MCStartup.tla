------------------------------ MODULE MCStartup ------------------------------
(***************************************************************************)
(* An instance of the start-up for TLC: two hosts to seed.                 *)
(***************************************************************************)
EXTENDS Startup

CONSTANTS h1, h2

TwoProfiles == <<h1, h2>>
=============================================================================
