-------------------------- MODULE MCClientBackoff --------------------------
(* A small instance of ClientBackoff: a command, and two services of a      *)
(* project that share a client.                                             *)
EXTENDS ClientBackoff

CONSTANTS ros, console, network
=============================================================================
