----------------------------- MODULE MCRespawn -----------------------------
(* A small instance of Respawn: the lines of respawn.conf.                  *)
EXTENDS Respawn

CONSTANTS getty, sshd
=============================================================================
