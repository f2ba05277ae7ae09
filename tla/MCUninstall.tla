---------------------------- MODULE MCUninstall ----------------------------
(* Uninstall with two attempts: anybody's, and one from a command line.    *)
EXTENDS Uninstall

Request(by, purge) == [by |-> by, purge |-> purge]

MCAttempts == 1 .. 2
MCRequests ==
  [a \in MCAttempts |->
     IF a = 1 THEN {Request("command", FALSE), Request("tui", TRUE), Request("desktop", FALSE)}
     ELSE {Request("command", FALSE)}]
=============================================================================
