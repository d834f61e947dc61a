------------------------------ MODULE MCDaemon ------------------------------
(* A small instance of Daemon: two controllers.  Nothing is symmetric, and  *)
(* every value of the file occurs.                                          *)
EXTENDS Daemon
=============================================================================
