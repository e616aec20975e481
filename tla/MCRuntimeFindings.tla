--------------------------- MODULE MCRuntimeFindings ---------------------------
(* A small instance of RuntimeFindings for TLC.                                  *)
EXTENDS RuntimeFindings

(* Each access mode (reading with a bit above the int, O_RDWR with O_EXCL); each    *)
(* flag that makes an open a write, alone; O_PATH.                               *)
OpenFlags == {{33}, {0}, {1, 7}, {0, 1}, {6}, {9}, {10}, {1, 21}}

(* A script with an event that brings its own call.                              *)
Beacon(c) ==
  LET s == [kind |-> "connect", name |-> "outside", arg |-> {}] IN Event(s, s, c, "allowed", "allowed")
Script == <<Beacon(CHOOSE c \in Calls : TRUE)>>
================================================================================
