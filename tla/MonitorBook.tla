------------------------------ MODULE MonitorBook ------------------------------
(* What a runtime monitor promises the fuzzer, whichever the implementation      *)
(* (SidecarRuntimeMonitor or FakeRuntimeMonitor of monitor.py): every event it    *)
(* is given is put aside once, under its call or as ambient, in order, and stays  *)
(* there until end_call hands the events of its call over, all of them, once.     *)
(* Nothing else, a restart of the sidecar included, removes or reorders events.   *)
EXTENDS Sequences, SequencesExt

CONSTANTS Calls, None   \* None: end_call of the call has not returned

VARIABLES
  filed,     \* the events put aside for each call
  ambient,   \* the events of no call
  handed     \* what end_call returned for each call

BookInit ==
  /\ filed = [c \in Calls |-> <<>>] /\ ambient = <<>>
  /\ handed = [c \in Calls |-> None]

GrowsByOne(q, r) == r # <<>> /\ q = Front(r)

File(c) ==
  /\ GrowsByOne(filed[c], filed'[c]) /\ filed' = [filed EXCEPT ![c] = filed'[c]]
  /\ UNCHANGED <<ambient, handed>>

FileAmbient == GrowsByOne(ambient, ambient') /\ UNCHANGED <<filed, handed>>

HandOver(c) ==
  /\ handed[c] = None
  /\ handed' = [handed EXCEPT ![c] = filed[c]]
  /\ filed' = [filed EXCEPT ![c] = <<>>]
  /\ UNCHANGED ambient

BookNext == (\E c \in Calls : File(c) \/ HandOver(c)) \/ FileAmbient

BookSpec == BookInit /\ [][BookNext]_<<filed, ambient, handed>>
================================================================================
