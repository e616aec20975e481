------------------------------ MODULE KernelRing -------------------------------
(* The BPF program of crates/mcpfz-probe-ebpf: each tracepoint reserves a record *)
(* in the ring buffer, fills it and submits it.  The tracepoints run on every    *)
(* CPU, so other records can be reserved before one is submitted.  A record      *)
(* keeps its place from reserve to release; the consumer stops at the first      *)
(* record that is not submitted yet.  When the ring is full, reserve fails and   *)
(* the program returns: the syscall is not captured and nothing counts it.       *)
(*                                                                               *)
(* The capacity is a number of records (the code's is 256 KiB).                  *)
EXTENDS SidecarProtocol

CONSTANT RingCap
ASSUME RingCapAssumption == RingCap \in Nat \ {0}

VARIABLE ring   \* EVENTS, oldest record first

(* `usable` is FALSE for a record decode() rejects, such as the address of a     *)
(* connect that is neither IPv4 nor IPv6.                                        *)
Record == [pid : Procs, usable : BOOLEAN, ready : BOOLEAN, tag : Tag]

KernelInit == ring = <<>>

Reserve(p, usable, tag) ==
  /\ Len(ring) < RingCap
  /\ ring' = Append(ring, [pid |-> p, usable |-> usable, ready |-> FALSE, tag |-> tag])

ReserveFails == Len(ring) = RingCap /\ UNCHANGED ring

Submit(i, tag) ==
  /\ ~ring[i].ready
  /\ ring' = [ring EXCEPT ![i].ready = TRUE, ![i].tag = Throughout(@, tag)]

(* RingBuf::next of the loader: a record is there and it is submitted.           *)
HasNext == ring # <<>> /\ Head(ring).ready

KernelTypeOK == ring \in Seq(Record) /\ Len(ring) <= RingCap
================================================================================
