----------------------------- MODULE EbpfClaims --------------------------------
(* What comments and documents of the repository say of the eBPF backend and the *)
(* code does not do.  Each claim is checked by a run of its own that TLC must    *)
(* find violated; the README tells the counterexamples.                          *)
EXTENDS MCEbpfSession

EventLines == {i \in DOMAIN stdout : stdout[i].msg = "event"}

(* ebpf.rs:69-70: end marks are applied "after it drains the ring, so events     *)
(* captured during the call attribute to it".  An event captured while a call    *)
(* was open is reported with that call.                                          *)
CapturedInCallAttributed ==
  \A i \in EventLines : \A c \in stdout[i].tag.open : stdout[i].call = c

(* README.md:129-130: "execs from overlapping calls still get caught, but land   *)
(* in the ambient bucket".                                                       *)
OverlapLandsInAmbient ==
  \A i \in EventLines : Cardinality(stdout[i].tag.open) > 1 => stdout[i].bucket = "ambient"
================================================================================
