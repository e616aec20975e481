----------------------------- MODULE EbpfSession -------------------------------
(* The eBPF backend closed with the loosest client and kernel it can meet: a     *)
(* client that writes control lines in any order its discipline allows, tasks    *)
(* that make traced syscalls, exit and change group at any time.  Nobody reads   *)
(* stdout, so that it is the history of everything the sidecar ever reported.    *)
EXTENDS EbpfSidecar

CONSTANTS
  MaxEvents,  \* bound: event lines written plus records in the ring
  Messages,   \* the control messages the client may write, each at most once
  Syscalls,   \* the syscalls tasks make: a process, and whether decode() accepts the record
  Movers,     \* processes that exit, appear or change group while the probe runs
  Overlap     \* FALSE: one call at a time, and the client waits for both acknowledgements

ASSUME SessionAssumption ==
  /\ MaxEvents \in Nat /\ Overlap \in BOOLEAN
  /\ Messages \subseteq Control
  /\ Syscalls \subseteq Procs \X BOOLEAN
  /\ Movers \subseteq Procs

VARIABLE sent   \* the control messages written so far, each at most once

vars == <<controlVars, stdout, state, mainVars, ring, processes, sent>>

Init == SidecarInit /\ pgrp \in [Procs -> MaybeGroup] /\ sent = {}

--------------------------------------------------------------------------------
(* What the client has seen of a call.                                           *)
Confirmed(c) == Contains(stdout, BeginLine(c))
Answered(c)  == Contains(stdout, EndLine(c))

OpenCalls == {c \in Calls : Confirmed(c) /\ End(c) \notin sent}
Edge      == \E c \in Calls \ OpenCalls : Begin(c) \in sent /\ ~Answered(c)
Now       == [open |-> OpenCalls, edge |-> Edge]

(* SidecarRuntimeMonitor with one caller and no timeout: begin_call returns once *)
(* the begin status was read, end_call once the end status was.                  *)
Serial(m) ==
  /\ m.op = "begin" => m.arg # NoCall /\ \A c \in Calls : Begin(c) \in sent => Answered(c)
  /\ m.op = "end"   => Confirmed(m.arg)

(* A call id is begun once (ids are fresh) and ended only after it was begun.    *)
ClientSend(m) ==
  /\ m \notin sent /\ Shutdown \notin sent
  /\ m.op = "end" /\ m.arg # NoCall => Begin(m.arg) \in sent
  /\ Overlap \/ Serial(m)
  /\ stdin' = Append(stdin, m) /\ sent' = sent \cup {m}
  /\ UNCHANGED <<stdout, state, shutdown, cpc, status, mainVars, ring, processes>>

--------------------------------------------------------------------------------
(* A full ring (ReserveFails) changes nothing here.                              *)
EventCount == Cardinality({i \in DOMAIN stdout : stdout[i].msg = "event"})

Capture(p, usable) ==
  /\ EventCount + Len(ring) < MaxEvents
  /\ Reserve(p, usable, Now)
  /\ UNCHANGED <<controlVars, stdout, state, mainVars, processes, sent>>

Commit(i) ==
  /\ Submit(i, Now)
  /\ UNCHANGED <<controlVars, stdout, state, mainVars, processes, sent>>

(* A process exits, appears, or moves to another group (setpgid, setsid).        *)
Regroup(p, g) ==
  /\ pgrp' = [pgrp EXCEPT ![p] = g]
  /\ seen' = [seen EXCEPT ![p] = @ \cup {g}]
  /\ UNCHANGED <<controlVars, stdout, state, mainVars, ring, sent>>

Kernel ==
  \/ \E s \in Syscalls : Capture(s[1], s[2])
  \/ \E i \in DOMAIN ring : Commit(i)
  \/ \E p \in Movers, g \in MaybeGroup : Regroup(p, g)

ControlThread == ControlStep /\ UNCHANGED sent
MainThread    == MainStep /\ UNCHANGED sent

Next ==
  \/ \E m \in Messages : ClientSend(m)
  \/ ControlThread
  \/ MainThread
  \/ Kernel

Spec == Init /\ [][Next]_vars

(* Two threads of the sidecar that the scheduler runs.  The client, the tasks    *)
(* and the tracepoints owe nothing.                                              *)
FairSpec == Spec /\ WF_vars(ControlThread) /\ WF_vars(MainThread)

--------------------------------------------------------------------------------
TypeOK == SidecarTypeOK /\ sent \subseteq Messages

(* The end status of a call is the last word on it: no event line after it names *)
(* that call (monitor.py:147-149 returns the summary on the strength of this).   *)
(* Holds for overlapping calls too, where an end status may name the wrong call. *)
NoEventAfterEnd ==
  \A i, j \in DOMAIN stdout :
    i < j /\ stdout[i].msg = "end" /\ stdout[i].call # NoCall /\ stdout[j].msg = "event"
      => stdout[j].call # stdout[i].call

(* The sidecar keeps the ledger of CallLedger, marks in any order included: a     *)
(* call is open once the control thread has read its begin mark.                 *)
BegunCalls    == {c \in Calls : Begin(c) \in sent /\ ~Contains(stdin, Begin(c))}
AnsweredCalls == {c \in Calls : Answered(c)}
Untagged(l)   == [msg |-> l.msg, bucket |-> l.bucket, call |-> l.call]

Ledger == INSTANCE CallLedger WITH
  log    <- [i \in DOMAIN stdout |-> Untagged(stdout[i])],
  open   <- BegunCalls \ AnsweredCalls,
  closed <- AnsweredCalls
KeepsLedger == Ledger!LedgerSpec

(* What ebpf.rs:144-148 wants of the batch: when a pass gets to the end marks,   *)
(* every record that was in the ring and readable when the pass started has      *)
(* been taken out.                                                               *)
PassCoversItsStart == mpc \notin {"drain", "filter", "write"} => owed = 0

(* An event that went through the scope filter is of a process that was in the   *)
(* scope at some moment of the pass: the cache of ebpf.rs:148-149 is never older *)
(* than the pass, however processes exit, start or move meanwhile.               *)
FilteredByThisPass == mpc = "write" /\ snap.scoped => snap.scope \in seen[Head(ring).pid]

(* No end mark is lost or applied twice between the control thread that queues   *)
(* it and the main loop that takes the queue: the end lines written, the marks   *)
(* being applied and the marks queued are exactly the marks read.                *)
EndLines == Cardinality({i \in DOMAIN stdout : stdout[i].msg = "end"})
EndsRead == Cardinality({m \in sent : m.op = "end" /\ ~Contains(stdin, m)})
EveryEndOnce == EndLines + Len(ends) + Len(pending_ends) = EndsRead

(* With one call at a time the end status answers the mark that asked for it:    *)
(* the active call that ApplyEnd takes is the one the mark names.                *)
EndNamesItsMark == mpc = "end" => ended = Head(ends)

(* monitor.py:138-140: once the begin status is out, and until the end mark is   *)
(* written, an event captured in that window is never reported without the call. *)
OpenWindowKept ==
  \A i \in DOMAIN stdout : \A c \in OpenCalls :
    stdout[i].msg = "event" /\ c \in stdout[i].tag.open => stdout[i].call = c

(* DRAIN_BATCH (ebpf.rs:144-146): however busy the rest of the host keeps the    *)
(* ring, a begin is confirmed, an end mark is answered and a shutdown stops both *)
(* threads, unless the session is being shut down first.                         *)
BeginConfirmed == \A c \in Calls : Begin(c) \in sent ~> Confirmed(c) \/ Shutdown \in sent
EndAnswered    == \A c \in Calls : End(c) \in sent ~> Answered(c) \/ Shutdown \in sent
ShutdownStops  == Shutdown \in sent ~> mpc = "done" /\ cpc = "done"

(* A scope takes effect for all events but at most one: after its status line,   *)
(* at most one startup event (the record the main loop already held) is written. *)
OneLateStartup ==
  \A i, j, k \in DOMAIN stdout :
    i < j /\ j < k /\ stdout[i].msg = "scope" /\ stdout[j].msg = "event" /\ stdout[k].msg = "event"
      => "startup" \notin {stdout[j].bucket} \cap {stdout[k].bucket}
================================================================================
