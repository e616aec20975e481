----------------------------- MODULE ProbeSystem -------------------------------
(* The whole probe: the Python monitor, the eBPF sidecar and the kernel, with    *)
(* the two pipes between monitor and sidecar.  Callers of begin_call and         *)
(* end_call are the fuzzer; one call at a time unless Overlap.  The sidecar may  *)
(* crash, the monitor may be stopped and started again.                          *)
EXTENDS EbpfSidecar, SidecarMonitor

CONSTANTS
  Scopes,       \* groups the fuzzer sets as the scope, each at most once
  MaxCaptures,  \* bound: syscalls the tracepoints see
  MaxStarts,    \* bound: calls of start()
  MaxFaults,    \* bound: waits that time out, crashes of the sidecar, failed writes of
                \* the raw event file
  Overlap       \* FALSE: the fuzzer serializes its calls

ASSUME SystemAssumption ==
  /\ Scopes \subseteq Groups
  /\ MaxCaptures \in Nat /\ MaxStarts \in Nat \ {0} /\ MaxFaults \in Nat
  /\ Overlap \in BOOLEAN

VARIABLES
  scopes,     \* the scope messages sent so far
  captures,   \* syscalls seen so far
  starts,     \* calls of start() so far
  faults,     \* faults so far
  mine,       \* history: calls begun with the present sidecar process
  reported,   \* history: how many events each call was given on stdout
  lost        \* history: calls that were open when a full ring lost a record

sidecarVars == <<controlVars, stdout, state, mainVars, ring, processes>>
history == <<captures, lost, starts, faults, reported>>
vars == <<sidecarVars, monitorVars, scopes, mine, history>>

Init ==
  /\ SidecarInit /\ MonitorInit
  /\ pgrp \in [Procs -> Groups]
  /\ scopes = {} /\ captures = 0 /\ lost = {}
  /\ starts = 1 /\ faults = 0 /\ mine = {} /\ reported = [c \in Calls |-> 0]

(* The sidecar process: killed by stop(), crashed, or ended by its main loop.    *)
Alive == process \in {"on", "stopping"} /\ mpc # "done"

--------------------------------------------------------------------------------
(* The fuzzer and the monitor.                                                   *)
Write(m) == IF Alive THEN stdin' = Append(stdin, m) ELSE UNCHANGED stdin
StdinOnly == UNCHANGED <<shutdown, cpc, status, stdout, state, mainVars, ring, processes, history>>

Busy == {c \in Calls : pc[c] \in {"opening", "running", "closing"}}

FuzzerBegins(c) ==
  /\ Overlap \/ Busy = {}
  /\ BeginCall(c, Alive) /\ Write(Begin(c)) /\ mine' = mine \cup {c}
  /\ UNCHANGED scopes /\ StdinOnly

FuzzerEnds(c) == EndCall(c, Alive) /\ Write(End(c)) /\ UNCHANGED <<scopes, mine>> /\ StdinOnly

FuzzerScopes(g) ==
  /\ g \notin scopes /\ scopes' = scopes \cup {g}
  /\ process # "off" /\ Alive /\ Write(Scope(g))
  /\ UNCHANGED <<monitorVars, mine>> /\ StdinOnly

CallReturns(c) ==
  /\ BeginReturns(c, FALSE) \/ EndReturns(c, FALSE)
  /\ UNCHANGED <<sidecarVars, scopes, mine, history>>

Fault == faults < MaxFaults /\ faults' = faults + 1

CallTimesOut(c) ==
  /\ Fault /\ (BeginReturns(c, TRUE) \/ EndReturns(c, TRUE))
  /\ UNCHANGED <<sidecarVars, scopes, mine, captures, lost, starts, reported>>

TakeLine ==
  /\ stdout # <<>> /\ stdout' = Tail(stdout)
  /\ UNCHANGED <<controlVars, state, mainVars, ring, processes, scopes, mine, captures, lost,
                 starts, reported>>

ReadStdout  == reader = "on" /\ TakeLine /\ Deliver(Head(stdout)) /\ UNCHANGED faults
RawFileFull == Fault /\ TakeLine /\ ReaderDies

(* The process is gone, and with it its State, the ring it had attached and what  *)
(* nobody will read from its stdin.  What it wrote stays in the pipe.            *)
SidecarGone ==
  /\ mpc' = "done"
  /\ stdin' = <<>> /\ ring' = <<>>
  /\ active_call' = NoCall /\ scope_pgid' = NoGroup /\ scoped' = FALSE /\ pending_ends' = <<>>
  /\ shutdown' = FALSE /\ cpc' = "read" /\ status' = ReadyLine
  /\ drained' = 0 /\ pgid_cache' = EmptyCache
  /\ snap' = NoSnap /\ ends' = <<>> /\ ended' = NoCall /\ owed' = 0
  /\ seen' = [p \in Procs |-> {}] /\ UNCHANGED <<stdout, pgrp>>

(* Joining a reader that still has lines to read takes a timeout; the pipe is    *)
(* closed with whatever nobody read.                                             *)
Stop ==
  \/ StopBegins /\ Write(Shutdown) /\ UNCHANGED <<scopes, mine>> /\ StdinOnly
  \/ StopKills /\ SidecarGone /\ UNCHANGED <<scopes, mine, history>>
  \/ /\ IF stdout = <<>> \/ reader = "ended" THEN UNCHANGED faults ELSE Fault
     /\ StopEnds /\ stdout' = <<>>
     /\ UNCHANGED <<controlVars, state, mainVars, ring, processes, scopes, mine, captures, lost,
                    starts, reported>>

(* start() after stop(): the new sidecar process begins where the old one is gone. *)
Restart ==
  /\ starts < MaxStarts /\ starts' = starts + 1
  /\ Start /\ mine' = {} /\ mpc' = "start"
  /\ UNCHANGED <<controlVars, stdout, state, drained, pgid_cache, snap, ends, ended, owed, ring,
                 processes, scopes, captures, lost, faults, reported>>

--------------------------------------------------------------------------------
(* The sidecar process and the kernel.                                           *)
Control_ == Alive /\ ControlStep /\ UNCHANGED <<monitorVars, scopes, mine, history>>

Report == reported' = IF mpc = "write" /\ snap.call # NoCall
                        THEN [reported EXCEPT ![snap.call] = @ + 1] ELSE reported
Main_  == Alive /\ MainStep /\ Report /\ UNCHANGED <<monitorVars, scopes, captures, lost, starts, faults, mine>>

SidecarCrashes ==
  /\ Fault /\ Alive /\ SidecarGone
  /\ UNCHANGED <<monitorVars, scopes, mine, captures, lost, starts, reported>>

(* A call the fuzzer knows to be open: begin_call returned on its signal,        *)
(* end_call was not called, and the sidecar is still the same.                   *)
OpenCalls == {c \in mine : pc[c] = "running" /\ begin_signals[c] = "set"}
Now       == [open |-> OpenCalls, edge |-> Busy # OpenCalls]

Unmoved == UNCHANGED <<controlVars, stdout, state, mainVars, processes, monitorVars, scopes,
                       starts, faults, mine, reported>>

(* The tracepoints are detached when the process that attached them is gone.     *)
Capture(p) ==
  /\ Alive
  /\ captures < MaxCaptures /\ captures' = captures + 1
  /\ \/ Reserve(p, TRUE, Now) /\ UNCHANGED lost
     \/ ReserveFails /\ lost' = lost \cup OpenCalls
  /\ Unmoved

Commit(i) == Alive /\ Submit(i, Now) /\ Unmoved /\ UNCHANGED <<captures, lost>>

Next ==
  \/ \E c \in Calls : FuzzerBegins(c) \/ FuzzerEnds(c) \/ CallReturns(c) \/ CallTimesOut(c)
  \/ \E g \in Scopes : FuzzerScopes(g)
  \/ ReadStdout \/ RawFileFull
  \/ Stop \/ Restart
  \/ Control_ \/ Main_ \/ SidecarCrashes
  \/ \E p \in Procs : Capture(p)
  \/ \E i \in DOMAIN ring : Commit(i)

Spec == Init /\ [][Next]_vars

(* The threads of the sidecar and of the monitor run.  The fuzzer need not call  *)
(* anything, tasks need not make syscalls.                                       *)
FairSpec ==
  /\ Spec
  /\ WF_vars(Control_) /\ WF_vars(Main_) /\ WF_vars(ReadStdout)
  /\ \A c \in Calls : WF_vars(CallReturns(c))

--------------------------------------------------------------------------------
TypeOK ==
  /\ SidecarTypeOK /\ MonitorTypeOK
  /\ scopes \subseteq Scopes /\ captures \in 0..MaxCaptures /\ lost \subseteq Calls
  /\ starts \in 1..MaxStarts /\ faults \in 0..MaxFaults /\ mine \subseteq Calls /\ reported \in [Calls -> Nat]

EventsOf(q, c) == {i \in DOMAIN q : q[i].msg = "event" /\ q[i].call = c}

(* monitor.py:147-149: once the end status of a call was read, every event the   *)
(* sidecar attributed to the call has been read too.  No event of a call is on   *)
(* its way, or put aside where nobody will fetch it, when end_call returned on   *)
(* its signal; nor will the sidecar still write one.                             *)
AnsweredSummaryComplete ==
  \A c \in Calls :
    summary[c] # NoSummary /\ summary[c].answered =>
      /\ EventsOf(stdout, c) = {} /\ EventsOf(events_by_call[c], c) = {}
      /\ active_call # c /\ snap.call # c

(* And it holds them all: as many as the sidecar wrote for the call, whatever    *)
(* crashed, died or was stopped meanwhile.  (Of a call begun with the sidecar     *)
(* that answered: after a restart the new one answers for a call it never had.)  *)
AnsweredHasAll ==
  \A c \in mine :
    summary[c] # NoSummary /\ summary[c].answered =>
      Cardinality(EventsOf(summary[c].events, c)) = reported[c]

(* The monitor is a MonitorBook over restarts of the sidecar too: start() keeps  *)
(* what was collected for calls that somebody still waits for.                   *)
Book == INSTANCE MonitorBook WITH
  None <- NoSummary, filed <- events_by_call, ambient <- ambient_events,
  handed <- [c \in Calls |-> IF summary[c] = NoSummary THEN NoSummary ELSE summary[c].events]
KeepsBook == Book!BookSpec

(* monitor.py:138-140: once begin_call returned on its signal, and until         *)
(* end_call is called, an event triggered in the window is not mis-bucketed.     *)
OpenWindowKept ==
  \A c \in OpenCalls :
    LET Misplaced(q) == \E i \in DOMAIN q :
          q[i].msg = "event" /\ c \in q[i].tag.open /\ q[i].call # c
    IN  /\ ~Misplaced(stdout) /\ ~Misplaced(ambient_events)
        /\ \A d \in Calls : ~Misplaced(events_by_call[d])

(* The same where no earlier call timed out: the late end mark of a call that     *)
(* nobody waits for any more is what can take the window of the next call.       *)
AllAnswered == \A c \in Calls : summary[c] # NoSummary => summary[c].answered
AnsweredWindowKept == AllAnswered => OpenWindowKept

(* No lost wake-up: without any timeout, begin_call and end_call return, because *)
(* the signals are registered before the mark is written.  (Unless the monitor   *)
(* is stopped meanwhile: then only their timeouts make them return.)             *)
CallsReturn ==
  \A c \in Calls : pc[c] \in {"opening", "closing"} ~> pc[c] \notin {"opening", "closing"} \/ process # "on"

(* What CallsReturn rests on, whatever times out, crashes or is started again:   *)
(* while the sidecar is up and the reader reads, the answer to a mark that       *)
(* somebody waits for is always somewhere on its way, never swallowed.           *)
(* monitor.py:138-140: the begin mark, or the begin status to be written or read. *)
Served(c) == Alive /\ reader = "on" /\ c \in mine
BeginAnswerComing ==
  \A c \in Calls : Served(c) /\ pc[c] = "opening" /\ begin_signals[c] = "clear" =>
    \/ Contains(stdin, Begin(c))
    \/ cpc = "status" /\ status = BeginLine(c)
    \/ Contains(stdout, BeginLine(c))

(* monitor.py:147-149: the end mark on its way to or through the main loop, or   *)
(* the end status of this very call, also behind the late mark of an earlier one. *)
(* (Where calls overlap, a call can be ended under the id of another one.)       *)
EndAnswerComing ==
  \A c \in Calls : Served(c) /\ pc[c] = "closing" /\ end_signals[c] = "clear" =>
    \/ Contains(stdin, End(c)) \/ Contains(pending_ends, c) \/ Contains(ends, c)
    \/ Contains(stdout, EndLine(c))

(* A summary tells when events of its call are missing: those a full ring lost.  *)
LossIsReported == \A c \in lost : summary[c] # NoSummary => summary[c].truncated
================================================================================
