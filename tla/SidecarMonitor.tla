---------------------------- MODULE SidecarMonitor -----------------------------
(* SidecarRuntimeMonitor of src/mcpfz_probe/monitor.py: the callers of           *)
(* begin_call and end_call, the reader thread and stop().  They share            *)
(* begin_signals, end_signals, events_by_call and ambient_events under one lock; *)
(* a step is one critical section, together with the write to sidecar stdin or   *)
(* the wait next to it where no other thread can tell them apart.                *)
(*                                                                               *)
(* The pipes belong to the specification that composes this module with a        *)
(* sidecar: an action says what it writes (Sends) and the reader is given the    *)
(* line it read.                                                                 *)
EXTENDS SidecarProtocol

CONSTANT NoSummary  \* end_call has not returned

VARIABLES
  process,         \* _process: "on", "off" (None), or inside stop()
  reader,          \* the reader thread: "on", "ended" by an exception, "off" (None)
  pc,              \* what the caller of each call id is doing
  begin_signals,   \* the threading.Event of each call id, "none" when not in the dict
  end_signals,
  events_by_call,
  ambient_events,
  dropped,
  summary          \* history: what end_call returned, and whether its wait was answered

collected   == <<events_by_call, ambient_events, dropped>>
monitorVars == <<process, reader, pc, begin_signals, end_signals, collected, summary>>

Signals == {"none", "clear", "set"}
Phases  == {"new", "opening", "running", "closing", "done", "failed"}

MonitorInit ==
  /\ process = "on" /\ reader = "on"
  /\ pc = [c \in Calls |-> "new"]
  /\ begin_signals = [c \in Calls |-> "none"] /\ end_signals = [c \in Calls |-> "none"]
  /\ events_by_call = [c \in Calls |-> <<>>] /\ ambient_events = <<>>
  /\ dropped = 0
  /\ summary = [c \in Calls |-> NoSummary]

(* _send raises when the monitor is stopped (RuntimeError) or the sidecar is     *)
(* gone (BrokenPipeError); nothing around it in begin_call and end_call undoes   *)
(* what was done before.                                                         *)
Sending(c, alive, phase) ==
  pc' = [pc EXCEPT ![c] = IF process # "off" /\ alive THEN phase ELSE "failed"]

--------------------------------------------------------------------------------
(* begin_call: both signals are registered before the mark is written.           *)
BeginCall(c, alive) ==
  /\ pc[c] = "new"
  /\ begin_signals' = [begin_signals EXCEPT ![c] = "clear"]
  /\ end_signals' = [end_signals EXCEPT ![c] = "clear"]
  /\ Sending(c, alive, "opening")
  /\ UNCHANGED <<process, reader, collected, summary>>

(* Its wait is over: the signal is set, or the time is up.                       *)
BeginReturns(c, timeout) ==
  /\ pc[c] = "opening"
  /\ timeout <=> begin_signals[c] # "set"
  /\ pc' = [pc EXCEPT ![c] = "running"]
  /\ UNCHANGED <<process, reader, begin_signals, end_signals, collected, summary>>

(* end_call up to its wait.                                                      *)
EndCall(c, alive) ==
  /\ pc[c] = "running"
  /\ Sending(c, alive, "closing")
  /\ UNCHANGED <<process, reader, begin_signals, end_signals, collected, summary>>

(* The wait of end_call is over (there is none without a registered signal); it  *)
(* collects what the reader has put aside.                                       *)
EndReturns(c, timeout) ==
  /\ pc[c] = "closing"
  /\ timeout <=> end_signals[c] = "clear"
  /\ pc' = [pc EXCEPT ![c] = "done"]
  /\ summary' = [summary EXCEPT ![c] = [events    |-> events_by_call[c],
                                        truncated |-> dropped > 0,
                                        answered  |-> end_signals[c] = "set"]]
  /\ begin_signals' = [begin_signals EXCEPT ![c] = "none"]
  /\ end_signals' = [end_signals EXCEPT ![c] = "none"]
  /\ events_by_call' = [events_by_call EXCEPT ![c] = <<>>]
  /\ UNCHANGED <<process, reader, ambient_events, dropped>>

--------------------------------------------------------------------------------
(* The reader has read a line: wake who waits for it and put the line aside.     *)
Wake(signals, message, l) ==
  IF l.msg = message /\ l.call # NoCall /\ signals[l.call] # "none"
    THEN [signals EXCEPT ![l.call] = "set"] ELSE signals

Deliver(l) ==
  /\ dropped' = IF l.msg = "drop" THEN dropped + 1 ELSE dropped
  /\ begin_signals' = Wake(begin_signals, "begin", l)
  /\ end_signals' = Wake(end_signals, "end", l)
  /\ IF l.call # NoCall
       THEN /\ events_by_call' = [events_by_call EXCEPT ![l.call] = Append(@, l)]
            /\ UNCHANGED ambient_events
       ELSE /\ ambient_events' = Append(ambient_events, l)
            /\ UNCHANGED events_by_call
  /\ UNCHANGED <<process, reader, pc, summary>>

(* Mutant: the exception is caught and the next line is read.                    *)
ReaderGoesOn ==
  /\ reader = "on"
  /\ UNCHANGED monitorVars

(* Writing the line to the raw event file fails (a full disk): no handler of     *)
(* _read_stdout catches that, so the thread ends and the line is lost.           *)
ReaderDies ==
  /\ reader = "on" /\ reader' = "ended"
  /\ UNCHANGED <<process, pc, begin_signals, end_signals, collected, summary>>

--------------------------------------------------------------------------------
(* Mutant: start() begins with empty dictionaries.                               *)
StartAfresh ==
  /\ process = "off" /\ process' = "on" /\ reader' = "on"
  /\ events_by_call' = [c \in Calls |-> <<>>]
  /\ UNCHANGED <<pc, begin_signals, end_signals, ambient_events, dropped, summary>>

(* stop(): write a shutdown message, send SIGTERM at once, wait for the process, *)
(* join the reader, forget the process.  start() does nothing while there is a   *)
(* process, alive or not; what the last process left in the dictionaries stays.  *)
Callers    == <<pc, begin_signals, end_signals, collected, summary>>
StopBegins == process = "on" /\ process' = "stopping" /\ UNCHANGED <<reader, Callers>>
StopKills  == process = "stopping" /\ process' = "joining" /\ UNCHANGED <<reader, Callers>>
StopEnds   == process = "joining" /\ process' = "off" /\ reader' = "off" /\ UNCHANGED Callers
Start      == process = "off" /\ process' = "on" /\ reader' = "on" /\ UNCHANGED Callers

--------------------------------------------------------------------------------
Summary == [events : Seq(Line), truncated : BOOLEAN, answered : BOOLEAN]
ASSUME SummaryAssumption == NoSummary \notin Summary

MonitorTypeOK ==
  /\ process \in {"on", "stopping", "joining", "off"}
  /\ reader \in {"on", "ended", "off"}
  /\ pc \in [Calls -> Phases]
  /\ begin_signals \in [Calls -> Signals] /\ end_signals \in [Calls -> Signals]
  /\ events_by_call \in [Calls -> Seq(Line)] /\ ambient_events \in Seq(Line)
  /\ dropped \in Nat
  /\ summary \in [Calls -> Summary \cup {NoSummary}]
================================================================================
