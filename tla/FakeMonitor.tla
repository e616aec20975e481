------------------------------ MODULE FakeMonitor ------------------------------
(* FakeRuntimeMonitor of src/mcpfz_probe/monitor.py, the in-process stand-in for *)
(* SidecarRuntimeMonitor: no thread, no sidecar; record() is given the events.   *)
(* Operators only: whoever calls the monitor closes it.                          *)
EXTENDS Sequences

CONSTANTS
  Calls, NoCall,
  NoSummary,       \* end_call has not returned
  ScriptedEvents   \* _scripted_events

VARIABLES
  active_call, events_by_call, ambient_events,
  playing,   \* the scripted events start() has still to record
  summary    \* history: the events end_call returned

monitorVars == <<active_call, events_by_call, ambient_events, playing, summary>>

MonitorInit ==
  /\ active_call = NoCall /\ ambient_events = <<>> /\ playing = <<>>
  /\ events_by_call = [c \in Calls |-> <<>>]
  /\ summary = [c \in Calls |-> NoSummary]

(* An event that names a call is filed there, another one under the active call. *)
Recorded(e) ==
  LET c == IF e.call # NoCall THEN e.call ELSE active_call IN
    IF c # NoCall
      THEN /\ events_by_call' = [events_by_call EXCEPT ![c] = Append(@, [e EXCEPT !.call = c])]
           /\ UNCHANGED ambient_events
      ELSE /\ ambient_events' = Append(ambient_events, e)
           /\ UNCHANGED events_by_call

Idle == playing = <<>>

Start == Idle /\ playing' = ScriptedEvents /\ UNCHANGED <<active_call, events_by_call, ambient_events, summary>>
Play  == ~Idle /\ Recorded(Head(playing)) /\ playing' = Tail(playing) /\ UNCHANGED <<active_call, summary>>

record(e) == Idle /\ Recorded(e) /\ UNCHANGED <<active_call, playing, summary>>

BeginCall(c) ==
  /\ Idle /\ active_call' = c
  /\ UNCHANGED <<events_by_call, ambient_events, playing, summary>>

(* Mutant: the events are read and not popped.                                   *)
EndCallKeeps(c) ==
  /\ Idle /\ active_call' = NoCall
  /\ summary' = [summary EXCEPT ![c] = events_by_call[c]]
  /\ UNCHANGED <<events_by_call, ambient_events, playing>>

(* Whichever call was active, none is afterwards.                                *)
EndCall(c) ==
  /\ Idle /\ active_call' = NoCall
  /\ summary' = [summary EXCEPT ![c] = events_by_call[c]]
  /\ events_by_call' = [events_by_call EXCEPT ![c] = <<>>]
  /\ UNCHANGED <<ambient_events, playing>>
================================================================================
