---------------------------- MODULE SidecarProtocol ----------------------------
(* The vocabulary of the sidecar's NDJSON protocol, shared by the backends and   *)
(* by the Python monitor: the control messages written to sidecar stdin (enum    *)
(* Control of fake.rs) and the lines a sidecar writes to stdout.  A call id, a   *)
(* process and a process group are model values; timestamps, tool names and the  *)
(* payload of an event are left out.                                             *)
EXTENDS Integers, FiniteSets, SequencesExt

CONSTANTS
  Calls,     \* call ids
  NoCall,    \* Option::None of a call id
  Procs,     \* processes whose syscalls the tracepoints see
  Groups,    \* process group ids
  NoGroup    \* Option::None of a group id, and the group of a process that exited

ASSUME ProtocolAssumption == NoCall \notin Calls /\ NoGroup \notin Groups

MaybeCall  == Calls \cup {NoCall}
MaybeGroup == Groups \cup {NoGroup}

--------------------------------------------------------------------------------
(* Control messages.  `arg` holds the field the handlers read: the group of a    *)
(* scope message, the call id of a mark.  "shutdown" stands for a shutdown       *)
(* message and for end of file on stdin, which leave the same read loop.         *)
(* "ignored" is a line that does not parse or a mark with an unknown phase.      *)

Scope(g) == [op |-> "scope",    arg |-> g]
Begin(c) == [op |-> "begin",    arg |-> c]
End(c)   == [op |-> "end",      arg |-> c]
Shutdown == [op |-> "shutdown", arg |-> NoCall]
Ignored  == [op |-> "ignored",  arg |-> NoCall]

Control ==
  {Scope(g) : g \in Groups} \cup {Begin(c) : c \in MaybeCall}
    \cup {End(c) : c \in MaybeCall} \cup {Shutdown, Ignored}

--------------------------------------------------------------------------------
(* Lines on stdout.  A status line has the message it carries ("error" stands    *)
(* for parse_error and unknown_phase), an event line has "event" or "drop".      *)
(* `tag` is history, not part of the line: what was going on while the kernel    *)
(* captured the syscall.  tag.open holds the calls that were certainly open      *)
(* throughout (begin acknowledged, end not asked for); tag.edge says that a mark *)
(* was on its way, so that a call was being opened or closed.                    *)

Buckets == {"startup", "call", "ambient"}
Tag     == [open : SUBSET Calls, edge : BOOLEAN]
NoTag   == [open |-> {}, edge |-> FALSE]
Throughout(before, after) ==
  [open |-> before.open \cap after.open,
   edge |-> before.edge \/ after.edge \/ before.open # after.open]

Line == [msg : {"event", "drop", "ready", "scope", "begin", "end", "error"},
         bucket : Buckets, call : MaybeCall, tag : Tag]

Status(message, bucket, c) == [msg |-> message, bucket |-> bucket, call |-> c, tag |-> NoTag]
ReadyLine    == Status("ready", "startup", NoCall)
ScopeLine    == Status("scope", "ambient", NoCall)
ErrorLine    == Status("error", "ambient", NoCall)
BeginLine(c) == Status("begin", "call", c)
EndLine(c)   == Status("end", "call", c)
EventLine(bucket, c, tag) == [msg |-> "event", bucket |-> bucket, call |-> c, tag |-> tag]
================================================================================
