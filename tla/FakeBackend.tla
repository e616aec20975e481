------------------------------ MODULE FakeBackend ------------------------------
(* The fake backend, crates/mcpfz-probe/src/fake.rs: one thread that reads a     *)
(* control line, writes its status line and replays the entries of a script that *)
(* the line triggers, one flushed line at a time.  It is closed with a client    *)
(* that begins and ends calls in any order, overlapping ones included.  Nobody   *)
(* reads stdout, so that it is the history of everything reported.               *)
EXTENDS SidecarProtocol

CONSTANTS
  NoTool,    \* Option::None of a tool name
  ToolOf,    \* the tool of each call, carried by its begin mark
  Scripts,   \* the scripts an events file may hold
  Messages   \* the control messages the client may write, each at most once

VARIABLES
  stdin, stdout, sent,
  script, active_call, active_tool,  \* FakeBackend
  pc,    \* "new", "idle" (reading stdin), "fire", "done", or "begin", "end" when the
         \* status line of a mark is about to be written
  job,   \* arguments of the fire() under way
  at     \* the script entry fire() looks at

vars == <<stdin, stdout, sent, script, active_call, active_tool, pc, job, at>>

(* ScriptEntry: `typed` is FALSE for an event object without a "type" field.  An *)
(* entry of a known trigger; a bucket or call_id of the object itself, which     *)
(* emit() would leave as it is, is left out ("filled in by the sidecar").        *)
Triggers == {"startup", "scope", "begin", "end"}
Tools    == {ToolOf[c] : c \in Calls} \cup {NoTool}
Entry    == [trigger : Triggers, tool : Tools, typed : BOOLEAN]

ASSUME FakeAssumption ==
  /\ NoTool \notin {ToolOf[c] : c \in Calls}
  /\ Messages \subseteq Control
  /\ Scripts \subseteq Seq(Entry)

Job      == [trigger : Triggers, tool : Tools, bucket : Buckets, call : MaybeCall]

StartJob    == [trigger |-> "startup", tool |-> NoTool, bucket |-> "startup", call |-> NoCall]
ScopeJob    == [trigger |-> "scope",   tool |-> NoTool, bucket |-> "ambient", call |-> NoCall]
CallJob(trigger, tool, c) == [trigger |-> trigger, tool |-> tool, bucket |-> "call", call |-> c]

(* The filters of fire(): an entry that wants a tool needs a mark that has it.   *)
Matches(e, trigger, tool) == e.trigger = trigger /\ e.tool \in {NoTool, tool}

Init ==
  /\ stdin = <<>> /\ stdout = <<>> /\ sent = {}
  /\ script \in Scripts
  /\ active_call = NoCall /\ active_tool = NoTool
  /\ pc = "new" /\ job = StartJob /\ at = 1

--------------------------------------------------------------------------------
Emit(line) == stdout' = Append(stdout, line)
StartFiring(j) == pc' = "fire" /\ job' = j /\ at' = 1

OnStart ==
  /\ pc = "new"
  /\ Emit(ReadyLine) /\ StartFiring(StartJob)
  /\ UNCHANGED <<stdin, sent, script, active_call, active_tool>>

ReadLine(op) ==
  /\ pc = "idle" /\ stdin # <<>>
  /\ Head(stdin).op = op
  /\ stdin' = Tail(stdin)
  /\ UNCHANGED <<sent, script>>

HandleScope ==
  /\ ReadLine("scope")
  /\ Emit(ScopeLine) /\ StartFiring(ScopeJob)
  /\ UNCHANGED <<active_call, active_tool>>

ToolGiven(c) == IF c = NoCall THEN NoTool ELSE ToolOf[c]

HandleBegin ==
  /\ ReadLine("begin")
  /\ LET c == Head(stdin).arg IN
       /\ active_call' = c /\ active_tool' = ToolGiven(c)
       /\ job' = CallJob("begin", ToolGiven(c), c) /\ pc' = "begin"
  /\ UNCHANGED <<stdout, at>>

WriteBegin ==
  /\ pc = "begin"
  /\ Emit(BeginLine(job.call)) /\ StartFiring(job)
  /\ UNCHANGED <<stdin, sent, script, active_call, active_tool>>

(* Mutants: an end mark is given no tool, as it carries none; the end status is  *)
(* written before the trailing events.                                           *)
HandleEndUntooled ==
  /\ ReadLine("end")
  /\ LET c == Head(stdin).arg IN
       StartFiring(CallJob("end", NoTool, IF c # NoCall THEN c ELSE active_call))
  /\ UNCHANGED <<stdout, active_call, active_tool>>

HandleEndStatusFirst ==
  /\ ReadLine("end")
  /\ LET c == Head(stdin).arg IN
       /\ Emit(EndLine(c))
       /\ StartFiring(CallJob("end", active_tool, IF c # NoCall THEN c ELSE active_call))
  /\ UNCHANGED <<active_call, active_tool>>

(* The monitor's end mark carries a call id and no tool.  The tool is the one    *)
(* remembered from the last begin mark.  The status line comes after the events. *)
HandleEnd ==
  /\ ReadLine("end")
  /\ LET c == Head(stdin).arg IN
       StartFiring(CallJob("end", active_tool, IF c # NoCall THEN c ELSE active_call))
  /\ UNCHANGED <<stdout, active_call, active_tool>>

(* A line that does not parse and a mark of an unknown phase are reported.       *)
HandleIgnored ==
  /\ ReadLine("ignored")
  /\ Emit(ErrorLine)
  /\ UNCHANGED <<active_call, active_tool, pc, job, at>>

(* Shutdown, or end of file.                                                     *)
HandleShutdown ==
  /\ ReadLine("shutdown")
  /\ pc' = "done"
  /\ UNCHANGED <<stdout, active_call, active_tool, job, at>>

--------------------------------------------------------------------------------
(* fire(): the next entry of the script, written if it matches and has a type.   *)
FireEntry ==
  /\ pc = "fire" /\ at <= Len(script)
  /\ LET e == script[at] IN
       IF Matches(e, job.trigger, job.tool) /\ e.typed
         THEN Emit(EventLine(job.bucket, job.call, NoTag))
         ELSE UNCHANGED stdout
  /\ at' = at + 1
  /\ UNCHANGED <<stdin, sent, script, active_call, active_tool, pc, job>>

FireDone ==
  /\ pc = "fire" /\ at > Len(script)
  /\ pc' = IF job.trigger = "end" THEN "end" ELSE "idle"
  /\ UNCHANGED <<stdin, stdout, sent, script, active_call, active_tool, job, at>>

(* Mutant: the tool outlives the call.                                           *)
WriteEndToolKept ==
  /\ pc = "end"
  /\ Emit(EndLine(job.call))
  /\ active_call' = NoCall
  /\ pc' = "idle"
  /\ UNCHANGED <<stdin, sent, script, active_tool, job, at>>

WriteEnd ==
  /\ pc = "end"
  /\ Emit(EndLine(job.call))
  /\ active_call' = NoCall /\ active_tool' = NoTool
  /\ pc' = "idle"
  /\ UNCHANGED <<stdin, sent, script, job, at>>

(* Writing fails once the reader of stdout is gone, the status of a line that was *)
(* just read included, and so does reading a line that is not UTF-8: run()        *)
(* returns the error.                                                            *)
WriteFails ==
  /\ pc \in {"new", "begin", "fire", "end"} \/ (pc = "idle" /\ stdin # <<>>)
  /\ pc' = "done"
  /\ UNCHANGED <<stdin, stdout, sent, script, active_call, active_tool, job, at>>

(* A call id is begun once (ids are fresh) and ended only after it was begun.    *)
ClientSend(m) ==
  /\ m \notin sent /\ Shutdown \notin sent
  /\ m.op = "end" /\ m.arg # NoCall => Begin(m.arg) \in sent
  /\ stdin' = Append(stdin, m) /\ sent' = sent \cup {m}
  /\ UNCHANGED <<stdout, script, active_call, active_tool, pc, job, at>>

BackendStep ==
  \/ OnStart
  \/ HandleScope \/ HandleBegin \/ WriteBegin \/ HandleEnd \/ HandleIgnored \/ HandleShutdown
  \/ FireEntry \/ FireDone \/ WriteEnd

Next == BackendStep \/ WriteFails \/ \E m \in Messages : ClientSend(m)

Spec == Init /\ [][Next]_vars

--------------------------------------------------------------------------------
(* The two fields of the active call are set and cleared together.               *)
TypeOK ==
  /\ stdin \in Seq(Messages) /\ stdout \in Seq(Line) /\ sent \subseteq Messages
  /\ script \in Scripts
  /\ active_call \in MaybeCall /\ active_tool \in Tools
  /\ active_call = NoCall <=> active_tool = NoTool
  /\ pc \in {"new", "idle", "begin", "fire", "end", "done"}
  /\ job \in Job /\ at \in 1..Len(script) + 1

(* The fake backend keeps the same ledger as the eBPF backend, as CI relies on:  *)
(* events only of calls that are open, none after the end status.                *)
AnsweredCalls == {c \in Calls : Contains(stdout, EndLine(c))}
BegunCalls    == {c \in Calls : Begin(c) \in sent /\ ~Contains(stdin, Begin(c))}
Untagged(l)   == [msg |-> l.msg, bucket |-> l.bucket, call |-> l.call]

Ledger == INSTANCE CallLedger WITH
  log    <- [i \in DOMAIN stdout |-> Untagged(stdout[i])],
  open   <- BegunCalls \ AnsweredCalls,
  closed <- AnsweredCalls
KeepsLedger == Ledger!LedgerSpec

(* The script is replayed exactly (fake.rs:37-46): a call that was alone, with   *)
(* no mark of another call handled between its own, has by its end status        *)
(* exactly the typed entries of its begin and its end that want its tool or      *)
(* none.  An end mark carries no tool: the one of the matching begin counts.     *)
IsMark(i, c)  == stdout[i].msg \in {"begin", "end"} /\ stdout[i].call = c
Alone(i, j)   == \A k \in i..j : \A d \in Calls \ {stdout[i].call} : ~IsMark(k, d)
Wanted(c)     == {n \in DOMAIN script : script[n].typed
                    /\ \E t \in {"begin", "end"} : Matches(script[n], t, ToolOf[c])}
ReplayedExactly ==
  \A i, j \in DOMAIN stdout : \A c \in Calls :
    i < j /\ stdout[i] = BeginLine(c) /\ stdout[j] = EndLine(c) /\ Alone(i, j) =>
      Cardinality({k \in DOMAIN stdout : stdout[k] = EventLine("call", c, NoTag)})
        = Cardinality(Wanted(c))
================================================================================
