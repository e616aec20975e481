---------------------------- MODULE RuntimeFindings ----------------------------
(* From a syscall to a finding, as the README's "Using it" goes: begin_call, the *)
(* tool runs, end_call, and some time later evaluate_events(summary.events).     *)
(* The events are those decode() makes; between decode() and the summary stands  *)
(* FakeRuntimeMonitor, which keeps the same MonitorBook as the monitor with a    *)
(* sidecar.  The server moves about meanwhile: it retargets its link (symlink    *)
(* and rename are not traced) and changes its directory (chdir is not either).   *)
EXTENDS EventRules, FakeMonitor

CONSTANTS
  Targets,      \* where the server points its link and its directory
  MaxSyscalls,  \* bound: syscalls the server makes
  MaxStarts     \* bound: calls of start(), each of which records the script again

(* `did` is history: the syscall behind the event, the record of it, what it      *)
(* touched, and what its path depended on: where the link led, or the directory   *)
(* the server was in.                                                            *)
DependsOn(s, l, d) ==
  CASE s.name \in {"link", "linked"} -> l [] s.name = "relative" -> d [] OTHER -> "nothing"

Event(s, r, c, l, d) ==
  [seen |-> decode(r), call |-> c,
   did  |-> [call |-> s, read |-> r, touched |-> Touched(s, l, d), through |-> DependsOn(s, l, d)]]

(* What decode() can make of a syscall made in any state of the file system.     *)
Links  == Places \cup {"gone"}
Events ==
  UNION {{Event(s, r, c, l, d) : r \in Records(s), c \in Calls \cup {NoCall}, l \in Links, d \in Places} :
           s \in Syscalls}

(* A script imitates events of syscalls.                                         *)
ASSUME FindingsAssumption ==
  /\ Targets \subseteq Places /\ NoCall \notin Calls
  /\ MaxSyscalls \in Nat /\ MaxStarts \in Nat
  /\ ScriptedEvents \in Seq(Events)

VARIABLES
  link, dir,  \* where the link leads, or "gone"; the server's directory
  made,       \* syscalls made so far
  starts,     \* calls of start() so far
  called,     \* calls begun so far
  findings    \* what evaluate_events returned for a call, and where the link led then

serverVars == <<link, dir, made>>
fuzzerVars == <<starts, called, findings>>
vars       == <<monitorVars, serverVars, fuzzerVars>>

Init ==
  /\ MonitorInit
  /\ link \in Targets /\ dir = MonitorDir /\ made = 0
  /\ starts = 0 /\ called = {} /\ findings = [c \in Calls |-> NoSummary]

Syscall(s, r) ==
  /\ made < MaxSyscalls /\ made' = made + 1
  /\ IF IsReported(r) THEN record(Event(s, r, NoCall, link, dir)) ELSE Idle /\ UNCHANGED monitorVars
  /\ link' = IF s.kind = "unlink" /\ s.name = "link" THEN "gone" ELSE link
  /\ UNCHANGED <<dir, fuzzerVars>>

Relink(place) == link' = place /\ UNCHANGED <<monitorVars, dir, made, fuzzerVars>>
Chdir(place)  == dir' = place /\ UNCHANGED <<monitorVars, link, made, fuzzerVars>>

FuzzerStarts ==
  /\ starts < MaxStarts /\ starts' = starts + 1
  /\ Start /\ UNCHANGED <<serverVars, called, findings>>

Replay == Play /\ UNCHANGED <<serverVars, fuzzerVars>>

FuzzerBegins(c) ==
  /\ c \notin called /\ called' = called \cup {c}
  /\ BeginCall(c) /\ UNCHANGED <<serverVars, starts, findings>>

FuzzerEnds(c) ==
  /\ c \in called /\ summary[c] = NoSummary
  /\ EndCall(c) /\ UNCHANGED <<serverVars, fuzzerVars>>

(* evaluate_events: every event against the policy, as the file system is now.   *)
Evaluate(c) ==
  /\ summary[c] # NoSummary /\ findings[c] = NoSummary
  /\ findings' = [findings EXCEPT ![c] =
       [found |-> [i \in DOMAIN summary[c] |-> Findings(summary[c][i].seen, link)], link |-> link]]
  /\ UNCHANGED <<monitorVars, serverVars, starts, called>>

Next ==
  \/ \E s \in Syscalls : \E r \in Records(s) : Syscall(s, r)
  \/ \E place \in Targets : Relink(place) \/ Chdir(place)
  \/ FuzzerStarts \/ Replay
  \/ \E c \in Calls : FuzzerBegins(c) \/ FuzzerEnds(c) \/ Evaluate(c)

Spec == Init /\ [][Next]_vars

--------------------------------------------------------------------------------
(* The fake monitor keeps the same book as the one with a sidecar.               *)
Book == INSTANCE MonitorBook WITH
  None <- NoSummary, filed <- events_by_call, ambient <- ambient_events, handed <- summary
KeepsBook == Book!BookSpec

(* The policy engine can know what the syscall did: the tracepoint read what the  *)
(* kernel did (a longer path was cut to one of the same class), the path is not   *)
(* through a link that was moved since, if it is relative the server was where    *)
(* the monitor is, and it is not a link that is itself deleted.                   *)
Knowable(e, now) ==
  /\ e.did.read = e.did.call
  /\ e.seen.name \in {"link", "linked"} => e.did.through = now
  /\ e.seen.name = "relative" => e.did.through = MonitorDir
  /\ ~(e.did.call.kind = "unlink" /\ e.did.call.name = "link")

(* What a syscall deserves, judged by what it did.                               *)
Deserved(did, Modifies(_)) ==
  LET k == did.call.kind
      n == did.call.name
      out == did.touched \in {"outside", "secret"}
  IN {c \in {"exec", "net_connect", "sensitive_read", "fs_write", "fs_delete", "fs_chmod", "ptrace"} :
        \/ c = "exec" /\ k = "execve" /\ n = "outside"
        \/ c = "net_connect" /\ k \in {"connect", "sendto"} /\ n = "outside"
        \/ c = "sensitive_read" /\ k = "openat" /\ n = "secret"
        \/ c = "fs_write" /\ k = "openat" /\ out /\ Modifies(did.call.arg)
        \/ c = "fs_delete" /\ k = "unlink" /\ out
        \/ c = "fs_chmod" /\ k = "chmod" /\ out
        \/ c = "ptrace" /\ k = "ptrace"}

Judged == {c \in Calls : findings[c] # NoSummary}

(* policy.py:135 "file opened for write outside allowed paths", :85 and :97: no  *)
(* knowable syscall that can change a file outside the write roots goes without a *)
(* finding in the summary of its call, whatever flags and link it used.          *)
NothingMissed ==
  \A c \in Judged : \A i \in DOMAIN summary[c] :
    LET e == summary[c][i] IN
      Knowable(e, findings[c].link) => Deserved(e.did, CanModify) \subseteq findings[c].found[i]

(* And nobody is accused of what the arguments did not ask for: neither a read   *)
(* of a file outside the roots nor a change inside them is a finding, again when *)
(* the syscall is knowable.                                                      *)
NothingInvented ==
  \A c \in Judged : \A i \in DOMAIN summary[c] :
    LET e == summary[c][i] IN
      Knowable(e, findings[c].link) => findings[c].found[i] \subseteq Deserved(e.did, AsksToModify)
================================================================================
