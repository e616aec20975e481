------------------------------ MODULE CallLedger -------------------------------
(* What a sidecar promises to whoever reads its stdout, whichever the backend: a *)
(* log in which a call is opened once, collects events while it is open, and is  *)
(* closed by an end status, after which it collects nothing.  Which of the open  *)
(* calls an event goes to is not promised.                                       *)
EXTENDS SidecarProtocol

VARIABLES
  log,     \* the lines written, without their history tags
  open,    \* calls whose begin mark took effect and that no end status named
  closed   \* calls some end status named

LedgerInit == log = <<>> /\ open = {} /\ closed = {}

Write(msg, bucket, c) == log' = Append(log, [msg |-> msg, bucket |-> bucket, call |-> c])

(* A begin mark takes effect, before or together with its status line.           *)
Open(c) ==
  /\ c \notin closed
  /\ open' = open \cup {c}
  /\ UNCHANGED <<log, closed>>

Confirm(c) == Write("begin", "call", c) /\ UNCHANGED <<open, closed>>

(* An event of a call is in the bucket "call", and only such an event is.        *)
Report(c) ==
  /\ c \in open /\ Write("event", "call", c)
  /\ UNCHANGED <<open, closed>>

ReportOutside ==
  /\ \E bucket \in {"startup", "ambient"} : Write("event", bucket, NoCall)
  /\ UNCHANGED <<open, closed>>

(* An end mark without a call id, when no call is active, closes nothing.        *)
Close(c) ==
  /\ Write("end", "call", c)
  /\ open' = open \ {c} /\ closed' = closed \cup ({c} \ {NoCall})

Note ==
  /\ \/ Write("ready", "startup", NoCall)
     \/ Write("scope", "ambient", NoCall)
     \/ Write("error", "ambient", NoCall)
  /\ UNCHANGED <<open, closed>>

LedgerNext ==
  \/ \E c \in Calls : Open(c) \/ Report(c)
  \/ \E c \in MaybeCall : Confirm(c) \/ Close(c)
  \/ ReportOutside \/ Note

LedgerSpec == LedgerInit /\ [][LedgerNext]_<<log, open, closed>>
================================================================================
