-------------------------- MODULE ProbeSummaryProofs ---------------------------
(* A summary that was answered is complete, for every instance of ProbeSystem,   *)
(* overlapping calls, timeouts, crashes and restarts included.  The inductive    *)
(* invariant follows a call from the begin mark the fuzzer writes, through both  *)
(* pipes and the sidecar, to the end status the reader thread delivers.          *)
(* That no mark is swallowed on the way is BeginsAreAnswered and EndsAreAnswered, *)
(* at the end.                                                                   *)
EXTENDS ProbeProofs, FiniteSetTheorems

(* A begin mark is written once and for a call that was begun, and an end mark   *)
(* behind the begin mark of its call.                                            *)
MarksInOrder ==
  /\ \A c \in Calls : \A i, j \in DOMAIN stdin : stdin[i] = Begin(c) /\ stdin[j] = Begin(c) => i = j
  /\ \A c \in Calls : \A i \in DOMAIN stdin : stdin[i] = Begin(c) => pc[c] # "new"
  /\ \A c \in Calls : \A i \in DOMAIN stdin :
       stdin[i] = End(c) => pc[c] # "new" /\ \A j \in DOMAIN stdin : stdin[j] = Begin(c) => j < i

(* Calls whose begin mark is not on its way any more: it was read, or the sidecar *)
(* it was meant for is gone.                                                     *)
BegunCalls == {c \in Calls : pc[c] # "new" /\ ~Contains(stdin, Begin(c))}

(* Calls whose end status was read, or is on its way.                            *)
Answered(c) == summary[c] # NoSummary /\ summary[c].answered
EndSeen     == {c \in Calls : end_signals[c] = "set" \/ Answered(c)}
ClosedCalls == EndedIn(stdout) \cup EndSeen

(* No event is on its way to a call whose end status was read, and none was put   *)
(* aside where nobody will fetch it.                                             *)
NothingBehind ==
  /\ \A c \in EndSeen : EventsOf(stdout, c) = {}
  /\ \A c \in Calls : Answered(c) => EventsOf(events_by_call[c], c) = {}

(* Nothing is known yet of a call that was not begun.                            *)
NewCalls == \A c \in Calls : pc[c] = "new" =>
  reported[c] = 0 /\ EventsOf(events_by_call[c], c) = {} /\ EventsOf(stdout, c) = {}

(* stop() forgets a sidecar that is gone.                                        *)
GoneWhenOff == process \in {"joining", "off"} => mpc = "done"

Holding   == HoldsOnly(BegunCalls) /\ ClosedCalls \subseteq BegunCalls /\ LetGo(ClosedCalls)
LedgerInv ==
  /\ SummaryInv /\ MarksInOrder /\ Holding
  /\ Orderly(stdout) /\ NothingBehind /\ NewCalls /\ GoneWhenOff

--------------------------------------------------------------------------------
(* Queues of lines.                                                              *)

LEMMA TailOfLines ==
  ASSUME NEW q \in Seq(Line), q # <<>>
  PROVE  /\ EndedIn(Tail(q)) \subseteq EndedIn(q)
         /\ Orderly(q) => Orderly(Tail(q))
         /\ \A c \in Calls : EventsOf(q, c) = {} => EventsOf(Tail(q), c) = {}
         /\ Orderly(q) /\ Head(q).msg = "end" /\ Head(q).call # NoCall => EventsOf(Tail(q), Head(q).call) = {}
<1> DEFINE t == Tail(q)
<1>1. /\ Len(q) \in Nat \ {0} /\ DOMAIN q = 1..Len(q) /\ DOMAIN t = 1..(Len(q) - 1)
      /\ \A i \in 1..(Len(q) - 1) : t[i] = q[i + 1] /\ i + 1 \in 1..Len(q)
      /\ Head(q) = q[1] /\ 1 \in DOMAIN q
  OBVIOUS
<1> HIDE DEF t
<1>2. EndedIn(t) \subseteq EndedIn(q)
  BY <1>1 DEF EndedIn
<1>3. ASSUME Orderly(q) PROVE Orderly(t)
  <2> SUFFICES ASSUME NEW i \in DOMAIN t, NEW j \in DOMAIN t, i < j, t[i].msg = "end",
                      t[i].call # NoCall, t[j].msg = "event"
               PROVE  t[j].call # t[i].call
    BY DEF Orderly
  <2>1. i + 1 \in DOMAIN q /\ j + 1 \in DOMAIN q /\ i + 1 < j + 1 /\ t[i] = q[i + 1] /\ t[j] = q[j + 1]
    BY <1>1
  <2> QED
    BY <1>3, <2>1 DEF Orderly
<1>4. \A c \in Calls : EventsOf(q, c) = {} => EventsOf(t, c) = {}
  BY <1>1 DEF EventsOf
<1>5. ASSUME Orderly(q), Head(q).msg = "end", Head(q).call # NoCall
      PROVE  EventsOf(t, Head(q).call) = {}
  <2> SUFFICES ASSUME NEW i \in DOMAIN t, t[i].msg = "event" PROVE t[i].call # Head(q).call
    BY DEF EventsOf
  <2>1. i + 1 \in DOMAIN q /\ 1 < i + 1 /\ t[i] = q[i + 1]
    BY <1>1
  <2> QED
    BY <1>1, <1>5, <2>1 DEF Orderly
<1> QED
  BY <1>2, <1>3, <1>4, <1>5 DEF t

LEMMA AppendToLines ==
  ASSUME NEW q \in Seq(Line), NEW l \in Line, NEW c \in Calls
  PROVE  EventsOf(Append(q, l), c) =
           EventsOf(q, c) \cup IF l.msg = "event" /\ l.call = c THEN {Len(q) + 1} ELSE {}
<1> DEFINE r == Append(q, l)
<1>1. /\ Len(q) \in Nat /\ DOMAIN q = 1..Len(q) /\ DOMAIN r = 1..(Len(q) + 1)
      /\ r[Len(q) + 1] = l /\ \A i \in 1..Len(q) : r[i] = q[i]
  OBVIOUS
<1> HIDE DEF r
<1>2. \A i \in DOMAIN r : i \in DOMAIN q \/ i = Len(q) + 1
  BY <1>1
<1>3. EventsOf(r, c) = EventsOf(q, c) \cup IF l.msg = "event" /\ l.call = c THEN {Len(q) + 1} ELSE {}
  BY <1>1, <1>2 DEF EventsOf
<1> QED
  BY <1>3 DEF r

LEMMA OtherLines ==
  ASSUME NEW q \in Seq(Line), NEW l \in Line, NEW c \in Calls, ~(l.msg = "event" /\ l.call = c)
  PROVE  EventsOf(Append(q, l), c) = EventsOf(q, c)
<1>1. (IF l.msg = "event" /\ l.call = c THEN {Len(q) + 1} ELSE {}) = {}
  OBVIOUS
<1>2. EventsOf(Append(q, l), c) = EventsOf(q, c) \cup {}
  BY <1>1, AppendToLines, Zenon
<1> QED
  BY <1>2

(* The sidecar holds the same, more calls are begun and fewer closed.            *)
SameHeld == UNCHANGED <<active_call, snap, ended, pending_ends, ends, mpc>>
LEMMA HoldingKept ==
  ASSUME Holding, SameHeld, BegunCalls \subseteq BegunCalls', ClosedCalls' \subseteq ClosedCalls
  PROVE  Holding'
BY DEF Holding, SameHeld, HoldsOnly, LetGo

--------------------------------------------------------------------------------
(* The fuzzer.                                                                   *)

(* What is written to stdin does not begin a call that was not begun, and does   *)
(* not end one either.                                                           *)
LEMMA WriteKeepsMarks ==
  ASSUME TypeInv, MarksInOrder, NEW m \in Control, Write(m),
         \A c \in Calls : pc[c] # "new" => pc'[c] # "new",
         \A c \in Calls : m = Begin(c) => pc[c] = "new" /\ pc'[c] # "new",
         \A c \in Calls : m = End(c) => pc[c] # "new"
  PROVE  MarksInOrder' /\ BegunCalls \subseteq BegunCalls'
<1>1. CASE stdin' = stdin
  BY <1>1 DEF MarksInOrder, BegunCalls
<1>2. CASE stdin' = Append(stdin, m)
  <2> DEFINE n == Len(stdin) + 1
  <2>1. /\ stdin \in Seq(Control) /\ Len(stdin) \in Nat /\ Len(stdin') = n
        /\ stdin'[n] = m /\ \A i \in 1..Len(stdin) : stdin'[i] = stdin[i]
        /\ DOMAIN stdin = 1..Len(stdin) /\ DOMAIN stdin' = 1..n
    BY <1>2 DEF TypeInv, TypeOK, SidecarTypeOK
  <2> HIDE DEF n
  <2>2. \A i \in DOMAIN stdin' : (i \in DOMAIN stdin /\ stdin'[i] = stdin[i] /\ i < n) \/ i = n
    BY <2>1 DEF n
  <2>3. ASSUME NEW c \in Calls, NEW i \in DOMAIN stdin', NEW j \in DOMAIN stdin',
               stdin'[i] = Begin(c), stdin'[j] = Begin(c)
        PROVE  i = j
    BY <2>1, <2>2, <2>3 DEF MarksInOrder
  <2>4. ASSUME NEW c \in Calls, NEW i \in DOMAIN stdin', stdin'[i] = Begin(c)
        PROVE  pc'[c] # "new"
    BY <2>1, <2>2, <2>4 DEF MarksInOrder
  <2>5. ASSUME NEW c \in Calls, NEW i \in DOMAIN stdin', stdin'[i] = End(c)
        PROVE  pc'[c] # "new" /\ \A j \in DOMAIN stdin' : stdin'[j] = Begin(c) => j < i
    <3>1. CASE i = n
      <4>1. m = End(c) /\ pc[c] # "new"
        BY <2>1, <2>5, <3>1
      <4>2. \A j \in DOMAIN stdin' : stdin'[j] = Begin(c) => j # n
        BY <2>1, <4>1, MarksDiffer
      <4> QED
        BY <2>2, <3>1, <4>1, <4>2
    <3>2. CASE i \in DOMAIN stdin /\ stdin'[i] = stdin[i] /\ i < n
      <4>1. pc[c] # "new" /\ \A j \in DOMAIN stdin : stdin[j] = Begin(c) => j < i
        BY <2>5, <3>2 DEF MarksInOrder
      <4>2. m # Begin(c)
        BY <4>1
      <4> QED
        BY <2>1, <2>2, <4>1, <4>2
    <3> QED
      BY <2>2, <3>1, <3>2
  <2>6. BegunCalls \subseteq BegunCalls'
    <3> SUFFICES ASSUME NEW c \in BegunCalls PROVE c \in BegunCalls'
      OBVIOUS
    <3>1. c \in Calls /\ pc[c] # "new" /\ \A i \in 1..Len(stdin) : stdin[i] # Begin(c)
      BY DEF BegunCalls, Contains
    <3>2. m # Begin(c) /\ pc'[c] # "new"
      BY <3>1
    <3>3. \A i \in 1..Len(stdin') : stdin'[i] # Begin(c)
      BY <2>1, <2>2, <3>1, <3>2
    <3> QED
      BY <3>1, <3>2, <3>3 DEF BegunCalls, Contains
  <2> QED
    BY <2>3, <2>4, <2>5, <2>6 DEF MarksInOrder
<1> QED
  BY <1>1, <1>2 DEF Write

(* Steps of the fuzzer, and stop() writing a shutdown message.                   *)
LEMMA FuzzerKeepsLedger ==
  ASSUME TypeInv, LedgerInv,
         \/ \E c \in Calls : FuzzerBegins(c) \/ FuzzerEnds(c)
         \/ \E g \in Scopes : FuzzerScopes(g)
         \/ StopBegins /\ Write(Shutdown) /\ UNCHANGED <<scopes, mine>> /\ StdinOnly
  PROVE  LedgerInv'
<1> USE DEF LedgerInv, TypeInv, TypeOK, MonitorTypeOK
<1>1. /\ UNCHANGED <<stdout, summary, events_by_call, reported>> /\ SameHeld
      /\ process' = process \/ process' = "stopping"
  BY DEF FuzzerBegins, FuzzerEnds, FuzzerScopes, StdinOnly, BeginCall, EndCall, monitorVars, collected,
         state, mainVars, history, SameHeld, StopBegins, Callers
<1>2. /\ \A c \in Calls : pc'[c] = "new" => pc[c] = "new"
      /\ \A c \in Calls : end_signals'[c] = "set" => end_signals[c] = "set"
      /\ \A c \in Calls : summary[c] = NoSummary \/ pc'[c] = "done"
  BY DEF FuzzerBegins, FuzzerEnds, FuzzerScopes, BeginCall, EndCall, Sending, monitorVars, collected,
         StopBegins, Callers, SummaryInv
<1>3. MarksInOrder' /\ BegunCalls \subseteq BegunCalls'
  <2>1. ASSUME NEW c \in Calls, FuzzerBegins(c) PROVE MarksInOrder' /\ BegunCalls \subseteq BegunCalls'
    <3>1. pc[c] = "new" /\ pc'[c] # "new" /\ Begin(c) \in Control /\ Write(Begin(c))
      BY <2>1, MessageTypes DEF FuzzerBegins, BeginCall, Sending
    <3>2. /\ \A d \in Calls : Begin(c) = Begin(d) => pc[d] = "new" /\ pc'[d] # "new"
          /\ \A d \in Calls : Begin(c) = End(d) => pc[d] # "new"
      BY <3>1, MarksDiffer
    <3> QED
      BY <1>2, <3>1, <3>2, WriteKeepsMarks
  <2>2. ASSUME NEW c \in Calls, FuzzerEnds(c) PROVE MarksInOrder' /\ BegunCalls \subseteq BegunCalls'
    <3>1. pc[c] # "new" /\ End(c) \in Control /\ Write(End(c))
      BY <2>2, MessageTypes DEF FuzzerEnds, EndCall
    <3>2. /\ \A d \in Calls : Begin(d) # End(c)
          /\ \A d \in Calls : End(c) = End(d) => pc[d] # "new"
      BY <3>1, MarksDiffer
    <3> QED
      BY <1>2, <3>1, <3>2, WriteKeepsMarks
  <2>3. ASSUME NEW m \in Control, Write(m), m.op \notin {"begin", "end"}
        PROVE  MarksInOrder' /\ BegunCalls \subseteq BegunCalls'
    <3>1. \A c \in Calls : m # Begin(c) /\ m # End(c)
      BY <2>3 DEF Begin, End
    <3> QED
      BY <1>2, <2>3, <3>1, WriteKeepsMarks
  <2>4. Shutdown.op \notin {"begin", "end"} /\ \A g \in Scopes : Scope(g).op \notin {"begin", "end"}
    BY DEF Shutdown, Scope
  <2> QED
    BY <2>1, <2>2, <2>3, <2>4, MessageTypes DEF FuzzerScopes
<1>4. ClosedCalls' \subseteq ClosedCalls /\ EndSeen' \subseteq EndSeen
  BY <1>1, <1>2 DEF ClosedCalls, EndSeen, Answered, EndedIn
<1>5. Holding'
  BY <1>1, <1>3, <1>4, HoldingKept
<1>6. NothingBehind' /\ NewCalls' /\ Orderly(stdout)'
  BY <1>1, <1>2, <1>4 DEF NothingBehind, NewCalls, Orderly, Answered, EventsOf
<1>7. SummaryInv' /\ GoneWhenOff'
  BY <1>1, <1>2 DEF SummaryInv, GoneWhenOff, SameHeld
<1> QED
  BY <1>3, <1>5, <1>6, <1>7

(* A wait that is over.  When end_call returns on its signal, nothing is behind.  *)
LEMMA ReturnsKeepLedger ==
  ASSUME TypeInv, LedgerInv, NEW c \in Calls, NEW timeout \in BOOLEAN,
         BeginReturns(c, timeout) \/ EndReturns(c, timeout), UNCHANGED <<sidecarVars, reported>>
  PROVE  LedgerInv'
<1> USE DEF LedgerInv, TypeInv, TypeOK, MonitorTypeOK
<1>1. /\ UNCHANGED <<stdin, stdout, reported, process>> /\ SameHeld
      /\ \A d \in Calls : pc'[d] = "new" <=> pc[d] = "new"
  BY DEF sidecarVars, controlVars, state, mainVars, SameHeld, BeginReturns, EndReturns
<1>2. MarksInOrder' /\ BegunCalls' = BegunCalls
  BY <1>1 DEF MarksInOrder, BegunCalls
<1>3. Orderly(stdout)' /\ GoneWhenOff'
  BY <1>1 DEF Orderly, GoneWhenOff, SameHeld
<1>4. CASE BeginReturns(c, timeout)
  <2>1. UNCHANGED <<end_signals, summary, events_by_call>> /\ SummaryInv'
    BY <1>4 DEF BeginReturns, collected, SummaryInv
  <2>2. ClosedCalls' = ClosedCalls /\ NothingBehind' /\ NewCalls'
    BY <1>1, <2>1 DEF ClosedCalls, EndSeen, Answered, EndedIn, NothingBehind, NewCalls, EventsOf
  <2> QED
    BY <1>1, <1>2, <1>3, <2>1, <2>2, HoldingKept
<1>5. CASE EndReturns(c, timeout)
  <2>1. /\ end_signals' = [end_signals EXCEPT ![c] = "none"]
        /\ events_by_call' = [events_by_call EXCEPT ![c] = <<>>]
        /\ pc' = [pc EXCEPT ![c] = "done"] /\ pc[c] = "closing"
        /\ \A d \in Calls \ {c} : summary'[d] = summary[d]
        /\ Answered(c)' => end_signals[c] = "set"
    BY <1>5, SummaryAssumption DEF EndReturns, Answered
  <2>2. SummaryInv'
    BY <2>1 DEF SummaryInv
  <2>3. EndSeen' \subseteq EndSeen
    BY <2>1 DEF EndSeen, Answered
  <2>4. ClosedCalls' \subseteq ClosedCalls
    BY <1>1, <2>3 DEF ClosedCalls, EndedIn
  <2>5. EventsOf(events_by_call'[c], c) = {}
    BY <2>1 DEF EventsOf
  <2>6. NothingBehind'
    <3>1. \A d \in EndSeen' : EventsOf(stdout', d) = {}
      BY <1>1, <2>3 DEF NothingBehind
    <3>2. \A d \in Calls : Answered(d)' => EventsOf(events_by_call'[d], d) = {}
      BY <2>1, <2>5 DEF NothingBehind, Answered
    <3> QED
      BY <3>1, <3>2 DEF NothingBehind
  <2>7. NewCalls'
    BY <1>1, <2>1 DEF NewCalls
  <2> QED
    BY <1>1, <1>2, <1>3, <2>2, <2>4, <2>6, <2>7, HoldingKept
<1> QED
  BY <1>4, <1>5

--------------------------------------------------------------------------------
(* The reader thread and stop().                                                 *)

(* The reader takes a line.  If it is an end status that somebody waits for, no   *)
(* event of the call is behind it.                                               *)
LEMMA ReaderKeepsLedger ==
  ASSUME TypeInv, LedgerInv, TakeLine, Deliver(Head(stdout)) \/ ReaderDies
  PROVE  LedgerInv'
<1> USE DEF LedgerInv, TypeInv, TypeOK, MonitorTypeOK
<1>0. PICK l \in Line : l = Head(stdout)
  BY DEF TakeLine, SidecarTypeOK
<1>1. /\ UNCHANGED <<stdin, reported, process, pc, summary>> /\ SameHeld
      /\ stdout # <<>> /\ stdout' = Tail(stdout) /\ stdout \in Seq(Line)
  BY DEF TakeLine, controlVars, state, mainVars, SameHeld, Deliver, ReaderDies, SidecarTypeOK
<1>2. /\ EndedIn(stdout') \subseteq EndedIn(stdout) /\ Orderly(stdout')
      /\ \A c \in Calls : EventsOf(stdout, c) = {} => EventsOf(stdout', c) = {}
      /\ l.msg = "end" /\ l.call # NoCall => EventsOf(stdout', l.call) = {}
  BY <1>0, <1>1, TailOfLines
<1>3. MarksInOrder' /\ BegunCalls' = BegunCalls /\ GoneWhenOff' /\ SummaryInv'
  BY <1>1 DEF MarksInOrder, BegunCalls, GoneWhenOff, SameHeld, SummaryInv
<1>4. ASSUME NEW c \in EndSeen', c \notin EndSeen PROVE l.msg = "end" /\ l.call = c
  <2>1. c \in Calls /\ end_signals'[c] = "set" /\ end_signals[c] # "set"
    BY <1>1, <1>4 DEF EndSeen, Answered
  <2> QED
    BY <1>0, <2>1 DEF Deliver, Wake, ReaderDies, Line, MaybeCall
<1>5. \A c \in EndSeen' : EventsOf(stdout', c) = {}
  <2> SUFFICES ASSUME NEW c \in EndSeen' PROVE EventsOf(stdout', c) = {}
    OBVIOUS
  <2>1. c \in Calls
    BY DEF EndSeen
  <2>2. CASE c \in EndSeen
    BY <1>2, <2>1, <2>2 DEF NothingBehind
  <2>3. CASE c \notin EndSeen
    BY <1>2, <1>4, <2>1, <2>3, ProtocolAssumption
  <2> QED
    BY <2>2, <2>3
<1>6. ClosedCalls' \subseteq ClosedCalls
  <2>1. ASSUME NEW c \in EndSeen', c \notin EndSeen PROVE c \in EndedIn(stdout)
    <3>1. l.msg = "end" /\ l.call = c /\ c \in Calls
      BY <1>4, <2>1 DEF EndSeen
    <3>2. 1 \in DOMAIN stdout /\ stdout[1] = l
      BY <1>0, <1>1
    <3> QED
      BY <3>1, <3>2 DEF EndedIn
  <2> QED
    BY <1>2, <2>1 DEF ClosedCalls
<1>7. \A c \in Calls : EventsOf(stdout, c) = {} =>
        EventsOf(events_by_call'[c], c) = EventsOf(events_by_call[c], c)
  <2> SUFFICES ASSUME NEW c \in Calls, EventsOf(stdout, c) = {}
               PROVE  EventsOf(events_by_call'[c], c) = EventsOf(events_by_call[c], c)
    OBVIOUS
  <2>1. ~(l.msg = "event" /\ l.call = c)
    <3>1. 1 \in DOMAIN stdout /\ stdout[1] = l
      BY <1>0, <1>1
    <3> QED
      BY <3>1 DEF EventsOf
  <2>2. \/ events_by_call'[c] = events_by_call[c]
        \/ events_by_call'[c] = Append(events_by_call[c], l)
    BY <1>0 DEF Deliver, ReaderDies, collected
  <2>3. events_by_call[c] \in Seq(Line)
    OBVIOUS
  <2>4. EventsOf(Append(events_by_call[c], l), c) = EventsOf(events_by_call[c], c)
    <3>1. PICK q \in Seq(Line) : q = events_by_call[c]
      BY <2>3
    <3>2. EventsOf(Append(q, l), c) = EventsOf(q, c)
      BY <2>1, OtherLines
    <3> QED
      BY <3>1, <3>2
  <2> QED
    BY <2>2, <2>4
<1>8. NothingBehind' /\ NewCalls'
  <2>1. \A c \in Calls : Answered(c)' => Answered(c) /\ c \in EndSeen
    BY <1>1 DEF Answered, EndSeen
  <2>2. \A c \in Calls : Answered(c)' => EventsOf(events_by_call'[c], c) = {}
    BY <1>7, <2>1 DEF NothingBehind
  <2>3. NewCalls'
    BY <1>1, <1>2, <1>7 DEF NewCalls
  <2> QED
    BY <1>5, <2>2, <2>3 DEF NothingBehind
<1> QED
  BY <1>1, <1>2, <1>3, <1>6, <1>8, HoldingKept

(* The process is gone: what it held is gone with it.  stop() throws away what   *)
(* nobody read, and start() begins with a sidecar that holds nothing.            *)
LEMMA GoneKeepsLedger ==
  ASSUME TypeInv, LedgerInv, SidecarGone, UNCHANGED <<reported, pc, end_signals, summary, events_by_call>>
  PROVE  LedgerInv'
<1> USE DEF LedgerInv
<1>1. stdout' = stdout /\ stdin' = <<>> /\ mpc' = "done"
  BY DEF SidecarGone
<1>2. MarksInOrder' /\ BegunCalls \subseteq BegunCalls'
  BY <1>1 DEF MarksInOrder, BegunCalls, Contains
<1>3. ClosedCalls' = ClosedCalls /\ NoCall \notin ClosedCalls
  BY <1>1, ProtocolAssumption DEF ClosedCalls, EndSeen, Answered, EndedIn
<1>4. Holding'
  BY <1>2, <1>3 DEF Holding, HoldsOnly, LetGo, SidecarGone, NoSnap
<1>5. SummaryInv' /\ NothingBehind' /\ NewCalls' /\ GoneWhenOff' /\ Orderly(stdout)'
  BY <1>1 DEF SummaryInv, NothingBehind, NewCalls, GoneWhenOff, EndSeen, Answered, EventsOf, Orderly
<1> QED
  BY <1>2, <1>4, <1>5

LEMMA StopKeepsLedger ==
  ASSUME TypeInv, LedgerInv, Stop \/ Restart \/ SidecarCrashes
  PROVE  LedgerInv'
<1> USE DEF LedgerInv
<1>1. CASE StopBegins /\ Write(Shutdown) /\ UNCHANGED <<scopes, mine>> /\ StdinOnly
  BY <1>1, FuzzerKeepsLedger
<1>2. CASE (StopKills /\ SidecarGone /\ UNCHANGED <<scopes, mine, history>>) \/ SidecarCrashes
  BY <1>2, GoneKeepsLedger DEF StopKills, Callers, SidecarCrashes, monitorVars, collected, history
<1>3. CASE StopEnds /\ stdout' = <<>> /\ UNCHANGED <<controlVars, state, mainVars, ring, processes, scopes,
                                                      mine, captures, lost, starts, reported>>
  <2>1. /\ UNCHANGED <<stdin, reported, pc, end_signals, summary, events_by_call>> /\ SameHeld
        /\ process = "joining"
    BY <1>3 DEF StopEnds, Callers, collected, controlVars, state, mainVars, SameHeld
  <2>2. MarksInOrder' /\ BegunCalls' = BegunCalls /\ SummaryInv' /\ Orderly(stdout)'
    BY <1>3, <2>1 DEF MarksInOrder, BegunCalls, SummaryInv, Orderly
  <2>3. ClosedCalls' \subseteq ClosedCalls /\ NothingBehind' /\ NewCalls'
    BY <1>3, <2>1 DEF ClosedCalls, EndSeen, Answered, EndedIn, NothingBehind, NewCalls, EventsOf
  <2>4. GoneWhenOff'
    BY <2>1 DEF GoneWhenOff, SameHeld
  <2> QED
    BY <2>1, <2>2, <2>3, <2>4, HoldingKept
<1>4. CASE Restart
  <2>1. /\ UNCHANGED <<stdin, stdout, reported, pc, end_signals, summary, events_by_call,
                       active_call, snap, ended, pending_ends, ends>>
        /\ process' = "on" /\ mpc = "done" /\ mpc' = "start"
    BY <1>4 DEF Restart, Start, Callers, collected, controlVars, state, GoneWhenOff
  <2>2. MarksInOrder' /\ BegunCalls' = BegunCalls /\ SummaryInv' /\ Orderly(stdout)' /\ GoneWhenOff'
    BY <2>1 DEF MarksInOrder, BegunCalls, SummaryInv, Orderly, GoneWhenOff
  <2>3. ClosedCalls' = ClosedCalls /\ NothingBehind' /\ NewCalls'
    BY <2>1 DEF ClosedCalls, EndSeen, Answered, EndedIn, NothingBehind, NewCalls, EventsOf
  <2> QED
    BY <2>1, <2>2, <2>3 DEF Holding, HoldsOnly, LetGo
<1> QED
  BY <1>1, <1>2, <1>3, <1>4 DEF Stop

--------------------------------------------------------------------------------
(* The sidecar.                                                                  *)

(* A begin mark that is read begins its call, which was not begun before, and an  *)
(* end mark that is read is of a begun call.                                     *)
LEMMA ReadKeepsMarks ==
  ASSUME TypeInv, MarksInOrder, stdin # <<>>, stdin' = Tail(stdin), pc' = pc
  PROVE  /\ MarksInOrder' /\ BegunCalls \subseteq BegunCalls'
         /\ Head(stdin).op = "begin" /\ Head(stdin).arg # NoCall =>
              Head(stdin).arg \in BegunCalls' \ BegunCalls
         /\ Head(stdin).op = "end" => Head(stdin).arg \in BegunCalls' \cup {NoCall}
<1>1. /\ stdin \in Seq(Control) /\ Len(stdin) \in Nat \ {0} /\ Len(stdin') = Len(stdin) - 1
      /\ \A i \in 1..Len(stdin') : stdin'[i] = stdin[i + 1] /\ i + 1 \in 1..Len(stdin)
      /\ DOMAIN stdin = 1..Len(stdin) /\ DOMAIN stdin' = 1..Len(stdin')
      /\ Head(stdin) = stdin[1] /\ Head(stdin) \in Control
  BY DEF TypeInv, TypeOK, SidecarTypeOK
<1>2. \A c \in Calls : \A i \in DOMAIN stdin' : stdin'[i] = Begin(c) => pc'[c] # "new"
  BY <1>1 DEF MarksInOrder
<1>3. \A c \in Calls : \A i, j \in DOMAIN stdin' : stdin'[i] = Begin(c) /\ stdin'[j] = Begin(c) => i = j
  BY <1>1 DEF MarksInOrder
<1>4. ASSUME NEW c \in Calls, NEW i \in DOMAIN stdin', stdin'[i] = End(c)
      PROVE  pc'[c] # "new" /\ \A j \in DOMAIN stdin' : stdin'[j] = Begin(c) => j < i
  BY <1>1, <1>4 DEF MarksInOrder
<1>5. BegunCalls \subseteq BegunCalls'
  BY <1>1 DEF BegunCalls, Contains
<1>6. ASSUME Head(stdin).op = "begin", Head(stdin).arg # NoCall
      PROVE  Head(stdin).arg \in BegunCalls' \ BegunCalls
  <2> DEFINE c == Head(stdin).arg
  <2>1. c \in Calls /\ stdin[1] = Begin(c)
    BY <1>1, <1>6, ControlTypes, MarksDiffer DEF MaybeCall
  <2>2. \A i \in 1..Len(stdin') : stdin'[i] # Begin(c)
    BY <1>1, <2>1 DEF MarksInOrder
  <2> QED
    BY <1>1, <2>1, <2>2 DEF BegunCalls, Contains, MarksInOrder
<1>7. ASSUME Head(stdin).op = "end", Head(stdin).arg # NoCall
      PROVE  Head(stdin).arg \in BegunCalls'
  <2> DEFINE c == Head(stdin).arg
  <2>1. c \in Calls /\ stdin[1] = End(c)
    BY <1>1, <1>7, ControlTypes, MarksDiffer DEF MaybeCall
  <2>2. pc[c] # "new" /\ \A j \in 1..Len(stdin) : stdin[j] # Begin(c)
    BY <1>1, <2>1 DEF MarksInOrder
  <2> QED
    BY <1>1, <2>1, <2>2 DEF BegunCalls, Contains
<1> QED
  BY <1>2, <1>3, <1>4, <1>5, <1>6, <1>7 DEF MarksInOrder

LEMMA ReadKeepsLedger ==
  ASSUME TypeInv, LedgerInv, ReadSomething, UNCHANGED <<monitorVars, reported>>
  PROVE  LedgerInv'
<1> USE DEF LedgerInv
<1>1. stdin # <<>> /\ stdin' = Tail(stdin) /\ UNCHANGED <<pc, end_signals, summary, events_by_call, process>>
  BY DEF ReadSomething, ReadScope, ReadBegin, ReadEnd, ReadIgnored, ReadShutdown, ReadLine,
         monitorVars, collected
<1>2. PICK B : B = BegunCalls
  OBVIOUS
<1>3. PICK B2 : B2 = BegunCalls'
  OBVIOUS
<1>4. PICK D : D = ClosedCalls
  OBVIOUS
<1>5. /\ MarksInOrder' /\ B \subseteq B2
      /\ Head(stdin).op = "begin" /\ Head(stdin).arg # NoCall => Head(stdin).arg \in B2 \ B
      /\ Head(stdin).op = "end" => Head(stdin).arg \in B2 \cup {NoCall}
  BY <1>1, <1>2, <1>3, ReadKeepsMarks
<1>6. D \subseteq B /\ HoldsOnly(B) /\ LetGo(D) /\ NoCall \notin D
  BY <1>2, <1>4, ProtocolAssumption DEF Holding, ClosedCalls, EndSeen, EndedIn
<1>7. HoldsOnly(B2)' /\ LetGo(D)' /\ UNCHANGED <<stdout, mainVars>>
  BY <1>5, <1>6, ReadHolds DEF TypeInv, TypeOK
<1>8. ClosedCalls' = D
  BY <1>1, <1>4, <1>7 DEF ClosedCalls, EndSeen, EndedIn, Answered
<1>9. Holding'
  <2>1. HoldsOnly(BegunCalls)' /\ LetGo(ClosedCalls)'
    BY <1>3, <1>7, <1>8 DEF HoldsOnly, LetGo
  <2> QED
    BY <1>3, <1>5, <1>6, <1>8, <2>1 DEF Holding
<1>10. SummaryInv' /\ Orderly(stdout)' /\ NothingBehind' /\ NewCalls' /\ GoneWhenOff'
  BY <1>1, <1>7 DEF SummaryInv, Orderly, NothingBehind, EndSeen, Answered, EventsOf, NewCalls, GoneWhenOff,
                    mainVars
<1> QED
  BY <1>5, <1>9, <1>10

(* What the sidecar writes, if anything: no event of a call whose end status is    *)
(* read or on its way, nor of a call that was not begun.                         *)
LEMMA WriteKeepsLedger ==
  ASSUME TypeInv, LedgerInv, (Control_ /\ WriteStatus) \/ Main_
  PROVE  LedgerInv'
<1> USE DEF LedgerInv, TypeInv, TypeOK
<1>1. UNCHANGED monitorVars /\ GoneWhenOff' /\ \A c \in Calls : c # snap.call => reported'[c] = reported[c]
  <2>1. CASE Control_ /\ WriteStatus
    BY <2>1 DEF Control_, history, GoneWhenOff, Alive, monitorVars
  <2>2. CASE Main_
    BY <2>2 DEF Main_, Report, GoneWhenOff, Alive, monitorVars
  <2> QED
    BY <2>1, <2>2
<1>2. PICK B : B = BegunCalls
  OBVIOUS
<1>3. PICK D : D = ClosedCalls
  OBVIOUS
<1>4. D \subseteq B /\ HoldsOnly(B) /\ LetGo(D) /\ NoCall \notin D /\ ended \in B \cup {NoCall}
  BY <1>2, <1>3, ProtocolAssumption DEF Holding, HoldsOnly, ClosedCalls, EndSeen, EndedIn
<1>5. /\ HoldsOnly(B)' /\ UNCHANGED stdin
      /\ \/ WritesOnly(D)
         \/ /\ LetGo(D)' /\ stdout' = Append(stdout, status)
            /\ status \in Line /\ status.msg \notin {"end", "event"}
  <2>1. CASE Control_ /\ WriteStatus
    BY <1>4, <2>1, StatusHolds
  <2>2. CASE Main_
    BY <1>4, <2>2, MainHolds DEF Main_
  <2> QED
    BY <2>1, <2>2
<1>6. /\ UNCHANGED <<pc, end_signals, summary, events_by_call>>
      /\ MarksInOrder' /\ BegunCalls' = BegunCalls /\ SummaryInv' /\ EndSeen' = EndSeen
      /\ HoldsOnly(BegunCalls)'
  <2>1. UNCHANGED <<stdin, pc, end_signals, summary, events_by_call>>
    BY <1>1, <1>5 DEF monitorVars, collected
  <2>2. MarksInOrder' /\ BegunCalls' = BegunCalls /\ SummaryInv' /\ EndSeen' = EndSeen
    BY <2>1 DEF MarksInOrder, BegunCalls, SummaryInv, EndSeen, Answered
  <2> QED
    BY <1>2, <1>5, <2>1, <2>2 DEF HoldsOnly
<1> DEFINE Fine == /\ ClosedCalls' \subseteq BegunCalls /\ LetGo(ClosedCalls)' /\ Orderly(stdout)'
                   /\ \A c \in Calls : EventsOf(stdout', c) # EventsOf(stdout, c) => c = snap.call /\ c \notin D
<1>7. Fine
  <2>1. CASE stdout' = stdout /\ LetGo(D)'
    BY <1>3, <1>4, <1>6, <2>1 DEF ClosedCalls, LetGo, Holding, EndedIn
  <2>2. ASSUME NEW l \in Line, stdout' = Append(stdout, l), l.msg # "end", LetGo(D)',
               l.msg = "event" => l.call = snap.call
        PROVE  Fine
    <3>1. stdout \in Seq(Line) /\ (l.msg = "event" => l.call \notin D)
      BY <1>4, <2>2 DEF SidecarTypeOK, LetGo
    <3>2. EndedIn(stdout') = EndedIn(stdout) /\ Orderly(stdout')
      BY <1>3, <2>2, <3>1, EndedByEndLines, LineKeepsOrder DEF ClosedCalls
    <3>3. ClosedCalls' = D
      BY <1>3, <1>6, <3>2 DEF ClosedCalls
    <3>4. \A c \in Calls : ~(l.msg = "event" /\ l.call = c) => EventsOf(stdout', c) = EventsOf(stdout, c)
      BY <2>2, <3>1, OtherLines
    <3> QED
      BY <1>2, <1>4, <2>2, <3>1, <3>2, <3>3, <3>4 DEF LetGo
  <2>3. ASSUME NEW c \in MaybeCall, c = ended, stdout' = Append(stdout, EndLine(c)),
               LetGo(D \cup ({c} \ {NoCall}))'
        PROVE  Fine
    <3>1. /\ EndLine(c) \in Line /\ EndLine(c).msg = "end" /\ EndLine(c).call = c
          /\ stdout \in Seq(Line) /\ Calls \cap {c} = {c} \ {NoCall}
      BY LineTypes, ProtocolAssumption DEF EndLine, Status, SidecarTypeOK, MaybeCall
    <3>2. EndedIn(stdout') = EndedIn(stdout) \cup ({c} \ {NoCall}) /\ Orderly(stdout')
      BY <2>3, <3>1, EndedByEndLines, LineKeepsOrder
    <3>3. ClosedCalls' = D \cup ({c} \ {NoCall})
      BY <1>3, <1>6, <3>2 DEF ClosedCalls
    <3>4. \A d \in Calls : EventsOf(stdout', d) = EventsOf(stdout, d)
      BY <2>3, <3>1, OtherLines
    <3> QED
      BY <1>2, <1>4, <2>3, <3>2, <3>3, <3>4 DEF LetGo
  <2> QED
    BY <1>5, <2>1, <2>2, <2>3, LineTypes DEF WritesOnly, ReadyLine, Status
<1>8. Holding'
  BY <1>6, <1>7 DEF Holding
<1>9. NothingBehind' /\ NewCalls'
  <2>1. \A c \in EndSeen : EventsOf(stdout', c) = {}
    BY <1>3, <1>7 DEF NothingBehind, ClosedCalls, EndSeen
  <2>2. \A c \in Calls : pc[c] = "new" => c # snap.call
    BY ProtocolAssumption DEF Holding, HoldsOnly, BegunCalls
  <2>3. \A c \in Calls : pc[c] = "new" => EventsOf(stdout', c) = {} /\ reported'[c] = 0
    BY <1>1, <1>7, <2>2 DEF NewCalls
  <2> QED
    BY <1>6, <2>1, <2>3 DEF NothingBehind, NewCalls, Answered
<1> QED
  BY <1>1, <1>6, <1>7, <1>8, <1>9

(* The kernel's steps change none of this.                                       *)
LEMMA KernelKeepsLedger ==
  ASSUME TypeInv, LedgerInv, UNCHANGED <<controlVars, stdout, state, mainVars, monitorVars, reported>>
  PROVE  LedgerInv'
<1> USE DEF LedgerInv, controlVars, state, mainVars, monitorVars, collected
<1>1. MarksInOrder' /\ BegunCalls' = BegunCalls /\ ClosedCalls' = ClosedCalls /\ Orderly(stdout)'
  BY DEF MarksInOrder, BegunCalls, ClosedCalls, EndedIn, EndSeen, Answered, Orderly
<1>2. SummaryInv' /\ NothingBehind' /\ NewCalls' /\ GoneWhenOff'
  BY DEF SummaryInv, NothingBehind, NewCalls, GoneWhenOff, EndSeen, Answered, EventsOf
<1>3. Holding'
  BY <1>1, HoldingKept DEF SameHeld
<1> QED
  BY <1>1, <1>2, <1>3

(* LedgerInv is inductive on top of the types.                                   *)
LEMMA LedgerInvariant == Spec => []LedgerInv
<1>1. Init => LedgerInv
  <2> SUFFICES ASSUME Init PROVE LedgerInv
    OBVIOUS
  <2> USE SummaryAssumption DEF Init, SidecarInit, MonitorInit
  <2>1. MarksInOrder /\ ClosedCalls = {} /\ EndSeen = {} /\ Orderly(stdout) /\ SummaryInv
    BY DEF MarksInOrder, ClosedCalls, EndedIn, EndSeen, Answered, Orderly, SummaryInv
  <2>2. HoldsOnly(BegunCalls) /\ LetGo({})
    BY DEF NoSnap, HoldsOnly, LetGo
  <2>3. NothingBehind /\ NewCalls /\ GoneWhenOff
    BY <2>1 DEF NothingBehind, NewCalls, GoneWhenOff, EventsOf, Answered
  <2> QED
    BY <2>1, <2>2, <2>3 DEF LedgerInv, Holding
<1>2. TypeInv /\ LedgerInv /\ [Next]_vars => LedgerInv'
  <2> SUFFICES ASSUME TypeInv, LedgerInv, [Next]_vars PROVE LedgerInv'
    OBVIOUS
  <2>1. CASE UNCHANGED vars
    BY <2>1, KernelKeepsLedger DEF vars, sidecarVars, history
  <2>2. ASSUME NEW c \in Calls, CallReturns(c) \/ CallTimesOut(c) PROVE LedgerInv'
    BY <2>2, ReturnsKeepLedger DEF CallReturns, CallTimesOut, history
  <2>3. CASE ReadStdout \/ RawFileFull
    BY <2>3, ReaderKeepsLedger DEF ReadStdout, RawFileFull
  <2>4. CASE Control_
    BY <2>4, ReadKeepsLedger, WriteKeepsLedger DEF Control_, ControlStep, ReadSomething, history
  <2>5. ASSUME (\E p \in Procs : Capture(p)) \/ (\E i \in DOMAIN ring : Commit(i)) PROVE LedgerInv'
    BY <2>5, KernelKeepsLedger DEF Capture, Commit, Unmoved
  <2> QED
    BY <2>1, <2>2, <2>3, <2>4, <2>5, FuzzerKeepsLedger, StopKeepsLedger, WriteKeepsLedger DEF Next
<1> QED
  BY <1>1, <1>2, TypeInvariant, PTL DEF Spec

(* Once end_call returned on its signal, no event of its call is on its way, put  *)
(* aside where nobody will fetch it, or still to be written: monitor.py:147-149.  *)
THEOREM SummaryComplete == Spec => []AnsweredSummaryComplete
<1>1. LedgerInv => AnsweredSummaryComplete
  BY DEF LedgerInv, NothingBehind, EndSeen, Answered, Holding, LetGo, ClosedCalls, AnsweredSummaryComplete
<1> QED
  BY <1>1, LedgerInvariant, PTL

--------------------------------------------------------------------------------
(* The summary holds every event the sidecar wrote for the call.                 *)

(* How many events of a call a queue of lines holds.                             *)
CountOf(q, c) == Cardinality(EventsOf(q, c))

LEMMA CountIsNat ==
  ASSUME NEW q \in Seq(Line), NEW c \in Calls
  PROVE  /\ IsFiniteSet(EventsOf(q, c)) /\ CountOf(q, c) \in Nat
         /\ EventsOf(q, c) = {} => CountOf(q, c) = 0
<1>1. EventsOf(q, c) \subseteq 1..Len(q) /\ Len(q) \in Nat
  BY DEF EventsOf
<1>2. IsFiniteSet(1..Len(q))
  BY <1>1, FS_Interval
<1>3. IsFiniteSet(EventsOf(q, c))
  BY <1>1, <1>2, FS_Subset
<1> QED
  BY <1>3, FS_CardinalityType, FS_EmptySet DEF CountOf

LEMMA CountAppend ==
  ASSUME NEW q \in Seq(Line), NEW l \in Line, NEW c \in Calls
  PROVE  CountOf(Append(q, l), c) = CountOf(q, c) + IF l.msg = "event" /\ l.call = c THEN 1 ELSE 0
<1>1. Len(q) + 1 \notin EventsOf(q, c) /\ IsFiniteSet(EventsOf(q, c)) /\ CountOf(q, c) \in Nat
  BY CountIsNat DEF EventsOf
<1>2. CASE l.msg = "event" /\ l.call = c
  <2>1. EventsOf(Append(q, l), c) = EventsOf(q, c) \cup {Len(q) + 1}
    BY <1>2, AppendToLines, Zenon
  <2>2. Cardinality(EventsOf(q, c) \cup {Len(q) + 1}) = Cardinality(EventsOf(q, c)) + 1
    BY <1>1, FS_AddElement
  <2> QED
    BY <1>2, <2>1, <2>2 DEF CountOf
<1>3. CASE ~(l.msg = "event" /\ l.call = c)
  <2>1. EventsOf(Append(q, l), c) = EventsOf(q, c) \cup {}
    BY <1>3, AppendToLines, Zenon
  <2> QED
    BY <1>1, <1>3, <2>1 DEF CountOf
<1> QED
  BY <1>2, <1>3

LEMMA CountTail ==
  ASSUME NEW q \in Seq(Line), q # <<>>, NEW c \in Calls
  PROVE  CountOf(q, c) = CountOf(Tail(q), c) + IF Head(q).msg = "event" /\ Head(q).call = c THEN 1 ELSE 0
<1> DEFINE t == Tail(q)
           T == EventsOf(t, c)
           S == EventsOf(q, c) \ {1}
           f == [i \in T |-> i + 1]
<1>1. /\ Len(q) \in Nat \ {0} /\ DOMAIN q = 1..Len(q) /\ DOMAIN t = 1..(Len(q) - 1)
      /\ \A i \in 1..(Len(q) - 1) : t[i] = q[i + 1] /\ i + 1 \in 1..Len(q)
      /\ Head(q) = q[1] /\ 1 \in DOMAIN q /\ t \in Seq(Line)
  OBVIOUS
<1> HIDE DEF t
<1>2. IsFiniteSet(T) /\ IsFiniteSet(EventsOf(q, c)) /\ CountOf(t, c) \in Nat /\ CountOf(q, c) \in Nat
  BY <1>1, CountIsNat
<1>3. T \subseteq 1..(Len(q) - 1) /\ S \subseteq 2..Len(q)
  BY <1>1 DEF EventsOf
<1>4. f \in Bijection(T, S)
  <2>1. \A i \in T : i + 1 \in S
    BY <1>1 DEF EventsOf
  <2>2. \A j \in S : j - 1 \in T /\ f[j - 1] = j
    <3>1. ASSUME NEW j \in S PROVE j - 1 \in T
      BY <1>1, <1>3 DEF EventsOf
    <3> QED
      BY <1>3, <3>1
  <2>3. \A i, j \in T : f[i] = f[j] => i = j
    BY <1>3
  <2> QED
    BY <2>1, <2>2, <2>3 DEF Bijection, Injection, Surjection, IsInjective
<1>5. Cardinality(S) = Cardinality(T)
  BY <1>2, <1>4, FS_Bijection DEF ExistsBijection
<1>6. 1 \in EventsOf(q, c) <=> Head(q).msg = "event" /\ Head(q).call = c
  BY <1>1 DEF EventsOf
<1>7. Cardinality(S) = IF 1 \in EventsOf(q, c) THEN CountOf(q, c) - 1 ELSE CountOf(q, c)
  BY <1>2, FS_RemoveElement DEF CountOf
<1> QED
  BY <1>2, <1>5, <1>6, <1>7 DEF CountOf, t

(* Every event written for a call is put aside for it or still on its way, and    *)
(* the first alone once its end status was read; end_call hands over what is      *)
(* put aside, and forgets the signal.                                            *)
CountInv ==
  \A c \in mine :
    /\ pc[c] = "done" => end_signals[c] = "none"
    /\ end_signals[c] = "set" => CountOf(events_by_call[c], c) = reported[c]
    /\ end_signals[c] # "set" /\ summary[c] = NoSummary /\ reader = "on" =>
         CountOf(events_by_call[c], c) + CountOf(stdout, c) = reported[c]
    /\ Answered(c) => CountOf(summary[c].events, c) = reported[c]

(* Steps that neither move nor write a line, and those that throw lines away     *)
(* together with their reader.                                                   *)
LEMMA CountKept ==
  ASSUME CountInv, mine' \subseteq mine, UNCHANGED <<reported, end_signals, summary, events_by_call>>,
         \A c \in Calls : pc'[c] = "done" => pc[c] = "done",
         reader' = "on" => reader = "on" /\ \A c \in mine : CountOf(stdout', c) = CountOf(stdout, c),
         mine \subseteq Calls
  PROVE  CountInv'
BY DEF CountInv, Answered

(* The caller's steps.                                                           *)
LEMMA CallerKeepsCount ==
  ASSUME TypeInv, LedgerInv, CountInv, NEW c \in Calls,
         FuzzerBegins(c) \/ FuzzerEnds(c) \/ CallReturns(c) \/ CallTimesOut(c)
  PROVE  CountInv'
<1> USE DEF TypeInv, TypeOK, MonitorTypeOK
<1>1. UNCHANGED <<stdout, reported, reader>>
  BY DEF FuzzerBegins, FuzzerEnds, CallReturns, CallTimesOut, BeginCall, EndCall, BeginReturns, EndReturns,
         StdinOnly, history, sidecarVars
<1>2. CASE FuzzerBegins(c)
  <2>1. /\ mine' = mine \cup {c} /\ UNCHANGED <<summary, events_by_call>> /\ pc[c] = "new"
        /\ pc'[c] # "done" /\ end_signals'[c] = "clear"
        /\ \A d \in Calls \ {c} : end_signals'[d] = end_signals[d] /\ pc'[d] = pc[d]
    BY <1>2 DEF FuzzerBegins, BeginCall, Sending, collected
  <2>2. /\ summary[c] = NoSummary /\ reported[c] = 0
        /\ CountOf(events_by_call[c], c) = 0 /\ CountOf(stdout, c) = 0
    <3>1. summary[c] = NoSummary /\ reported[c] = 0 /\ EventsOf(events_by_call[c], c) = {}
          /\ EventsOf(stdout, c) = {}
      BY <2>1 DEF LedgerInv, SummaryInv, NewCalls
    <3> QED
      BY <3>1, FS_EmptySet DEF CountOf
  <2> QED
    BY <1>1, <2>1, <2>2 DEF CountInv, Answered
<1>3. CASE FuzzerEnds(c) \/ BeginReturns(c, TRUE) \/ BeginReturns(c, FALSE)
  <2>1. /\ UNCHANGED <<summary, events_by_call, end_signals>> /\ mine' = mine
        /\ \A d \in Calls : pc'[d] = "done" => pc[d] = "done"
    BY <1>3 DEF FuzzerBegins, FuzzerEnds, CallReturns, CallTimesOut, BeginReturns, EndCall, Sending,
                BeginCall, EndReturns, collected
  <2> QED
    BY <1>1, <2>1, CountKept
<1>4. ASSUME NEW timeout \in BOOLEAN, EndReturns(c, timeout), mine' = mine PROVE CountInv'
  <2> DEFINE s == [events |-> events_by_call[c], truncated |-> dropped > 0,
                   answered |-> end_signals[c] = "set"]
  <2>0. s \in Summary
    BY DEF Summary
  <2>1. s.events = events_by_call[c] /\ s.answered = (end_signals[c] = "set")
    OBVIOUS
  <2>2. summary' = [summary EXCEPT ![c] = s]
    BY <1>4 DEF EndReturns
  <2> HIDE DEF s
  <2>3. summary'[c] = s /\ s # NoSummary /\ \A d \in Calls \ {c} : summary'[d] = summary[d]
    BY <2>0, <2>2, SummaryAssumption
  <2>4. /\ end_signals'[c] = "none"
        /\ \A d \in Calls \ {c} : /\ end_signals'[d] = end_signals[d] /\ pc'[d] = pc[d]
                                  /\ events_by_call'[d] = events_by_call[d]
    BY <1>4 DEF EndReturns
  <2> SUFFICES ASSUME NEW d \in mine
               PROVE  /\ pc'[d] = "done" => end_signals'[d] = "none"
                      /\ end_signals'[d] = "set" => CountOf(events_by_call'[d], d) = reported[d]
                      /\ end_signals'[d] # "set" /\ summary'[d] = NoSummary /\ reader = "on" =>
                           CountOf(events_by_call'[d], d) + CountOf(stdout, d) = reported[d]
                      /\ Answered(d)' => CountOf(summary'[d].events, d) = reported[d]
    BY <1>1, <1>4 DEF CountInv
  <2>5. CASE d = c
    BY <2>1, <2>3, <2>4, <2>5 DEF CountInv, Answered
  <2>6. CASE d # c
    BY <2>3, <2>4, <2>6 DEF CountInv, Answered
  <2> QED
    BY <2>5, <2>6
<1> QED
  BY <1>2, <1>3, <1>4 DEF CallReturns, CallTimesOut

(* The reader puts a line aside, or it dies.                                     *)
LEMMA ReaderKeepsCount ==
  ASSUME TypeInv, LedgerInv, LedgerInv', CountInv, ReadStdout \/ RawFileFull
  PROVE  CountInv'
<1> USE DEF TypeInv, TypeOK, MonitorTypeOK
<1>1. UNCHANGED <<mine, reported, pc, summary>>
  BY DEF ReadStdout, RawFileFull, TakeLine, Deliver, ReaderDies
<1>2. CASE RawFileFull
  BY <1>1, <1>2, CountKept DEF RawFileFull, ReaderDies, collected
<1>3. CASE ReadStdout
  <2>1. PICK l \in Line : l = Head(stdout)
    BY <1>3 DEF ReadStdout, TakeLine, SidecarTypeOK
  <2>2. stdout # <<>> /\ stdout' = Tail(stdout) /\ stdout \in Seq(Line) /\ reader = "on" /\ reader' = "on"
    BY <1>3 DEF ReadStdout, TakeLine, Deliver, SidecarTypeOK
  <2> SUFFICES ASSUME NEW c \in mine
               PROVE  /\ pc[c] = "done" => end_signals'[c] = "none"
                      /\ end_signals'[c] = "set" => CountOf(events_by_call'[c], c) = reported[c]
                      /\ end_signals'[c] # "set" /\ summary[c] = NoSummary =>
                           CountOf(events_by_call'[c], c) + CountOf(stdout', c) = reported[c]
                      /\ Answered(c) => CountOf(summary[c].events, c) = reported[c]
    BY <1>1, <2>2 DEF CountInv, Answered
  <2> DEFINE n == IF l.msg = "event" /\ l.call = c THEN 1 ELSE 0
  <2>3. c \in Calls /\ n \in Nat
    OBVIOUS
  <2>4. CountOf(stdout, c) = CountOf(stdout', c) + n
    BY <2>1, <2>2, <2>3, CountTail
  <2>5. CountOf(events_by_call'[c], c) = CountOf(events_by_call[c], c) + n
    <3>1. PICK q \in Seq(Line) : q = events_by_call[c]
      BY <2>3
    <3>2. CountOf(Append(q, l), c) = CountOf(q, c) + n /\ CountOf(q, c) \in Nat
      BY <2>3, CountAppend, CountIsNat
    <3>3. events_by_call'[c] = Append(q, l) \/ (l.call # c /\ events_by_call'[c] = q)
      <4>1. CASE l.call = c
        <5>1. events_by_call' = [events_by_call EXCEPT ![l.call] = Append(@, l)]
          BY <1>3, <2>1, <2>3, <4>1, ProtocolAssumption DEF ReadStdout, Deliver
        <5> QED
          BY <2>3, <3>1, <4>1, <5>1
      <4>2. CASE l.call # c
        BY <1>3, <2>1, <2>3, <3>1, <4>2 DEF ReadStdout, Deliver
      <4> QED
        BY <4>1, <4>2
    <3>4. l.call # c => n = 0
      OBVIOUS
    <3> HIDE DEF n
    <3>5. CASE events_by_call'[c] = Append(q, l)
      BY <3>1, <3>2, <3>5, Zenon
    <3>6. CASE l.call # c /\ events_by_call'[c] = q
      <4>1. CountOf(q, c) = CountOf(q, c) + n
        BY <3>2, <3>4, <3>6
      <4> QED
        BY <3>1, <3>6, <4>1, Zenon
    <3> QED
      BY <3>3, <3>5, <3>6
  <2>6. \/ end_signals'[c] = end_signals[c]
        \/ /\ l.msg = "end" /\ l.call = c /\ end_signals[c] \notin {"none", "set"}
           /\ end_signals'[c] = "set"
    BY <1>3, <2>1, <2>3 DEF ReadStdout, Deliver, Wake, Signals
  <2>7. stdout' \in Seq(Line) /\ events_by_call[c] \in Seq(Line) /\ reported[c] \in Nat
    BY <2>2, <2>3
  <2>8. CountOf(stdout', c) \in Nat /\ CountOf(events_by_call[c], c) \in Nat
    BY <2>3, <2>7, CountIsNat
  <2>9. end_signals'[c] = "set" => CountOf(stdout', c) = 0
    <3>1. end_signals'[c] = "set" => EventsOf(stdout', c) = {}
      BY <2>3 DEF LedgerInv, NothingBehind, EndSeen
    <3> QED
      BY <2>3, <2>7, <3>1, CountIsNat
  <2>10. end_signals[c] = "set" => CountOf(stdout, c) = 0
    <3>1. end_signals[c] = "set" => EventsOf(stdout, c) = {}
      BY <2>3 DEF LedgerInv, NothingBehind, EndSeen
    <3> QED
      BY <2>2, <2>3, <3>1, CountIsNat
  <2>11. end_signals[c] # "none" => summary[c] = NoSummary
    BY <2>3 DEF CountInv, LedgerInv, SummaryInv
  <2>12. /\ pc[c] = "done" => end_signals[c] = "none"
         /\ end_signals[c] = "set" => CountOf(events_by_call[c], c) = reported[c]
         /\ end_signals[c] # "set" /\ summary[c] = NoSummary =>
              CountOf(events_by_call[c], c) + CountOf(stdout, c) = reported[c]
         /\ Answered(c) => CountOf(summary[c].events, c) = reported[c]
    BY <2>2 DEF CountInv
  <2> HIDE DEF n, TypeInv, TypeOK, MonitorTypeOK
  <2>13. CASE end_signals'[c] = end_signals[c]
    BY <2>3, <2>4, <2>5, <2>7, <2>8, <2>9, <2>10, <2>12, <2>13
  <2>14. CASE end_signals[c] \notin {"none", "set"} /\ end_signals'[c] = "set"
    BY <2>3, <2>4, <2>5, <2>7, <2>8, <2>9, <2>11, <2>12, <2>14
  <2> QED
    BY <2>6, <2>13, <2>14
<1> QED
  BY <1>2, <1>3

(* The sidecar writes an event of the call it was taken for, and counts it.       *)
LEMMA SidecarKeepsCount ==
  ASSUME TypeInv, LedgerInv, CountInv, Control_ \/ Main_
  PROVE  CountInv'
<1> USE DEF TypeInv, TypeOK, MonitorTypeOK
<1>1. UNCHANGED <<mine, pc, summary, end_signals, events_by_call, reader>> /\ stdout \in Seq(Line)
  BY DEF Control_, Main_, monitorVars, collected, SidecarTypeOK
<1>2. ASSUME NEW l \in Line, stdout' = Append(stdout, l), l.msg # "event", reported' = reported PROVE CountInv'
  <2>1. \A c \in mine : CountOf(stdout', c) = CountOf(stdout, c)
    <3> SUFFICES ASSUME NEW c \in mine PROVE CountOf(stdout', c) = CountOf(stdout, c)
      OBVIOUS
    <3> QED
      BY <1>1, <1>2, CountAppend, CountIsNat
  <2> QED
    BY <1>1, <1>2, <2>1, CountKept
<1>3. CASE UNCHANGED <<stdout, reported>>
  BY <1>1, <1>3, CountKept
<1>4. CASE Control_
  <2>1. reported' = reported
    BY <1>4 DEF Control_, history
  <2>2. UNCHANGED stdout \/ WriteStatus
    BY <1>4 DEF Control_, ControlStep, ReadScope, ReadBegin, ReadEnd, ReadIgnored, ReadShutdown, ReadLine
  <2>3. WriteStatus => stdout' = Append(stdout, status) /\ status \in Line /\ status.msg # "event"
    BY DEF WriteStatus, Emit, StatusKind, ReadyLine, ScopeLine, BeginLine, Status, SidecarTypeOK
  <2> QED
    BY <1>2, <1>3, <2>1, <2>2, <2>3
<1>5. CASE Main_ /\ WriteEvent
  <2> DEFINE l == EventLine(snap.bucket, snap.call, Head(ring).tag)
  <2>1. l \in Line /\ l.msg = "event" /\ l.call = snap.call /\ stdout' = Append(stdout, l)
    <3>1. Head(ring) \in Record
      BY <1>5, ReleaseTypes DEF WriteEvent, Goto
    <3>2. l \in Line
      BY <3>1, LineTypes DEF Record, Snap, SidecarTypeOK
    <3> QED
      BY <1>5, <3>2 DEF WriteEvent, Emit, EventLine
  <2> HIDE DEF l
  <2>2. ASSUME NEW c \in mine
        PROVE  /\ CountOf(stdout', c) = CountOf(stdout, c) + (IF c = snap.call THEN 1 ELSE 0)
               /\ reported'[c] = reported[c] + (IF c = snap.call THEN 1 ELSE 0)
               /\ CountOf(stdout, c) \in Nat /\ CountOf(events_by_call[c], c) \in Nat
    <3>1. c \in Calls /\ events_by_call[c] \in Seq(Line) /\ reported[c] \in Nat
      OBVIOUS
    <3>2. CountOf(stdout', c) = CountOf(stdout, c) + (IF c = snap.call THEN 1 ELSE 0)
      BY <1>1, <2>1, <3>1, CountAppend
    <3>3. reported'[c] = reported[c] + (IF c = snap.call THEN 1 ELSE 0)
      BY <1>5, <3>1, ProtocolAssumption DEF Main_, Report, WriteEvent, Goto
    <3> QED
      BY <1>1, <3>1, <3>2, <3>3, CountIsNat
  <2>3. \A c \in mine : end_signals[c] = "set" \/ Answered(c) => c # snap.call
    BY DEF LedgerInv, Holding, LetGo, ClosedCalls, EndSeen
  <2> SUFFICES ASSUME NEW c \in mine
               PROVE  /\ pc[c] = "done" => end_signals[c] = "none"
                      /\ end_signals[c] = "set" => CountOf(events_by_call[c], c) = reported'[c]
                      /\ end_signals[c] # "set" /\ summary[c] = NoSummary /\ reader = "on" =>
                           CountOf(events_by_call[c], c) + CountOf(stdout', c) = reported'[c]
                      /\ Answered(c) => CountOf(summary[c].events, c) = reported'[c]
    BY <1>1 DEF CountInv, Answered
  <2>4. /\ pc[c] = "done" => end_signals[c] = "none"
        /\ end_signals[c] = "set" => CountOf(events_by_call[c], c) = reported[c]
        /\ end_signals[c] # "set" /\ summary[c] = NoSummary /\ reader = "on" =>
             CountOf(events_by_call[c], c) + CountOf(stdout, c) = reported[c]
        /\ Answered(c) => CountOf(summary[c].events, c) = reported[c]
        /\ reported[c] \in Nat
    BY DEF CountInv
  <2> HIDE DEF TypeInv, TypeOK, MonitorTypeOK
  <2>5. CASE c = snap.call
    <3>1. /\ CountOf(stdout', c) = CountOf(stdout, c) + 1 /\ reported'[c] = reported[c] + 1
          /\ CountOf(stdout, c) \in Nat /\ CountOf(events_by_call[c], c) \in Nat
      BY <2>2, <2>5
    <3> QED
      BY <2>3, <2>4, <2>5, <3>1
  <2>6. CASE c # snap.call
    <3>1. CountOf(stdout', c) = CountOf(stdout, c) /\ reported'[c] = reported[c]
      BY <2>2, <2>4, <2>6
    <3> QED
      BY <2>4, <3>1
  <2> QED
    BY <2>5, <2>6
<1>6. CASE Main_ /\ ~WriteEvent
  <2>1. reported' = reported
    BY <1>6 DEF Main_, Report, MainStep, Goto, WriteReady, BeginPass, ExitLoop, NextRecord, KeepRecord,
                SkipRecord, EndDrain, TakeEnds, ApplyEnd, WriteEnd, NextPass
  <2>2. UNCHANGED stdout \/ WriteReady \/ WriteEnd
    BY <1>6 DEF Main_, MainStep, BeginPass, ExitLoop, NextRecord, KeepRecord, SkipRecord, EndDrain,
                TakeEnds, ApplyEnd, NextPass
  <2>3. WriteReady => stdout' = Append(stdout, ReadyLine) /\ ReadyLine \in Line /\ ReadyLine.msg # "event"
    BY LineTypes DEF WriteReady, Emit, ReadyLine, Status
  <2>4. WriteEnd => stdout' = Append(stdout, EndLine(ended)) /\ EndLine(ended) \in Line
                    /\ EndLine(ended).msg # "event"
    BY LineTypes DEF WriteEnd, Emit, EndLine, Status, SidecarTypeOK
  <2> QED
    BY <1>2, <1>3, <2>1, <2>2, <2>3, <2>4
<1> QED
  BY <1>4, <1>5, <1>6

(* CountInv is inductive on top of LedgerInv.                                    *)
LEMMA CountInvariant == Spec => []CountInv
<1>1. Init => CountInv
  BY DEF Init, CountInv
<1>2. TypeInv /\ LedgerInv /\ LedgerInv' /\ CountInv /\ [Next]_vars => CountInv'
  <2> SUFFICES ASSUME TypeInv, LedgerInv, LedgerInv', CountInv, [Next]_vars PROVE CountInv'
    OBVIOUS
  <2>0. mine \subseteq Calls
    BY DEF TypeInv, TypeOK
  <2>1. CASE UNCHANGED vars
    BY <2>0, <2>1, CountKept DEF vars, sidecarVars, monitorVars, collected, history
  <2>2. ASSUME NEW g \in Scopes, FuzzerScopes(g) PROVE CountInv'
    BY <2>0, <2>2, CountKept DEF FuzzerScopes, StdinOnly, monitorVars, collected, history
  <2>3. CASE Stop
    BY <2>0, <2>3, CountKept
       DEF Stop, StopBegins, StopKills, StopEnds, StdinOnly, SidecarGone, Callers, collected, history
  <2>4. CASE Restart
    BY <2>4 DEF Restart, CountInv
  <2>5. CASE SidecarCrashes
    BY <2>0, <2>5, CountKept DEF SidecarCrashes, SidecarGone, monitorVars, collected
  <2>6. ASSUME (\E p \in Procs : Capture(p)) \/ (\E i \in DOMAIN ring : Commit(i)) PROVE CountInv'
    BY <2>0, <2>6, CountKept DEF Capture, Commit, Unmoved, monitorVars, collected
  <2> QED
    BY <2>1, <2>2, <2>3, <2>4, <2>5, <2>6, CallerKeepsCount, ReaderKeepsCount, SidecarKeepsCount DEF Next
<1> QED
  BY <1>1, <1>2, TypeInvariant, LedgerInvariant, PTL DEF Spec

(* A summary that was answered holds as many events as the sidecar wrote for the  *)
(* call on its stdout: none was lost on the way, and none was put in twice.      *)
THEOREM SummaryHasAll == Spec => []AnsweredHasAll
<1>1. CountInv => AnsweredHasAll
  BY DEF CountInv, Answered, CountOf, AnsweredHasAll
<1> QED
  BY <1>1, CountInvariant, PTL
--------------------------------------------------------------------------------
(* Whoever waits for an answer gets one while the sidecar and the reader run.     *)

(* Somebody waits for the answer to a mark; the answer is on its way.            *)
WaitsBegin(c) == Served(c) /\ pc[c] = "opening" /\ begin_signals[c] = "clear"
WaitsEnd(c)   == Served(c) /\ pc[c] = "closing" /\ end_signals[c] = "clear"
BeginComing(c) ==
  \/ Contains(stdin, Begin(c))
  \/ cpc = "status" /\ status = BeginLine(c)
  \/ Contains(stdout, BeginLine(c))
EndComing(c) ==
  \/ Contains(stdin, End(c)) \/ Contains(pending_ends, c) \/ Contains(ends, c)
  \/ Contains(stdout, EndLine(c))

(* A call the fuzzer is busy with, begun with the present sidecar, which runs.    *)
Current(c) == c \in mine /\ c \in Busy /\ Alive

(* What a step can be for a sidecar that still runs after it and has a call.     *)
WritesMark(m) ==
  Alive /\ stdin' = Append(stdin, m) /\ UNCHANGED <<shutdown, cpc, status, stdout, state, mainVars>>
TakesLine ==
  /\ stdout # <<>> /\ stdout' = Tail(stdout) /\ UNCHANGED <<controlVars, state, mainVars>>
  /\ Deliver(Head(stdout)) \/ reader' = "ended"

LEMMA StepKinds ==
  ASSUME [Next]_vars, Alive', mine' # {}
  PROVE  /\ Alive
         /\ \/ \E c \in Calls : (FuzzerBegins(c) /\ WritesMark(Begin(c))) \/ (FuzzerEnds(c) /\ WritesMark(End(c)))
            \/ \E g \in Scopes : WritesMark(Scope(g))
            \/ WritesMark(Shutdown)
            \/ TakesLine
            \/ UNCHANGED <<controlVars, stdout, state, mainVars>>
            \/ ReadSomething \/ WriteStatus \/ MainStep
<1> USE DEF Alive, controlVars, StdinOnly, Write, WritesMark
<1>1. CASE UNCHANGED vars
  BY <1>1 DEF vars, sidecarVars, monitorVars, mainVars
<1>2. ASSUME NEW c \in Calls, FuzzerBegins(c) \/ FuzzerEnds(c)
      PROVE  Alive /\ ((FuzzerBegins(c) /\ WritesMark(Begin(c))) \/ (FuzzerEnds(c) /\ WritesMark(End(c))))
  BY <1>2 DEF FuzzerBegins, FuzzerEnds, BeginCall, EndCall, mainVars
<1>3. ASSUME NEW c \in Calls, CallReturns(c) \/ CallTimesOut(c)
      PROVE  Alive /\ UNCHANGED <<controlVars, stdout, state, mainVars>>
  BY <1>3 DEF CallReturns, CallTimesOut, BeginReturns, EndReturns, sidecarVars, mainVars
<1>4. ASSUME NEW g \in Scopes, FuzzerScopes(g) PROVE Alive /\ WritesMark(Scope(g))
  BY <1>4 DEF FuzzerScopes, monitorVars, mainVars
<1>5. CASE ReadStdout \/ RawFileFull
  <2>1. stdout # <<>> /\ stdout' = Tail(stdout) /\ UNCHANGED <<controlVars, state, mainVars>>
    BY <1>5 DEF ReadStdout, RawFileFull, TakeLine
  <2>2. process' = process /\ (Deliver(Head(stdout)) \/ reader' = "ended")
    BY <1>5 DEF ReadStdout, RawFileFull, Deliver, ReaderDies
  <2> QED
    BY <2>1, <2>2 DEF TakesLine, mainVars
<1>6. CASE Stop
  <2>1. CASE StopBegins /\ Write(Shutdown) /\ UNCHANGED <<scopes, mine>> /\ StdinOnly
    BY <2>1 DEF StopBegins, mainVars
  <2>2. CASE StopKills /\ SidecarGone /\ UNCHANGED <<scopes, mine, history>>
    BY <2>2 DEF SidecarGone
  <2>3. CASE StopEnds
    BY <2>3 DEF StopEnds
  <2> QED
    BY <1>6, <2>1, <2>2, <2>3 DEF Stop
<1>7. CASE Restart
  BY <1>7 DEF Restart
<1>8. CASE Control_
  BY <1>8 DEF Control_, ControlStep, ReadSomething
<1>9. CASE Main_
  BY <1>9 DEF Main_
<1>10. CASE SidecarCrashes
  BY <1>10 DEF SidecarCrashes, SidecarGone
<1>11. ASSUME (\E p \in Procs : Capture(p)) \/ (\E i \in DOMAIN ring : Commit(i))
       PROVE  Alive /\ UNCHANGED <<controlVars, stdout, state, mainVars>>
  BY <1>11 DEF Capture, Commit, Unmoved
<1> QED
  BY <1>1, <1>2, <1>3, <1>4, <1>5, <1>6, <1>7, <1>8, <1>9, <1>10, <1>11 DEF Next

(* Nobody but its own caller makes a call wait, or makes it a current one.       *)
LEMMA WaitsBefore ==
  ASSUME TypeInv, [Next]_vars, NEW c \in Calls
  PROVE  /\ WaitsBegin(c)' => WaitsBegin(c) \/ FuzzerBegins(c)
         /\ WaitsEnd(c)' => WaitsEnd(c) \/ FuzzerEnds(c)
         /\ Current(c)' => Current(c) \/ FuzzerBegins(c)
<1> USE DEF TypeInv, TypeOK, MonitorTypeOK
<1> DEFINE Begun == /\ pc'[c] = "opening" => pc[c] = "opening" /\ (begin_signals'[c] = "clear" => begin_signals[c] = "clear")
                    /\ pc'[c] \in {"opening", "running", "closing"} => pc[c] \in {"opening", "running", "closing"}
           Ended == pc'[c] = "closing" => pc[c] = "closing" /\ (end_signals'[c] = "clear" => end_signals[c] = "clear")
           Kept  == c \in mine /\ (reader' = "on" => reader = "on") /\ Begun /\ (Ended \/ FuzzerEnds(c))
<1>1. ASSUME c \in mine', Alive', ~FuzzerBegins(c) PROVE Alive /\ Kept
  <2>1. Alive
    BY <1>1, StepKinds
  <2>2. CASE UNCHANGED vars
    BY <1>1, <2>1, <2>2 DEF vars, monitorVars
  <2>3. ASSUME NEW d \in Calls, FuzzerBegins(d) \/ FuzzerEnds(d) PROVE Kept
    <3>1. c = d \/ (pc'[c] = pc[c] /\ begin_signals'[c] = begin_signals[c] /\ end_signals'[c] = end_signals[c])
      BY <2>3 DEF FuzzerBegins, FuzzerEnds, BeginCall, EndCall, Sending
    <3>2. CASE c # d
      BY <1>1, <2>1, <2>3, <3>1, <3>2 DEF FuzzerBegins, FuzzerEnds, BeginCall, EndCall
    <3>3. CASE c = d /\ FuzzerEnds(c)
      BY <1>1, <2>1, <3>3 DEF FuzzerEnds, EndCall, Sending
    <3> QED
      BY <1>1, <2>3, <3>2, <3>3
  <2>4. ASSUME NEW d \in Calls, CallReturns(d) \/ CallTimesOut(d) PROVE Kept
    BY <1>1, <2>1, <2>4 DEF CallReturns, CallTimesOut, BeginReturns, EndReturns
  <2>5. CASE ReadStdout \/ RawFileFull
    BY <1>1, <2>1, <2>5 DEF ReadStdout, RawFileFull, TakeLine, Deliver, Wake, ReaderDies
  <2>6. CASE Stop \/ Restart
    BY <1>1, <2>1, <2>6 DEF Stop, StopBegins, StopKills, StopEnds, Restart, Callers
  <2>7. ASSUME \/ \E g \in Scopes : FuzzerScopes(g)
               \/ Control_ \/ Main_ \/ SidecarCrashes
               \/ \E p \in Procs : Capture(p)
               \/ \E i \in DOMAIN ring : Commit(i)
        PROVE  Kept
    BY <1>1, <2>1, <2>7 DEF FuzzerScopes, Control_, Main_, SidecarCrashes, Capture, Commit, Unmoved, monitorVars
  <2> QED
    BY <2>1, <2>2, <2>3, <2>4, <2>5, <2>6, <2>7 DEF Next
<1>2. CASE c \in mine' /\ Alive' /\ ~FuzzerBegins(c)
  BY <1>1, <1>2 DEF WaitsBegin, WaitsEnd, Current, Served, Busy
<1>3. CASE ~(c \in mine' /\ Alive')
  BY <1>3 DEF WaitsBegin, WaitsEnd, Current, Served
<1>4. CASE FuzzerBegins(c)
  BY <1>4 DEF WaitsEnd, FuzzerBegins, BeginCall, Sending
<1> QED
  BY <1>2, <1>3, <1>4

(* A queue that loses its head and grows at its end.                             *)
LEMMA QueueSteps ==
  ASSUME NEW S, NEW q \in Seq(S)
  PROVE  /\ \A m, x : Contains(q, x) \/ x = m => Contains(Append(q, m), x)
         /\ q # <<>> => Head(q) \in S /\ \A x : Contains(q, x) => Contains(Tail(q), x) \/ x = Head(q)
<1>1. \A m : \A x : Contains(q, x) \/ x = m => Contains(Append(q, m), x)
  BY AppendContains DEF Contains
<1>2. ASSUME q # <<>> PROVE Head(q) \in S /\ \A x : Contains(q, x) => Contains(Tail(q), x) \/ x = Head(q)
  BY <1>2, TailContains
<1> QED
  BY <1>1, <1>2

(* Whoever waits for a line is awake when it is read.                            *)
LEMMA LineWakes ==
  ASSUME NEW signals \in [Calls -> Signals], NEW c \in Calls, NEW message, NEW l, l.msg = message, l.call = c
  PROVE  Wake(signals, message, l)[c] # "clear"
<1>1. c # NoCall
  BY ProtocolAssumption
<1>2. CASE signals[c] = "none"
  BY <1>1, <1>2 DEF Wake
<1>3. CASE signals[c] # "none"
  BY <1>1, <1>3 DEF Wake
<1> QED
  BY <1>2, <1>3

(* The answer to a begin mark moves from the mark to the status line to stdout,   *)
(* and where it is read nobody waits any more.                                   *)
LEMMA BeginStaysComing ==
  ASSUME TypeInv, [Next]_vars, NEW c \in Calls, BeginComing(c), WaitsBegin(c)'
  PROVE  BeginComing(c)'
<1> USE DEF TypeInv, TypeOK, SidecarTypeOK
<1>1. Alive' /\ mine' # {} /\ reader' = "on" /\ begin_signals'[c] = "clear"
  BY DEF WaitsBegin, Served
<1>2. ASSUME NEW m, WritesMark(m) PROVE BeginComing(c)'
  BY <1>2, QueueSteps DEF WritesMark, BeginComing
<1>3. CASE TakesLine
  <2>1. Deliver(Head(stdout)) /\ stdout # <<>> /\ stdout' = Tail(stdout) /\ UNCHANGED <<stdin, cpc, status>>
    BY <1>1, <1>3 DEF TakesLine, controlVars
  <2>2. Head(stdout) # BeginLine(c)
    <3>1. begin_signals' = Wake(begin_signals, "begin", Head(stdout)) /\ begin_signals \in [Calls -> Signals]
      BY <2>1 DEF Deliver, MonitorTypeOK
    <3>2. BeginLine(c).msg = "begin" /\ BeginLine(c).call = c
      BY DEF BeginLine, Status
    <3> QED
      BY <1>1, <3>1, <3>2, LineWakes
  <2> QED
    BY <2>1, <2>2, QueueSteps DEF BeginComing
<1>4. CASE UNCHANGED <<controlVars, stdout, state, mainVars>>
  BY <1>4 DEF BeginComing, controlVars
<1>5. CASE ReadSomething
  <2>1. cpc = "read" /\ stdin # <<>> /\ stdin' = Tail(stdin) /\ stdout' = stdout
    BY <1>5 DEF ReadSomething, ReadScope, ReadBegin, ReadEnd, ReadIgnored, ReadShutdown, ReadLine
  <2>2. CASE Head(stdin) = Begin(c)
    <3>1. ReadBegin
      BY <1>5, <2>2 DEF ReadSomething, ReadScope, ReadEnd, ReadIgnored, ReadShutdown, ReadLine, Begin
    <3> QED
      BY <2>2, <3>1 DEF ReadBegin, Begin, BeginComing
  <2>3. CASE Head(stdin) # Begin(c)
    BY <2>1, <2>3, QueueSteps DEF BeginComing
  <2> QED
    BY <2>2, <2>3
<1>6. CASE WriteStatus
  BY <1>6, QueueSteps DEF WriteStatus, Emit, BeginComing
<1>7. CASE MainStep
  <2>1. UNCHANGED <<stdin, cpc, status>>
    BY <1>7 DEF MainStep, controlVars, WriteReady, BeginPass, ExitLoop, NextRecord, KeepRecord, SkipRecord,
         WriteEvent, EndDrain, TakeEnds, ApplyEnd, WriteEnd, NextPass
  <2>2. stdout' = stdout \/ \E l : stdout' = Append(stdout, l)
    BY <1>7 DEF MainStep, Emit, WriteReady, BeginPass, ExitLoop, NextRecord, KeepRecord, SkipRecord,
         WriteEvent, EndDrain, TakeEnds, ApplyEnd, WriteEnd, NextPass
  <2>3. \A l, x : Contains(stdout, x) => Contains(Append(stdout, l), x)
    BY QueueSteps
  <2>4. Contains(stdout, BeginLine(c)) => Contains(stdout', BeginLine(c))
    BY <2>2, <2>3, Zenon
  <2> QED
    BY <2>1, <2>4 DEF BeginComing
<1> QED
  BY <1>1, <1>2, <1>3, <1>4, <1>5, <1>6, <1>7, StepKinds

(* No begin mark is swallowed: while the sidecar and the reader run, the begin    *)
(* status begin_call waits for is always to come, overlapping calls included:    *)
(* monitor.py:138-140.                                                           *)
THEOREM BeginsAreAnswered == Spec => []BeginAnswerComing
<1>1. Init => BeginAnswerComing
  BY DEF Init, BeginAnswerComing, Served
<1>2. TypeInv /\ BeginAnswerComing /\ [Next]_vars => BeginAnswerComing'
  <2> SUFFICES ASSUME TypeInv, BeginAnswerComing, [Next]_vars, NEW c \in Calls, WaitsBegin(c)'
               PROVE  BeginComing(c)'
    BY DEF BeginAnswerComing, WaitsBegin, BeginComing
  <2>1. CASE WaitsBegin(c)
    BY <2>1, BeginStaysComing DEF BeginAnswerComing, WaitsBegin, BeginComing
  <2>2. CASE FuzzerBegins(c)
    <3>1. Alive' /\ pc'[c] = "opening"
      BY DEF WaitsBegin, Served
    <3>2. stdin' = Append(stdin, Begin(c))
      BY <2>2, <3>1 DEF FuzzerBegins, BeginCall, Sending, Write, TypeInv, TypeOK, MonitorTypeOK
    <3> QED
      BY <3>2, QueueSteps DEF BeginComing, TypeInv, TypeOK, SidecarTypeOK
  <2> QED
    BY <2>1, <2>2, WaitsBefore
<1> QED
  BY <1>1, <1>2, TypeInvariant, PTL DEF Spec

(* The call the fuzzer is busy with is the last one begun: nothing behind its     *)
(* begin mark begins another, and once the mark is read no other call is active.  *)
Newest(c) ==
  IF Contains(stdin, Begin(c))
    THEN \A i, j \in DOMAIN stdin : stdin[i] = Begin(c) /\ stdin[j].op = "begin" => j <= i
    ELSE (\A j \in DOMAIN stdin : stdin[j].op # "begin") /\ active_call \in {c, NoCall}
LastBegun == \A c \in Calls : Current(c) => Newest(c)

(* The main loop holds end marks only between taking the queue and the next pass, *)
(* and the end status it is about to write for the mark of a current call is of   *)
(* that call.                                                                    *)
EndInHand ==
  /\ mpc \notin {"apply", "end"} => ends = <<>>
  /\ mpc = "end" => ends # <<>> /\ \A c \in Calls : Current(c) /\ Head(ends) = c => ended = c

(* A write that is no begin mark leaves the newest call the newest.              *)
LEMMA WriteKeepsLast ==
  ASSUME TypeInv, NEW c \in Calls, Newest(c), NEW m \in Control, m.op # "begin",
         stdin' = Append(stdin, m), active_call' = active_call
  PROVE  Newest(c)'
<1> DEFINE n == Len(stdin) + 1
<1>1. /\ stdin \in Seq(Control) /\ Len(stdin) \in Nat /\ Len(stdin') = n
      /\ stdin'[n] = m /\ \A i \in 1..Len(stdin) : stdin'[i] = stdin[i]
      /\ DOMAIN stdin = 1..Len(stdin) /\ DOMAIN stdin' = 1..n
  BY DEF TypeInv, TypeOK, SidecarTypeOK
<1> HIDE DEF n
<1>2. \A i \in DOMAIN stdin' : (i \in DOMAIN stdin /\ stdin'[i] = stdin[i]) \/ i = n
  BY <1>1 DEF n
<1>3. Begin(c).op = "begin" /\ m # Begin(c)
  BY DEF Begin
<1>4. Contains(stdin, Begin(c))' <=> Contains(stdin, Begin(c))
  BY <1>1, <1>2, <1>3 DEF Contains
<1> QED
  BY <1>1, <1>2, <1>3, <1>4 DEF Newest

LEMMA LastBegunStep ==
  ASSUME Overlap = FALSE, TypeInv, LedgerInv, LastBegun, [Next]_vars
  PROVE  LastBegun'
<1> USE DEF TypeInv, TypeOK, SidecarTypeOK
<1> SUFFICES ASSUME NEW c \in Calls, Current(c)' PROVE Newest(c)'
  BY DEF LastBegun
<1>1. Alive' /\ mine' # {}
  BY DEF Current
<1>2. CASE FuzzerBegins(c)
  <2>1. stdin' = Append(stdin, Begin(c)) /\ pc[c] = "new"
    BY <1>1, <1>2 DEF Current, Busy, FuzzerBegins, BeginCall, Sending, Write, MonitorTypeOK
  <2>2. \A i \in DOMAIN stdin : stdin[i] # Begin(c)
    BY <2>1 DEF LedgerInv, MarksInOrder
  <2>3. /\ Len(stdin) \in Nat /\ DOMAIN stdin = 1..Len(stdin) /\ DOMAIN stdin' = 1..(Len(stdin) + 1)
        /\ \A i \in 1..Len(stdin) : stdin'[i] = stdin[i]
        /\ Contains(stdin', Begin(c))
    BY <2>1, QueueSteps
  <2> QED
    BY <2>2, <2>3 DEF Newest
<1>3. ASSUME Current(c), ~FuzzerBegins(c) PROVE Newest(c)'
  <2>1. Newest(c) /\ c \in Busy
    BY <1>3 DEF LastBegun, Current
  <2>2. ASSUME NEW m \in Control, m.op # "begin", WritesMark(m) PROVE Newest(c)'
    BY <2>1, <2>2, WriteKeepsLast DEF WritesMark, state
  <2>3. ASSUME NEW d \in Calls, FuzzerBegins(d) PROVE FALSE
    BY <2>1, <2>3 DEF FuzzerBegins
  <2>4. ASSUME NEW d \in Calls, WritesMark(End(d)) PROVE Newest(c)'
    BY <2>2, <2>4, MessageTypes DEF End
  <2>5. ASSUME NEW g \in Scopes, WritesMark(Scope(g)) PROVE Newest(c)'
    BY <2>2, <2>5, MessageTypes DEF Scope
  <2>6. ASSUME WritesMark(Shutdown) PROVE Newest(c)'
    BY <2>2, <2>6, MessageTypes DEF Shutdown
  <2>7. CASE TakesLine \/ UNCHANGED <<controlVars, stdout, state, mainVars>> \/ WriteStatus
    BY <2>1, <2>7 DEF Newest, TakesLine, WriteStatus, controlVars, state
  <2>8. CASE ReadSomething
    <3>1. /\ stdin # <<>> /\ stdin' = Tail(stdin)
          /\ (ReadBegin /\ Head(stdin).op = "begin" /\ active_call' = Head(stdin).arg)
             \/ (Head(stdin).op # "begin" /\ active_call' = active_call)
      BY <2>8 DEF ReadSomething, ReadScope, ReadBegin, ReadEnd, ReadIgnored, ReadShutdown, ReadLine, state
    <3>2. /\ Len(stdin) \in Nat \ {0} /\ DOMAIN stdin = 1..Len(stdin) /\ DOMAIN stdin' = 1..(Len(stdin) - 1)
          /\ \A i \in 1..(Len(stdin) - 1) : stdin'[i] = stdin[i + 1] /\ i + 1 \in 1..Len(stdin)
          /\ Head(stdin) = stdin[1] /\ 1 \in DOMAIN stdin /\ Len(stdin') = Len(stdin) - 1
      BY <3>1
    <3>3. CASE Contains(stdin', Begin(c))
      <4>1. Contains(stdin, Begin(c))
        BY <3>1, <3>3, TailContains
      <4>2. \A i, j \in DOMAIN stdin : stdin[i] = Begin(c) /\ stdin[j].op = "begin" => j <= i
        BY <2>1, <4>1 DEF Newest
      <4>3. ASSUME NEW i \in DOMAIN stdin', NEW j \in DOMAIN stdin', stdin'[i] = Begin(c), stdin'[j].op = "begin"
            PROVE  j <= i
        <5>1. i + 1 \in DOMAIN stdin /\ j + 1 \in DOMAIN stdin /\ stdin'[i] = stdin[i + 1] /\ stdin'[j] = stdin[j + 1]
          BY <3>2
        <5>2. j + 1 <= i + 1
          BY <4>2, <4>3, <5>1
        <5> QED
          BY <3>2, <5>2
      <4> QED
        BY <3>3, <4>3 DEF Newest
    <3>4. CASE ~Contains(stdin', Begin(c)) /\ Contains(stdin, Begin(c))
      <4>1. stdin[1] = Begin(c)
        BY <3>1, <3>2, <3>4, TailContains
      <4>2. \A j \in DOMAIN stdin : stdin[j].op = "begin" => j <= 1
        BY <2>1, <3>2, <3>4, <4>1 DEF Newest
      <4>3. \A j \in DOMAIN stdin' : stdin'[j].op # "begin"
        BY <3>2, <4>2
      <4>4. active_call' = c
        BY <3>1, <3>2, <4>1 DEF Begin
      <4> QED
        BY <3>4, <4>3, <4>4 DEF Newest
    <3>5. CASE ~Contains(stdin, Begin(c))
      <4>1. ~Contains(stdin', Begin(c))
        BY <3>1, <3>5, TailContains
      <4> QED
        BY <2>1, <3>1, <3>2, <3>5, <4>1 DEF Newest
    <3> QED
      BY <3>3, <3>4, <3>5
  <2>9. CASE MainStep
    <3>1. stdin' = stdin /\ active_call' \in {active_call, NoCall}
      BY <2>9 DEF MainStep, controlVars, state, WriteReady, BeginPass, ExitLoop, NextRecord, KeepRecord, SkipRecord,
         WriteEvent, EndDrain, TakeEnds, ApplyEnd, WriteEnd, NextPass
    <3> QED
      BY <2>1, <3>1 DEF Newest
  <2> QED
    BY <1>1, <1>3, <2>3, <2>4, <2>5, <2>6, <2>7, <2>8, <2>9, StepKinds
<1> QED
  BY <1>2, <1>3, WaitsBefore

(* The end mark at hand is that of the call that is active, or none is active:    *)
(* so it is the current call that ends.                                          *)
LEMMA EndInHandStep ==
  ASSUME TypeInv, LedgerInv, LedgerInv', LastBegun, EndInHand, [Next]_vars
  PROVE  EndInHand'
<1> USE DEF TypeInv, TypeOK, SidecarTypeOK
<1>1. ASSUME NEW c \in Calls, Current(c)', mpc = "end", mpc' = "end", ends' = ends, ended' = ended, Head(ends) = c
      PROVE  ended' = c
  <2>1. ends # <<>> /\ Head(ends) \in {ends[i] : i \in DOMAIN ends}
    BY <1>1 DEF EndInHand
  <2>2. pc[c] # "new"
    BY <1>1, <2>1, ProtocolAssumption DEF LedgerInv, Holding, HoldsOnly, BegunCalls
  <2>3. Current(c)
    BY <1>1, <2>2, WaitsBefore DEF FuzzerBegins, BeginCall
  <2> QED
    BY <1>1, <2>3 DEF EndInHand
<1>2. CASE UNCHANGED <<mpc, ends, ended>>
  BY <1>1, <1>2 DEF EndInHand
<1>3. CASE SidecarGone
  BY <1>3 DEF SidecarGone, EndInHand
<1>4. CASE Restart
  BY <1>4 DEF Restart, Start, LedgerInv, GoneWhenOff, EndInHand
<1>5. CASE Main_ /\ ~UNCHANGED <<mpc, ends, ended>>
  <2>1. Alive /\ MainStep
    BY <1>5 DEF Main_
  <2>2. CASE ApplyEnd
    <3>1. ends # <<>> /\ ends' = ends /\ mpc' = "end" /\ ended' = IF active_call # NoCall THEN active_call ELSE Head(ends)
      BY <2>2 DEF ApplyEnd, Goto
    <3>2. ASSUME NEW c \in Calls, Current(c)', Head(ends) = c PROVE ended' = c
      <4>1. Head(ends) \in {ends[i] : i \in DOMAIN ends}
        BY <3>1
      <4>2. c \in BegunCalls
        BY <3>2, <4>1, ProtocolAssumption DEF LedgerInv, Holding, HoldsOnly
      <4>3. Current(c)
        BY <3>2, <4>2, WaitsBefore DEF FuzzerBegins, BeginCall, BegunCalls
      <4>4. active_call \in {c, NoCall}
        BY <4>2, <4>3 DEF LastBegun, Newest, BegunCalls
      <4> QED
        BY <3>1, <3>2, <4>4
    <3> QED
      BY <3>1, <3>2 DEF EndInHand
  <2>3. CASE ~ApplyEnd
    BY <1>5, <2>1, <2>3 DEF EndInHand, MainStep, Goto, WriteReady, BeginPass, ExitLoop, NextRecord, KeepRecord,
       SkipRecord, WriteEvent, EndDrain, TakeEnds, WriteEnd, NextPass
  <2> QED
    BY <2>2, <2>3
<1>6. \/ UNCHANGED <<mpc, ends, ended>>
      \/ SidecarGone \/ Restart
      \/ Main_ /\ ~UNCHANGED <<mpc, ends, ended>>
  <2> USE DEF mainVars
  <2>1. CASE UNCHANGED vars
    BY <2>1 DEF vars, sidecarVars
  <2>2. ASSUME NEW c \in Calls, FuzzerBegins(c) \/ FuzzerEnds(c) \/ CallReturns(c) \/ CallTimesOut(c)
        PROVE  UNCHANGED <<mpc, ends, ended>>
    BY <2>2 DEF FuzzerBegins, FuzzerEnds, CallReturns, CallTimesOut, StdinOnly, sidecarVars
  <2>3. ASSUME (\E g \in Scopes : FuzzerScopes(g)) \/ ReadStdout \/ RawFileFull
        PROVE  UNCHANGED <<mpc, ends, ended>>
    BY <2>3 DEF FuzzerScopes, StdinOnly, ReadStdout, RawFileFull, TakeLine
  <2>4. CASE Stop \/ SidecarCrashes
    BY <2>4 DEF Stop, StdinOnly, SidecarCrashes
  <2>5. ASSUME Control_ \/ (\E p \in Procs : Capture(p)) \/ (\E i \in DOMAIN ring : Commit(i))
        PROVE  UNCHANGED <<mpc, ends, ended>>
    BY <2>5 DEF Control_, ControlStep, ReadScope, ReadBegin, ReadEnd, ReadIgnored, ReadShutdown, ReadLine,
       WriteStatus, Capture, Commit, Unmoved
  <2> QED
    BY <2>1, <2>2, <2>3, <2>4, <2>5 DEF Next
<1> QED
  BY <1>2, <1>3, <1>4, <1>5, <1>6

(* The answer to an end mark moves from the mark to the queue, into the pass that *)
(* takes the queue, and to stdout.                                               *)
LEMMA EndStaysComing ==
  ASSUME TypeInv, EndInHand, [Next]_vars, NEW c \in Calls, WaitsEnd(c), EndComing(c), WaitsEnd(c)'
  PROVE  EndComing(c)'
<1> USE DEF TypeInv, TypeOK, SidecarTypeOK
<1>1. Alive' /\ mine' # {} /\ reader' = "on" /\ end_signals'[c] = "clear" /\ Current(c)
  BY DEF WaitsEnd, Served, Current, Busy
<1>2. ASSUME NEW m, WritesMark(m) PROVE EndComing(c)'
  <2>1. UNCHANGED <<stdout, pending_ends, ends>> /\ stdin' = Append(stdin, m)
    BY <1>2 DEF WritesMark, state, mainVars
  <2> QED
    BY <2>1, QueueSteps DEF EndComing
<1>3. CASE TakesLine
  <2>1. Deliver(Head(stdout)) /\ stdout # <<>> /\ stdout' = Tail(stdout) /\ UNCHANGED <<stdin, pending_ends, ends>>
    BY <1>1, <1>3 DEF TakesLine, controlVars, state, mainVars
  <2>2. Head(stdout) # EndLine(c)
    <3>1. end_signals' = Wake(end_signals, "end", Head(stdout)) /\ end_signals \in [Calls -> Signals]
      BY <2>1 DEF Deliver, MonitorTypeOK
    <3>2. EndLine(c).msg = "end" /\ EndLine(c).call = c
      BY DEF EndLine, Status
    <3> QED
      BY <1>1, <3>1, <3>2, LineWakes
  <2> QED
    BY <2>1, <2>2, QueueSteps DEF EndComing
<1>4. CASE UNCHANGED <<controlVars, stdout, state, mainVars>>
  BY <1>4 DEF EndComing, controlVars, state, mainVars
<1>5. CASE ReadSomething
  <2>1. stdin # <<>> /\ stdin' = Tail(stdin) /\ UNCHANGED <<stdout, ends>>
    BY <1>5 DEF ReadSomething, ReadScope, ReadBegin, ReadEnd, ReadIgnored, ReadShutdown, ReadLine, mainVars
  <2>2. CASE ReadEnd
    <3>1. Head(stdin) = End(c) => Head(stdin).arg = c
      BY DEF End
    <3>2. pending_ends' = Append(pending_ends, Head(stdin).arg)
      BY <2>2 DEF ReadEnd
    <3> QED
      BY <2>1, <3>1, <3>2, QueueSteps DEF EndComing
  <2>3. CASE ~ReadEnd
    <3>1. pending_ends' = pending_ends /\ Head(stdin).op # "end"
      BY <1>5, <2>3 DEF ReadSomething, ReadScope, ReadBegin, ReadIgnored, ReadShutdown, ReadLine, state
    <3>2. Head(stdin) # End(c)
      BY <3>1 DEF End
    <3> QED
      BY <2>1, <3>1, <3>2, QueueSteps DEF EndComing
  <2> QED
    BY <2>2, <2>3
<1>6. CASE WriteStatus
  <2>1. UNCHANGED <<stdin, pending_ends, ends>> /\ stdout' = Append(stdout, status)
    BY <1>6 DEF WriteStatus, Emit, state, mainVars
  <2> QED
    BY <2>1, QueueSteps DEF EndComing
<1>7. CASE MainStep
  <2>0. stdin' = stdin
    BY <1>7 DEF MainStep, controlVars, WriteReady, BeginPass, ExitLoop, NextRecord, KeepRecord, SkipRecord,
         WriteEvent, EndDrain, TakeEnds, ApplyEnd, WriteEnd, NextPass
  <2>1. CASE TakeEnds
    <3>1. ends = <<>> /\ ends' = pending_ends /\ stdout' = stdout
      BY <2>1 DEF TakeEnds, Goto, EndInHand
    <3>2. ~Contains(ends, c)
      BY <3>1 DEF Contains
    <3> QED
      BY <2>0, <3>1, <3>2 DEF EndComing
  <2>2. CASE WriteEnd
    <3>1. /\ mpc = "end" /\ ends' = Tail(ends) /\ stdout' = Append(stdout, EndLine(ended))
          /\ pending_ends' = pending_ends /\ ends # <<>>
      BY <2>2 DEF WriteEnd, Goto, Emit, state, EndInHand
    <3>2. Head(ends) = c => ended = c
      BY <1>1, <3>1 DEF EndInHand
    <3>3. Contains(ends, c) => Contains(ends', c) \/ Contains(stdout', EndLine(c))
      BY <3>1, <3>2, QueueSteps
    <3>4. Contains(stdout, EndLine(c)) => Contains(stdout', EndLine(c))
      BY <3>1, QueueSteps
    <3> QED
      BY <2>0, <3>1, <3>3, <3>4 DEF EndComing
  <2>3. CASE ~TakeEnds /\ ~WriteEnd
    <3>1. UNCHANGED <<pending_ends, ends>> /\ (stdout' = stdout \/ \E l : stdout' = Append(stdout, l))
      BY <1>7, <2>3 DEF MainStep, Emit, state, WriteReady, BeginPass, ExitLoop, NextRecord, KeepRecord, SkipRecord,
         WriteEvent, EndDrain, ApplyEnd, NextPass
    <3>2. \A l, x : Contains(stdout, x) => Contains(Append(stdout, l), x)
      BY QueueSteps
    <3>3. Contains(stdout, EndLine(c)) => Contains(stdout', EndLine(c))
      BY <3>1, <3>2, Zenon
    <3> QED
      BY <2>0, <3>1, <3>3 DEF EndComing
  <2> QED
    BY <2>1, <2>2, <2>3
<1> QED
  BY <1>1, <1>2, <1>3, <1>4, <1>5, <1>6, <1>7, StepKinds

(* No end mark is swallowed either, as long as the fuzzer serializes its calls:   *)
(* also the end status of a call whose predecessor timed out, and whose late end  *)
(* mark is applied behind it, is always to come: monitor.py:147-149.             *)
THEOREM EndsAreAnswered == ASSUME Overlap = FALSE PROVE Spec => []EndAnswerComing
<1> DEFINE Inv == LastBegun /\ EndInHand /\ EndAnswerComing
<1>1. Init => Inv
  BY DEF Init, SidecarInit, LastBegun, Current, EndInHand, EndAnswerComing, Served
<1>2. TypeInv /\ LedgerInv /\ LedgerInv' /\ Inv /\ [Next]_vars => Inv'
  <2> SUFFICES ASSUME TypeInv, LedgerInv, LedgerInv', Inv, [Next]_vars PROVE Inv'
    OBVIOUS
  <2>1. ASSUME NEW c \in Calls, WaitsEnd(c)' PROVE EndComing(c)'
    <3>1. CASE WaitsEnd(c)
      BY <2>1, <3>1, EndStaysComing DEF EndAnswerComing, WaitsEnd, EndComing
    <3>2. CASE FuzzerEnds(c)
      <4>1. Alive' /\ pc'[c] = "closing"
        BY <2>1 DEF WaitsEnd, Served
      <4>2. stdin' = Append(stdin, End(c))
        BY <3>2, <4>1 DEF FuzzerEnds, EndCall, Sending, Write, TypeInv, TypeOK, MonitorTypeOK
      <4> QED
        BY <4>2, QueueSteps DEF EndComing, TypeInv, TypeOK, SidecarTypeOK
    <3> QED
      BY <2>1, <3>1, <3>2, WaitsBefore
  <2>2. EndAnswerComing'
    BY <2>1 DEF EndAnswerComing, WaitsEnd, EndComing
  <2> QED
    BY <2>2, LastBegunStep, EndInHandStep
<1> QED
  BY <1>1, <1>2, TypeInvariant, LedgerInvariant, PTL DEF Spec
================================================================================
