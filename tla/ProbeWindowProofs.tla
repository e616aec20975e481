-------------------------- MODULE ProbeWindowProofs ----------------------------
(* The window of a call over the whole probe: with one call at a time, and as    *)
(* long as no end_call timed out, an event captured between the return of        *)
(* begin_call and the call of end_call is filed under that call.  Waits of       *)
(* begin_call may time out, the sidecar crash, the reader die and the monitor be  *)
(* stopped and started again.                                                    *)
EXTENDS ProbeSummaryProofs

(* Calls the sidecar has begun as far as somebody can see: the reader has read    *)
(* the begin status, or it is written or about to be written.                    *)
BegunIn(q) == {c \in Calls : \E i \in DOMAIN q : q[i].msg = "begin" /\ q[i].call = c}
BeginsSeen ==
  {c \in Calls : begin_signals[c] = "set" \/ c \in BegunIn(stdout)
                   \/ (status.msg = "begin" /\ status.call = c)}

(* One call at a time, whatever happened to the ones before it.  A call that     *)
(* could not be begun or ended is not one the present sidecar was told of.       *)
Told(c) == Contains(stdin, Begin(c)) \/ active_call = c
OneCall ==
  /\ \A c, d \in Busy : c = d
  /\ \A c \in Calls : pc[c] = "done" => summary[c] # NoSummary
  /\ process \in {"joining", "off"} =>
       stdin = <<>> /\ active_call = NoCall /\ pending_ends = <<>> /\ ends = <<>>
  /\ mpc # "done" => \A c \in Calls : Told(c) => pc[c] # "failed"
  /\ ~Contains(stdin, Begin(NoCall))
  /\ BeginsSeen \subseteq BegunCalls

(* There is one end mark at most, and it asks for the call that is closing.      *)
EndMark(c) == Contains(stdin, End(c)) \/ Contains(pending_ends, c) \/ Contains(ends, c)
EndOnce(q) == \A c \in Calls : \A i, j \in DOMAIN q : q[i] = End(c) /\ q[j] = End(c) => i = j
OneEndMark ==
  /\ \A c \in MaybeCall : EndMark(c) => c \in Calls /\ pc[c] = "closing" /\ c \notin ClosedCalls
  /\ Len(ends) + Len(pending_ends) <= 1
  /\ \A c \in Calls : Contains(stdin, End(c)) => ends = <<>> /\ pending_ends = <<>>
  /\ EndOnce(stdin)
  /\ mpc = "end" => ended = Head(ends)

(* A call begun with this sidecar is active until it is asked to end.            *)
HeldOpen == \A c \in mine \cap BegunCalls : pc[c] \in {"opening", "running"} => active_call = c

AnsweredInv ==
  AllAnswered =>
    /\ \A c \in ClosedCalls : pc[c] \in {"closing", "done"}
    /\ mpc # "done" => OneEndMark /\ HeldOpen

CallInv == OneCall /\ AnsweredInv

--------------------------------------------------------------------------------
(* What the invariant says of a state.                                           *)

LEMMA AliveIs ==
  ASSUME TypeInv, LedgerInv
  PROVE  Alive <=> mpc # "done"
BY DEF Alive, TypeInv, TypeOK, MonitorTypeOK, LedgerInv, GoneWhenOff

(* A call the sidecar was told of and that is not over is the busy one.           *)
LEMMA ToldIsBusy ==
  ASSUME TypeInv, LedgerInv, OneCall, AllAnswered, mpc # "done", NEW c \in Calls, Told(c)
  PROVE  c \in Busy /\ c \notin ClosedCalls
<1>1. c \notin ClosedCalls
  <2>1. CASE Contains(stdin, Begin(c))
    BY <2>1 DEF LedgerInv, Holding, BegunCalls
  <2>2. CASE active_call = c
    BY <2>2 DEF LedgerInv, Holding, LetGo
  <2> QED
    BY <2>1, <2>2 DEF Told
<1>2. pc[c] # "new"
  <2>1. CASE Contains(stdin, Begin(c))
    BY <2>1 DEF LedgerInv, MarksInOrder, Contains, TypeInv, TypeOK, SidecarTypeOK
  <2>2. CASE active_call = c
    BY <2>2, ProtocolAssumption DEF LedgerInv, Holding, HoldsOnly, BegunCalls
  <2> QED
    BY <2>1, <2>2 DEF Told
<1>3. pc[c] # "failed"
  BY DEF OneCall
<1>4. pc[c] # "done"
  BY <1>1 DEF OneCall, AllAnswered, ClosedCalls, EndSeen, Answered
<1>5. pc[c] \in Phases
  BY DEF TypeInv, TypeOK, MonitorTypeOK
<1> QED
  BY <1>1, <1>2, <1>3, <1>4, <1>5 DEF Busy, Phases

(* Summaries are only added, and never changed.                                  *)
LEMMA AnswersLeft ==
  ASSUME TypeInv, SummaryInv, [Next]_vars
  PROVE  AllAnswered' => AllAnswered
<1>1. CASE summary' = summary
  BY <1>1 DEF AllAnswered
<1>2. ASSUME NEW c \in Calls, NEW timeout \in BOOLEAN, EndReturns(c, timeout)
      PROVE  AllAnswered' => AllAnswered
  <2>1. summary[c] = NoSummary /\ \A d \in Calls \ {c} : summary'[d] = summary[d]
    BY <1>2 DEF EndReturns, SummaryInv, TypeInv, TypeOK, MonitorTypeOK
  <2> QED
    BY <2>1 DEF AllAnswered
<1> QED
  BY <1>1, <1>2, MonitorSteps DEF ReadStdout, Deliver, vars, monitorVars

--------------------------------------------------------------------------------
(* Steps that move no mark.                                                      *)

SameMarks ==
  /\ \A c \in MaybeCall : /\ Contains(stdin', Begin(c)) <=> Contains(stdin, Begin(c))
                          /\ Contains(stdin', End(c)) <=> Contains(stdin, End(c))
  /\ EndOnce(stdin) => EndOnce(stdin')

(* They may read or write a line, but no begin status that nobody knew of.        *)
LEMMA QuietKeepsCalls ==
  ASSUME TypeInv, CallInv, SameMarks,
         UNCHANGED <<active_call, pending_ends, ends, pc, summary, mine>>,
         process' \in {"joining", "off"} => process \in {"joining", "off"} /\ stdin' = stdin,
         mpc' # "done" => mpc # "done",
         mpc' = "end" => mpc = "end" /\ ended' = ended,
         ClosedCalls' \subseteq ClosedCalls, BeginsSeen' \subseteq BeginsSeen
  PROVE  CallInv'
<1>1. BegunCalls' = BegunCalls
  BY DEF BegunCalls, MaybeCall, SameMarks
<1>2. OneCall'
  BY <1>1 DEF CallInv, OneCall, Busy, Told, MaybeCall, SameMarks
<1>3. \A c \in MaybeCall : EndMark(c)' <=> EndMark(c)
  BY DEF EndMark, SameMarks
<1>4. ASSUME AllAnswered', mpc' # "done" PROVE OneEndMark'
  <2>1. OneEndMark
    BY <1>4 DEF CallInv, AnsweredInv, AllAnswered
  <2>2. EndOnce(stdin)'
    BY <2>1 DEF OneEndMark, SameMarks, EndOnce
  <2> QED
    BY <1>3, <2>1, <2>2 DEF OneEndMark, SameMarks, MaybeCall
<1>5. ASSUME AllAnswered', mpc' # "done" PROVE HeldOpen'
  BY <1>1, <1>5 DEF CallInv, AnsweredInv, AllAnswered, HeldOpen
<1>6. AllAnswered' => \A c \in ClosedCalls' : pc'[c] \in {"closing", "done"}
  BY DEF CallInv, AnsweredInv, AllAnswered
<1> QED
  BY <1>2, <1>4, <1>5, <1>6 DEF CallInv, AnsweredInv

(* Reading what is no mark, or writing it.                                       *)
LEMMA NoMarkRead ==
  ASSUME NEW q \in Seq(Control), q # <<>>, Head(q).op \notin {"begin", "end"}
  PROVE  /\ \A c \in MaybeCall : /\ Contains(Tail(q), Begin(c)) <=> Contains(q, Begin(c))
                                 /\ Contains(Tail(q), End(c)) <=> Contains(q, End(c))
         /\ EndOnce(q) => EndOnce(Tail(q))
<1>1. \A x : Contains(q, x) <=> Contains(Tail(q), x) \/ x = Head(q)
  BY TailContains
<1>2. \A c : Head(q) # Begin(c) /\ Head(q) # End(c)
  BY DEF Begin, End
<1>3. \A i \in DOMAIN Tail(q) : i \in Nat /\ i + 1 \in DOMAIN q /\ Tail(q)[i] = q[i + 1]
  OBVIOUS
<1>4. EndOnce(q) => EndOnce(Tail(q))
  BY <1>3 DEF EndOnce
<1> QED
  BY <1>1, <1>2, <1>4

LEMMA NoMarkWritten ==
  ASSUME NEW q \in Seq(Control), NEW m \in Control, m.op \notin {"begin", "end"},
         NEW r, r = Append(q, m)
  PROVE  /\ \A c \in MaybeCall : /\ Contains(r, Begin(c)) <=> Contains(q, Begin(c))
                                 /\ Contains(r, End(c)) <=> Contains(q, End(c))
         /\ EndOnce(q) => EndOnce(r)
<1>1. \A x : Contains(r, x) <=> Contains(q, x) \/ x = m
  BY AppendContains
<1>2. \A c : m # Begin(c) /\ m # End(c)
  BY DEF Begin, End
<1>3. \A i \in DOMAIN r : r[i] = m \/ (i \in DOMAIN q /\ r[i] = q[i])
  OBVIOUS
<1>4. EndOnce(q) => EndOnce(r)
  BY <1>2, <1>3 DEF EndOnce
<1> QED
  BY <1>1, <1>2, <1>4

--------------------------------------------------------------------------------
(* The fuzzer.                                                                   *)

(* begin_call when no other call is busy.                                        *)
LEMMA BeginKeepsCalls ==
  ASSUME TypeInv, LedgerInv, CallInv, Overlap = FALSE, NEW c \in Calls, FuzzerBegins(c)
  PROVE  CallInv'
<1> USE DEF TypeInv, TypeOK, MonitorTypeOK
<1>1. /\ Busy = {} /\ pc[c] = "new"
      /\ pc' = [pc EXCEPT ![c] = IF mpc # "done" THEN "opening" ELSE "failed"]
      /\ stdin' = IF mpc # "done" THEN Append(stdin, Begin(c)) ELSE stdin
      /\ mine' = mine \cup {c}
  BY AliveIs DEF FuzzerBegins, BeginCall, Sending, Write, Alive
<1>2. UNCHANGED <<active_call, pending_ends, ends, ended, mpc, process, summary, stdout, status>>
  BY DEF FuzzerBegins, BeginCall, StdinOnly, state, mainVars
<1>3. /\ \A d \in Calls : begin_signals'[d] = "set" => begin_signals[d] = "set"
      /\ \A d \in Calls : end_signals'[d] = "set" => end_signals[d] = "set"
  BY DEF FuzzerBegins, BeginCall
<1>4. \A x : Contains(stdin', x) <=> Contains(stdin, x) \/ (mpc # "done" /\ x = Begin(c))
  BY <1>1, AppendContains, MessageTypes DEF SidecarTypeOK
<1>5. /\ BegunCalls \subseteq BegunCalls' /\ BegunCalls' \subseteq BegunCalls \cup {c}
      /\ mpc # "done" => c \notin BegunCalls'
      /\ c \notin BegunCalls
  BY <1>1, <1>4, MarksDiffer DEF BegunCalls
<1>6. BeginsSeen' \subseteq BeginsSeen /\ ClosedCalls' \subseteq ClosedCalls
  BY <1>2, <1>3 DEF BeginsSeen, BegunIn, ClosedCalls, EndSeen, EndedIn, Answered
<1>7. Busy' \subseteq {c} /\ \A d \in Calls : pc[d] \notin {"opening", "running", "closing"}
  BY <1>1 DEF Busy
<1>8. OneCall'
  <2>1. \A d \in Calls : Told(d)' => Told(d) \/ d = c
    BY <1>2, <1>4, MarksDiffer DEF Told
  <2>2. mpc' # "done" => \A d \in Calls : Told(d)' => pc'[d] # "failed"
    BY <1>1, <1>2, <2>1 DEF CallInv, OneCall
  <2>3. ~Contains(stdin', Begin(NoCall))
    BY <1>4, MarksDiffer, ProtocolAssumption DEF CallInv, OneCall
  <2>4. process' \in {"joining", "off"} =>
          stdin' = <<>> /\ active_call' = NoCall /\ pending_ends' = <<>> /\ ends' = <<>>
    BY <1>1, <1>2 DEF CallInv, OneCall, LedgerInv, GoneWhenOff
  <2>5. BeginsSeen' \subseteq BegunCalls'
    BY <1>5, <1>6 DEF CallInv, OneCall
  <2>6. \A d \in Calls : pc'[d] = "done" => summary'[d] # NoSummary
    BY <1>1, <1>2 DEF CallInv, OneCall
  <2> QED
    BY <1>7, <2>2, <2>3, <2>4, <2>5, <2>6 DEF OneCall
<1>9. ASSUME AllAnswered' PROVE AnsweredInv'
  <2>1. AllAnswered
    BY <1>2, <1>9 DEF AllAnswered
  <2>2. \A d \in ClosedCalls' : pc'[d] \in {"closing", "done"}
    <3>1. c \notin ClosedCalls
      BY <1>5 DEF LedgerInv, Holding
    <3> QED
      BY <1>1, <1>6, <2>1, <3>1 DEF CallInv, AnsweredInv, ClosedCalls, EndedIn, EndSeen
  <2>3. ASSUME mpc' # "done" PROVE OneEndMark' /\ HeldOpen'
    <3>1. OneEndMark /\ mpc # "done"
      BY <1>2, <2>1, <2>3 DEF CallInv, AnsweredInv
    <3>2. \A d \in MaybeCall : ~EndMark(d) /\ ~EndMark(d)'
      BY <1>2, <1>4, <1>7, <3>1, MarksDiffer DEF OneEndMark, EndMark
    <3>3. \A d \in Calls : ~Contains(stdin', End(d))
      BY <3>2 DEF EndMark, MaybeCall
    <3>4. EndOnce(stdin)'
      <4>1. stdin' \in Seq(Control)
        BY <1>1, MessageTypes DEF SidecarTypeOK
      <4> QED
        BY <3>3, <4>1 DEF EndOnce, Contains
    <3>5. OneEndMark'
      BY <1>2, <3>1, <3>2, <3>3, <3>4 DEF OneEndMark
    <3>6. HeldOpen'
      BY <1>1, <1>5, <1>7, <3>1 DEF HeldOpen
    <3> QED
      BY <3>5, <3>6
  <2> QED
    BY <2>2, <2>3 DEF AnsweredInv
<1> QED
  BY <1>8, <1>9 DEF CallInv, AnsweredInv

LEMMA HeadContained ==
  ASSUME NEW S, NEW q \in Seq(S), q # <<>>
  PROVE  Head(q) \in S /\ Contains(q, Head(q))
BY DEF Contains

(* end_call of the call that is open.                                            *)
LEMMA EndKeepsCalls ==
  ASSUME TypeInv, LedgerInv, CallInv, NEW c \in Calls, FuzzerEnds(c)
  PROVE  CallInv'
<1> USE DEF TypeInv, TypeOK, MonitorTypeOK
<1>1. /\ pc[c] = "running" /\ pc' = [pc EXCEPT ![c] = IF mpc # "done" THEN "closing" ELSE "failed"]
      /\ stdin' = IF mpc # "done" THEN Append(stdin, End(c)) ELSE stdin
  BY AliveIs DEF FuzzerEnds, EndCall, Sending, Write, Alive
<1>2. UNCHANGED <<active_call, pending_ends, ends, ended, mpc, process, summary, stdout, status, mine,
                  begin_signals, end_signals>>
  BY DEF FuzzerEnds, EndCall, StdinOnly, state, mainVars
<1>4. \A x : Contains(stdin', x) <=> Contains(stdin, x) \/ (mpc # "done" /\ x = End(c))
  BY <1>1, AppendContains, MessageTypes DEF SidecarTypeOK
<1>5. BegunCalls' = BegunCalls
  BY <1>1, <1>4, MarksDiffer DEF BegunCalls
<1>6. BeginsSeen' = BeginsSeen /\ ClosedCalls' = ClosedCalls
  BY <1>2 DEF BeginsSeen, BegunIn, ClosedCalls, EndSeen, EndedIn, Answered
<1>7. /\ Busy' \subseteq Busy /\ c \in Busy
      /\ \A d \in Calls : pc[d] \in {"opening", "running", "closing"} => d = c
  BY <1>1 DEF Busy, CallInv, OneCall
<1>8. OneCall'
  <2>1. \A d \in Calls : Told(d)' <=> Told(d)
    BY <1>2, <1>4, MarksDiffer DEF Told
  <2>2. mpc' # "done" => \A d \in Calls : Told(d)' => pc'[d] # "failed"
    BY <1>1, <1>2, <2>1 DEF CallInv, OneCall
  <2>3. ~Contains(stdin', Begin(NoCall))
    BY <1>4, MarksDiffer DEF CallInv, OneCall
  <2>4. process' \in {"joining", "off"} =>
          stdin' = <<>> /\ active_call' = NoCall /\ pending_ends' = <<>> /\ ends' = <<>>
    BY <1>1, <1>2 DEF CallInv, OneCall, LedgerInv, GoneWhenOff
  <2>5. \A d \in Calls : pc'[d] = "done" => summary'[d] # NoSummary
    BY <1>1, <1>2 DEF CallInv, OneCall
  <2> QED
    BY <1>5, <1>6, <1>7, <2>2, <2>3, <2>4, <2>5 DEF CallInv, OneCall
<1>9. ASSUME AllAnswered' PROVE AnsweredInv'
  <2>1. AllAnswered
    BY <1>2, <1>9 DEF AllAnswered
  <2>2. c \notin ClosedCalls /\ \A d \in ClosedCalls' : pc'[d] \in {"closing", "done"}
    BY <1>1, <1>6, <2>1 DEF CallInv, AnsweredInv, ClosedCalls, EndedIn, EndSeen
  <2>3. ASSUME mpc' # "done" PROVE OneEndMark' /\ HeldOpen'
    <3>1. OneEndMark /\ HeldOpen /\ mpc # "done"
      BY <1>2, <2>1, <2>3 DEF CallInv, AnsweredInv
    <3>2. \A d \in MaybeCall : ~EndMark(d)
      BY <1>1, <1>7, <3>1 DEF OneEndMark
    <3>3. ends = <<>> /\ pending_ends = <<>>
      BY <3>2, HeadContained DEF EndMark, SidecarTypeOK
    <3>4. \A d \in MaybeCall : EndMark(d)' => d = c
      BY <1>2, <1>4, <3>2, MarksDiffer DEF EndMark
    <3>5. c \in Calls /\ pc'[c] = "closing" /\ c \notin ClosedCalls'
      BY <1>1, <1>6, <2>2, <3>1
    <3>6. EndOnce(stdin)'
      <4>1. /\ stdin' = Append(stdin, End(c)) /\ stdin \in Seq(Control)
            /\ \A d \in Calls : ~Contains(stdin, End(d))
        BY <1>1, <3>1, <3>2 DEF SidecarTypeOK, EndMark, MaybeCall
      <4>2. \A i \in DOMAIN stdin' : i = Len(stdin) + 1 \/ (i \in 1..Len(stdin) /\ stdin'[i] = stdin[i])
        BY <4>1
      <4> QED
        BY <4>1, <4>2 DEF EndOnce, Contains
    <3>7. OneEndMark'
      BY <1>2, <3>1, <3>3, <3>4, <3>5, <3>6 DEF OneEndMark
    <3>8. HeldOpen'
      BY <1>1, <1>2, <1>5, <3>1 DEF HeldOpen
    <3> QED
      BY <3>7, <3>8
  <2> QED
    BY <2>2, <2>3 DEF AnsweredInv
<1> QED
  BY <1>8, <1>9 DEF CallInv, AnsweredInv

(* A scope message or a shutdown message.                                        *)
LEMMA OtherWriteKeepsCalls ==
  ASSUME TypeInv, LedgerInv, CallInv,
         \/ \E g \in Scopes : FuzzerScopes(g)
         \/ StopBegins /\ Write(Shutdown) /\ UNCHANGED <<scopes, mine>> /\ StdinOnly
  PROVE  CallInv'
<1>1. PICK m \in Control : Write(m) /\ m.op \notin {"begin", "end"}
  BY MessageTypes DEF FuzzerScopes, Scope, Shutdown
<1>2. SameMarks
  BY <1>1, NoMarkWritten DEF Write, SameMarks, TypeInv, TypeOK, SidecarTypeOK
<1>3. /\ UNCHANGED <<active_call, pending_ends, ends, ended, mpc, pc, summary, mine, stdout, status,
                     begin_signals, end_signals>>
      /\ process' \in {"joining", "off"} => process \in {"joining", "off"}
      /\ process \in {"joining", "off"} => stdin' = stdin
  BY <1>1 DEF FuzzerScopes, StopBegins, Callers, StdinOnly, state, mainVars, monitorVars, Write, Alive
<1>4. BeginsSeen' = BeginsSeen /\ ClosedCalls' = ClosedCalls
  BY <1>3 DEF BeginsSeen, BegunIn, ClosedCalls, EndSeen, EndedIn, Answered
<1> QED
  BY <1>2, <1>3, <1>4, QuietKeepsCalls

(* A wait that is over.  An end_call that was answered leaves no end mark.        *)
LEMMA ReturnsKeepCalls ==
  ASSUME TypeInv, LedgerInv, CallInv, NEW c \in Calls, NEW timeout \in BOOLEAN,
         BeginReturns(c, timeout) \/ EndReturns(c, timeout), UNCHANGED <<sidecarVars, mine>>
  PROVE  CallInv'
<1> USE DEF TypeInv, TypeOK, MonitorTypeOK
<1>1. /\ UNCHANGED <<stdin, active_call, pending_ends, ends, ended, mpc, process, stdout, status, mine>>
      /\ \A d \in Calls : pc'[d] = "new" <=> pc[d] = "new"
      /\ pc' = [pc EXCEPT ![c] = pc'[c]]
  BY DEF sidecarVars, controlVars, state, mainVars, BeginReturns, EndReturns
<1>2. /\ \A x : Contains(stdin', x) <=> Contains(stdin, x)
      /\ BegunCalls' = BegunCalls /\ (EndOnce(stdin)' <=> EndOnce(stdin))
      /\ \A d : (EndMark(d)' <=> EndMark(d)) /\ (Told(d)' <=> Told(d))
  BY <1>1 DEF BegunCalls, EndMark, Told, EndOnce
<1>3. /\ \A d \in Calls : begin_signals'[d] = "set" => begin_signals[d] = "set"
      /\ \A d \in Calls : end_signals'[d] = "set" => end_signals[d] = "set"
      /\ \A d \in Calls : Answered(d)' => Answered(d) \/ end_signals[d] = "set"
      /\ AllAnswered' => AllAnswered
      /\ AllAnswered' /\ pc'[c] = "done" => c \in ClosedCalls
      /\ pc'[c] = "done" => summary'[c] # NoSummary
      /\ \A d \in Calls \ {c} : summary'[d] = summary[d]
  <2>1. CASE BeginReturns(c, timeout)
    BY <2>1 DEF BeginReturns, Answered, AllAnswered
  <2>2. CASE EndReturns(c, timeout)
    <3>1. PICK s \in Summary : summary' = [summary EXCEPT ![c] = s] /\ (s.answered => end_signals[c] = "set")
      <4>1. [events |-> events_by_call[c], truncated |-> dropped > 0,
             answered |-> end_signals[c] = "set"] \in Summary
        BY DEF Summary
      <4> QED
        BY <2>2, <4>1 DEF EndReturns
    <3>2. s # NoSummary /\ summary'[c] = s /\ summary[c] = NoSummary
      BY <2>2, <3>1, SummaryAssumption DEF EndReturns, LedgerInv, SummaryInv
    <3>3. \A d \in Calls \ {c} : summary'[d] = summary[d]
      BY <3>1
    <3>4. \A d \in Calls : Answered(d)' => Answered(d) \/ end_signals[d] = "set"
      BY <3>1, <3>2, <3>3 DEF Answered
    <3>5. AllAnswered' => AllAnswered /\ s.answered
      BY <3>2, <3>3 DEF AllAnswered
    <3> QED
      BY <2>2, <3>1, <3>2, <3>3, <3>4, <3>5 DEF EndReturns, ClosedCalls, EndSeen
  <2> QED
    BY <2>1, <2>2
<1>4. BeginsSeen' \subseteq BeginsSeen /\ ClosedCalls' \subseteq ClosedCalls
  BY <1>1, <1>3 DEF BeginsSeen, BegunIn, ClosedCalls, EndSeen, EndedIn
<1>5. /\ pc[c] \in {"opening", "closing"} /\ pc'[c] = IF pc[c] = "opening" THEN "running" ELSE "done"
      /\ \A d \in Calls \ {c} : pc'[d] = pc[d]
  BY DEF BeginReturns, EndReturns
<1>6. OneCall'
  <2>1. Busy' \subseteq Busy
    BY <1>5 DEF Busy
  <2>2. \A d \in Calls : pc'[d] = "done" => summary'[d] # NoSummary
    BY <1>3, <1>5 DEF CallInv, OneCall
  <2>3. mpc' # "done" => \A d \in Calls : Told(d)' => pc'[d] # "failed"
    BY <1>1, <1>2, <1>5 DEF CallInv, OneCall
  <2>4. /\ process' \in {"joining", "off"} =>
             stdin' = <<>> /\ active_call' = NoCall /\ pending_ends' = <<>> /\ ends' = <<>>
        /\ ~Contains(stdin', Begin(NoCall))
    BY <1>1, <1>2 DEF CallInv, OneCall
  <2>5. BeginsSeen' \subseteq BegunCalls' /\ \A d, e \in Busy' : d = e
    BY <1>2, <1>4, <2>1 DEF CallInv, OneCall
  <2> QED
    BY <2>2, <2>3, <2>4, <2>5 DEF OneCall
<1>7. ASSUME AllAnswered' PROVE AnsweredInv'
  <2>1. AllAnswered
    BY <1>3, <1>7
  <2>2. \A d \in ClosedCalls' : pc'[d] \in {"closing", "done"}
    BY <1>4, <1>5, <2>1 DEF CallInv, AnsweredInv, ClosedCalls, EndedIn, EndSeen
  <2>3. ASSUME mpc' # "done" PROVE OneEndMark' /\ HeldOpen'
    <3>1. OneEndMark /\ HeldOpen
      BY <1>1, <2>1, <2>3 DEF CallInv, AnsweredInv
    <3>2. \A d \in MaybeCall : EndMark(d)' => d \in Calls /\ pc'[d] = "closing" /\ d \notin ClosedCalls'
      <4> SUFFICES ASSUME NEW d \in MaybeCall, EndMark(d)
                   PROVE  d \in Calls /\ pc'[d] = "closing" /\ d \notin ClosedCalls'
        BY <1>2
      <4>1. d \in Calls /\ pc[d] = "closing" /\ d \notin ClosedCalls
        BY <3>1 DEF OneEndMark
      <4>2. d # c
        BY <1>3, <1>5, <1>7, <4>1
      <4> QED
        BY <1>4, <1>5, <4>1, <4>2
    <3>3. OneEndMark'
      BY <1>1, <1>2, <3>1, <3>2 DEF OneEndMark
    <3>4. HeldOpen'
      BY <1>1, <1>2, <1>5, <3>1 DEF HeldOpen
    <3> QED
      BY <3>3, <3>4
  <2> QED
    BY <2>2, <2>3 DEF AnsweredInv
<1> QED
  BY <1>6, <1>7 DEF CallInv, AnsweredInv

--------------------------------------------------------------------------------
(* The reader thread, stop() and start().                                        *)

(* The reader takes a line, or dies of it.                                       *)
LEMMA ReaderKeepsCalls ==
  ASSUME TypeInv, CallInv, TakeLine, Deliver(Head(stdout)) \/ ReaderDies
  PROVE  CallInv'
<1> USE DEF TypeInv, TypeOK, MonitorTypeOK
<1>0. PICK l \in Line : l = Head(stdout)
  BY DEF TakeLine, SidecarTypeOK
<1>1. /\ UNCHANGED <<stdin, active_call, pending_ends, ends, ended, mpc, process, pc, summary, mine, status>>
      /\ stdout # <<>> /\ stdout' = Tail(stdout) /\ stdout \in Seq(Line)
  BY DEF TakeLine, controlVars, state, mainVars, Deliver, ReaderDies, SidecarTypeOK
<1>2. EndedIn(stdout') \subseteq EndedIn(stdout) /\ BegunIn(stdout') \subseteq BegunIn(stdout)
  <2>1. EndedIn(stdout') \subseteq EndedIn(stdout)
    BY <1>1, TailOfLines
  <2>2. \A i \in DOMAIN stdout' : i + 1 \in DOMAIN stdout /\ stdout'[i] = stdout[i + 1]
    BY <1>1
  <2> QED
    BY <2>1, <2>2 DEF BegunIn
<1>3. 1 \in DOMAIN stdout /\ stdout[1] = l
  BY <1>0, <1>1
<1>4. ASSUME NEW c \in Calls, end_signals'[c] = "set", end_signals[c] # "set" PROVE c \in EndedIn(stdout)
  <2>1. l.msg = "end" /\ l.call = c
    BY <1>0, <1>4 DEF Deliver, Wake, ReaderDies, Line, MaybeCall
  <2> QED
    BY <1>3, <2>1 DEF EndedIn
<1>5. ASSUME NEW c \in Calls, begin_signals'[c] = "set", begin_signals[c] # "set" PROVE c \in BegunIn(stdout)
  <2>1. l.msg = "begin" /\ l.call = c
    BY <1>0, <1>5 DEF Deliver, Wake, ReaderDies, Line, MaybeCall
  <2> QED
    BY <1>3, <2>1 DEF BegunIn
<1>6. ClosedCalls' \subseteq ClosedCalls
  BY <1>1, <1>2, <1>4 DEF ClosedCalls, EndSeen, Answered
<1>7. BeginsSeen' \subseteq BeginsSeen
  BY <1>1, <1>2, <1>5 DEF BeginsSeen
<1>8. SameMarks
  BY <1>1 DEF SameMarks
<1> QED
  BY <1>1, <1>6, <1>7, <1>8, QuietKeepsCalls

(* A sidecar that is gone was told of no call.                                   *)
LEMMA GoneKeepsCalls ==
  ASSUME TypeInv, LedgerInv, CallInv, SidecarGone,
         UNCHANGED <<pc, begin_signals, end_signals, summary, mine>>
  PROVE  CallInv'
<1>1. /\ stdin' = <<>> /\ active_call' = NoCall /\ pending_ends' = <<>> /\ ends' = <<>>
      /\ mpc' = "done" /\ stdout' = stdout /\ status' = ReadyLine
  BY DEF SidecarGone
<1>2. BegunCalls \subseteq BegunCalls' /\ ~Contains(stdin', Begin(NoCall))
  BY <1>1 DEF BegunCalls, Contains
<1>3. BeginsSeen' \subseteq BeginsSeen /\ ClosedCalls' = ClosedCalls
  BY <1>1, LinesDiffer DEF BeginsSeen, BegunIn, ClosedCalls, EndSeen, EndedIn, Answered
<1>4. OneCall'
  BY <1>1, <1>2, <1>3 DEF CallInv, OneCall, Busy
<1>5. AnsweredInv'
  BY <1>1, <1>3 DEF CallInv, AnsweredInv, AllAnswered
<1> QED
  BY <1>4, <1>5 DEF CallInv

(* A new sidecar was told of no call, and no call was begun with it.              *)
LEMMA StopKeepsCalls ==
  ASSUME TypeInv, LedgerInv, CallInv, Stop \/ Restart \/ SidecarCrashes
  PROVE  CallInv'
<1>1. CASE StopBegins /\ Write(Shutdown) /\ UNCHANGED <<scopes, mine>> /\ StdinOnly
  BY <1>1, OtherWriteKeepsCalls
<1>2. CASE (StopKills /\ SidecarGone /\ UNCHANGED <<scopes, mine, history>>) \/ SidecarCrashes
  BY <1>2, GoneKeepsCalls DEF StopKills, Callers, SidecarCrashes, monitorVars, collected
<1>3. CASE StopEnds /\ stdout' = <<>> /\ UNCHANGED <<controlVars, state, mainVars, ring, processes, scopes,
                                                      mine, captures, lost, starts, reported>>
  <2>1. /\ UNCHANGED <<stdin, active_call, pending_ends, ends, ended, mpc, pc, begin_signals, end_signals,
                       summary, mine, status>>
        /\ process = "joining"
    BY <1>3 DEF StopEnds, Callers, collected, controlVars, state, mainVars
  <2>2. ClosedCalls' \subseteq ClosedCalls /\ BeginsSeen' \subseteq BeginsSeen /\ SameMarks
    BY <1>3, <2>1 DEF ClosedCalls, EndSeen, Answered, EndedIn, BeginsSeen, BegunIn, SameMarks
  <2> QED
    BY <2>1, <2>2, QuietKeepsCalls
<1>4. CASE Restart
  <2>1. /\ UNCHANGED <<stdin, stdout, status, active_call, pending_ends, ends, pc, begin_signals,
                       end_signals, summary>>
        /\ process = "off" /\ process' = "on" /\ mine' = {} /\ mpc' = "start"
    BY <1>4 DEF Restart, Start, Callers, collected, controlVars, state
  <2>2. /\ stdin' = <<>> /\ active_call' = NoCall /\ pending_ends' = <<>> /\ ends' = <<>>
        /\ \A x : ~Contains(stdin', x) /\ ~Contains(pending_ends', x) /\ ~Contains(ends', x)
    BY <2>1 DEF CallInv, OneCall, Contains
  <2>3. BegunCalls' = BegunCalls /\ ClosedCalls' = ClosedCalls /\ BeginsSeen' = BeginsSeen
    BY <2>1 DEF BegunCalls, ClosedCalls, EndSeen, EndedIn, Answered, BeginsSeen, BegunIn
  <2>4. \A c \in Calls : ~Told(c)'
    BY <2>2, ProtocolAssumption DEF Told
  <2>5. OneCall'
    BY <2>1, <2>2, <2>3, <2>4 DEF CallInv, OneCall, Busy
  <2>6. OneEndMark'
    <3>1. EndOnce(stdin)'
      BY <2>2 DEF EndOnce
    <3>2. \A c : ~EndMark(c)'
      BY <2>2 DEF EndMark
    <3>3. Len(ends') + Len(pending_ends') <= 1
      BY <2>2
    <3> QED
      BY <2>1, <2>2, <3>1, <3>2, <3>3 DEF OneEndMark
  <2>7. HeldOpen' /\ (AllAnswered' => \A c \in ClosedCalls' : pc'[c] \in {"closing", "done"})
    BY <2>1, <2>3 DEF HeldOpen, CallInv, AnsweredInv, AllAnswered
  <2> QED
    BY <2>5, <2>6, <2>7 DEF CallInv, AnsweredInv
<1> QED
  BY <1>1, <1>2, <1>3, <1>4 DEF Stop

--------------------------------------------------------------------------------
(* The control thread.                                                           *)

(* A begin mark makes the one busy call active.                                  *)
LEMMA ReadBeginKeepsCalls ==
  ASSUME TypeInv, LedgerInv, CallInv, Control_, ReadBegin
  PROVE  CallInv'
<1> USE DEF TypeInv, TypeOK, MonitorTypeOK
<1>1. /\ stdin # <<>> /\ stdin' = Tail(stdin) /\ stdin \in Seq(Control) /\ Head(stdin).op = "begin"
      /\ active_call' = Head(stdin).arg /\ status' = BeginLine(Head(stdin).arg)
      /\ UNCHANGED <<pending_ends, ends, ended, mpc, process, pc, begin_signals, end_signals, summary,
                     stdout, mine>>
      /\ mpc # "done"
  BY DEF Control_, ReadBegin, ReadLine, mainVars, monitorVars, SidecarTypeOK, Alive
<1>2. \A x : Contains(stdin, x) <=> Contains(stdin', x) \/ x = Head(stdin)
  BY <1>1, TailContains
<1>3. PICK c \in Calls : Head(stdin) = Begin(c) /\ Head(stdin).arg = c
  <2>1. Head(stdin) \in Control
    BY <1>1
  <2>2. Head(stdin) = Begin(Head(stdin).arg) /\ Head(stdin).arg \in MaybeCall
    BY <1>1, <2>1, MarksDiffer, ControlTypes
  <2>3. Head(stdin).arg # NoCall
    BY <1>2, <2>2 DEF CallInv, OneCall
  <2> QED
    BY <2>2, <2>3 DEF MaybeCall
<1>4. BegunCalls \subseteq BegunCalls' /\ c \in BegunCalls' /\ c \notin BegunCalls
  BY <1>1, <1>3, ReadKeepsMarks, ProtocolAssumption DEF LedgerInv
<1>5. BegunCalls' \subseteq BegunCalls \cup {c}
  BY <1>1, <1>2, <1>3, MarksDiffer DEF BegunCalls
<1>6. BeginsSeen' \subseteq BeginsSeen \cup {c} /\ ClosedCalls' = ClosedCalls
  BY <1>1, <1>3 DEF BeginsSeen, BegunIn, ClosedCalls, EndSeen, EndedIn, Answered, BeginLine, Status
<1>7. Told(c) /\ \A d \in Calls : Told(d)' => Told(d)
  BY <1>1, <1>2, <1>3 DEF Told
<1>8. OneCall'
  <2>1. process' \in {"joining", "off"} => FALSE
    BY <1>1 DEF LedgerInv, GoneWhenOff
  <2>2. ~Contains(stdin', Begin(NoCall))
    BY <1>2 DEF CallInv, OneCall
  <2> QED
    BY <1>1, <1>4, <1>6, <1>7, <2>1, <2>2 DEF CallInv, OneCall, Busy
<1>9. \A d : EndMark(d)' <=> EndMark(d)
  BY <1>1, <1>2, <1>3, MarksDiffer DEF EndMark
<1>10. ASSUME AllAnswered' PROVE AnsweredInv'
  <2>1. AllAnswered
    BY <1>1, <1>10 DEF AllAnswered
  <2>2. OneEndMark /\ HeldOpen /\ c \in Busy
    BY <1>1, <1>7, <2>1, ToldIsBusy DEF CallInv, AnsweredInv
  <2>3. OneEndMark'
    <3>1. EndOnce(stdin)'
      <4>1. \A i \in DOMAIN stdin' : i \in Nat /\ i + 1 \in DOMAIN stdin /\ stdin'[i] = stdin[i + 1]
        BY <1>1
      <4> QED
        BY <2>2, <4>1 DEF OneEndMark, EndOnce
    <3>2. \A d \in Calls : Contains(stdin', End(d)) => Contains(stdin, End(d))
      BY <1>2
    <3> QED
      BY <1>1, <1>6, <1>9, <2>2, <3>1, <3>2 DEF OneEndMark
  <2>4. HeldOpen'
    <3> SUFFICES ASSUME NEW d \in mine \cap BegunCalls', pc[d] \in {"opening", "running"} PROVE d = c
      BY <1>1, <1>3 DEF HeldOpen
    <3>1. d \in Busy
      BY <1>5 DEF Busy, BegunCalls
    <3> QED
      BY <2>2, <3>1 DEF CallInv, OneCall
  <2> QED
    BY <1>1, <1>6, <2>1, <2>3, <2>4 DEF CallInv, AnsweredInv
<1> QED
  BY <1>8, <1>10 DEF CallInv, AnsweredInv

(* An end mark is queued, and it is the only one.                                *)
LEMMA ReadEndKeepsCalls ==
  ASSUME TypeInv, LedgerInv, CallInv, Control_, ReadEnd
  PROVE  CallInv'
<1> USE DEF TypeInv, TypeOK, MonitorTypeOK
<1>1. /\ stdin # <<>> /\ stdin' = Tail(stdin) /\ stdin \in Seq(Control) /\ Head(stdin).op = "end"
      /\ pending_ends' = Append(pending_ends, Head(stdin).arg)
      /\ UNCHANGED <<active_call, ends, ended, mpc, process, pc, begin_signals, end_signals, summary,
                     stdout, status, mine>>
      /\ mpc # "done"
  BY DEF Control_, ReadEnd, ReadLine, mainVars, monitorVars, SidecarTypeOK, Alive
<1>2. \A x : Contains(stdin, x) <=> Contains(stdin', x) \/ x = Head(stdin)
  BY <1>1, TailContains
<1>3. PICK c \in MaybeCall : Head(stdin) = End(c) /\ Head(stdin).arg = c
  BY <1>1, MarksDiffer, ControlTypes
<1>4. BegunCalls' = BegunCalls
  BY <1>1, <1>2, <1>3, MarksDiffer DEF BegunCalls
<1>5. BeginsSeen' = BeginsSeen /\ ClosedCalls' = ClosedCalls
  BY <1>1 DEF BeginsSeen, BegunIn, ClosedCalls, EndSeen, EndedIn, Answered
<1>6. OneCall'
  <2>1. process' \in {"joining", "off"} => FALSE
    BY <1>1 DEF LedgerInv, GoneWhenOff
  <2>2. ~Contains(stdin', Begin(NoCall)) /\ \A d \in Calls : Told(d)' => Told(d)
    BY <1>1, <1>2 DEF CallInv, OneCall, Told
  <2> QED
    BY <1>1, <1>4, <1>5, <2>1, <2>2 DEF CallInv, OneCall, Busy
<1>7. ASSUME AllAnswered' PROVE AnsweredInv'
  <2>1. AllAnswered
    BY <1>1, <1>7 DEF AllAnswered
  <2>2. OneEndMark /\ HeldOpen
    BY <1>1, <2>1 DEF CallInv, AnsweredInv
  <2>3. c \in Calls /\ pc[c] = "closing" /\ EndMark(c) /\ ends = <<>> /\ pending_ends = <<>>
    BY <1>2, <1>3, <2>2 DEF OneEndMark, EndMark
  <2>4. /\ Len(pending_ends') = 1 /\ pending_ends'[1] = c /\ Len(ends') = 0
        /\ \A x : Contains(pending_ends', x) <=> x = c
    <3>1. pending_ends' = <<c>>
      BY <1>1, <1>3, <2>3
    <3> QED
      BY <1>1, <2>3, <3>1 DEF Contains
  <2>5. \A d : EndMark(d)' => EndMark(d)
    BY <1>1, <1>2, <2>3, <2>4 DEF EndMark
  <2>6. ASSUME NEW d \in Calls, Contains(stdin', End(d)) PROVE FALSE
    <3>1. Contains(stdin, End(d)) /\ pc[d] = "closing"
      BY <1>2, <2>2, <2>6 DEF OneEndMark, EndMark, MaybeCall
    <3>2. d = c
      BY <2>3, <3>1 DEF CallInv, OneCall, Busy
    <3>3. PICK i \in 1..Len(stdin') : stdin'[i] = End(c)
      BY <2>6, <3>2 DEF Contains
    <3>4. i \in Nat \ {0} /\ i + 1 \in DOMAIN stdin /\ 1 \in DOMAIN stdin /\ stdin[i + 1] = End(c)
          /\ stdin[1] = End(c)
      BY <1>1, <1>3, <3>3
    <3>5. i + 1 = 1
      BY <2>2, <2>3, <3>4 DEF OneEndMark, EndOnce
    <3> QED
      BY <3>4, <3>5
  <2>7. EndOnce(stdin)'
    BY <1>1, <2>6 DEF EndOnce, Contains
  <2>8. OneEndMark'
    <3>1. \A d \in MaybeCall : EndMark(d)' => d \in Calls /\ pc'[d] = "closing" /\ d \notin ClosedCalls'
      BY <1>1, <1>5, <2>2, <2>5 DEF OneEndMark
    <3>2. Len(ends') + Len(pending_ends') <= 1
      BY <2>4
    <3>3. mpc' = "end" => ended' = Head(ends')
      BY <1>1, <2>2 DEF OneEndMark
    <3> QED
      BY <2>6, <2>7, <3>1, <3>2, <3>3 DEF OneEndMark
  <2>9. HeldOpen'
    BY <1>1, <1>4, <2>2 DEF HeldOpen
  <2> QED
    BY <1>1, <1>5, <2>1, <2>8, <2>9 DEF CallInv, AnsweredInv
<1> QED
  BY <1>6, <1>7 DEF CallInv, AnsweredInv

LEMMA BegunByBeginLines ==
  ASSUME NEW q \in Seq(Line), NEW l \in Line
  PROVE  BegunIn(Append(q, l)) = BegunIn(q) \cup IF l.msg = "begin" THEN Calls \cap {l.call} ELSE {}
<1>1. PICK r : r = Append(q, l)
  OBVIOUS
<1>2. /\ DOMAIN q = 1..Len(q) /\ DOMAIN r = 1..(Len(q) + 1) /\ Len(q) \in Nat
      /\ r[Len(q) + 1] = l /\ \A i \in 1..Len(q) : r[i] = q[i]
  BY <1>1
<1>3. BegunIn(r) = BegunIn(q) \cup IF l.msg = "begin" THEN Calls \cap {l.call} ELSE {}
  BY <1>2 DEF BegunIn
<1> QED
  BY <1>1, <1>3

(* Other lines are read without an effect on marks; a status line tells what was  *)
(* known of its call.                                                            *)
LEMMA ControlKeepsCalls ==
  ASSUME TypeInv, LedgerInv, CallInv, Control_
  PROVE  CallInv'
<1> USE DEF TypeInv, TypeOK
<1>0. UNCHANGED <<process, pc, begin_signals, end_signals, summary, mine>> /\ mpc # "done"
  BY DEF Control_, monitorVars, Alive
<1>1. CASE ReadScope \/ ReadIgnored \/ ReadShutdown
  <2>1. /\ stdin # <<>> /\ stdin' = Tail(stdin) /\ stdin \in Seq(Control)
        /\ Head(stdin).op \notin {"begin", "end"}
        /\ UNCHANGED <<active_call, pending_ends, ends, ended, mpc, stdout>>
        /\ status' = status \/ status' = ScopeLine
    BY <1>1 DEF ReadScope, ReadIgnored, ReadShutdown, ReadLine, state, mainVars, SidecarTypeOK
  <2>2. SameMarks
    BY <2>1, NoMarkRead DEF SameMarks
  <2>3. BeginsSeen' \subseteq BeginsSeen /\ ClosedCalls' = ClosedCalls
    BY <1>0, <2>1, LinesDiffer DEF BeginsSeen, BegunIn, ClosedCalls, EndSeen, EndedIn, Answered
  <2>4. process \notin {"joining", "off"}
    BY <1>0 DEF LedgerInv, GoneWhenOff
  <2> QED
    BY <1>0, <2>1, <2>2, <2>3, <2>4, QuietKeepsCalls
<1>2. CASE WriteStatus
  <2>1. /\ UNCHANGED <<stdin, active_call, pending_ends, ends, ended, mpc>>
        /\ stdout' = Append(stdout, status) /\ status' = ReadyLine
        /\ status \in Line /\ stdout \in Seq(Line) /\ status.msg # "end"
    BY <1>2 DEF WriteStatus, Emit, state, mainVars, SidecarTypeOK, StatusKind, ReadyLine, ScopeLine,
                BeginLine, Status
  <2>2. EndedIn(stdout') = EndedIn(stdout)
    BY <2>1, EndedByEndLines
  <2>3. BegunIn(stdout') \subseteq BegunIn(stdout) \cup {c \in Calls : status.msg = "begin" /\ status.call = c}
    BY <2>1, BegunByBeginLines
  <2>4. BeginsSeen' \subseteq BeginsSeen /\ ClosedCalls' = ClosedCalls
    BY <1>0, <2>1, <2>2, <2>3, LinesDiffer DEF BeginsSeen, ClosedCalls, EndSeen, Answered
  <2>5. SameMarks
    BY <2>1 DEF SameMarks
  <2> QED
    BY <1>0, <2>1, <2>4, <2>5, QuietKeepsCalls
<1> QED
  BY <1>1, <1>2, ReadBeginKeepsCalls, ReadEndKeepsCalls DEF Control_, ControlStep

--------------------------------------------------------------------------------
(* The main loop.                                                                *)

(* The end mark that is applied takes away the call that is closing.             *)
LEMMA ApplyKeepsCalls ==
  ASSUME TypeInv, LedgerInv, CallInv, Main_, TakeEnds \/ ApplyEnd
  PROVE  CallInv'
<1> USE DEF TypeInv, TypeOK
<1>1. /\ UNCHANGED <<process, pc, begin_signals, end_signals, summary, mine, stdin, stdout, status>>
      /\ mpc # "done" /\ mpc' # "done" /\ active_call' \in {active_call, NoCall}
      /\ ends \in Seq(MaybeCall) /\ pending_ends \in Seq(MaybeCall)
  BY DEF Main_, monitorVars, Alive, TakeEnds, ApplyEnd, Goto, controlVars, SidecarTypeOK
<1>2. BegunCalls' = BegunCalls /\ BeginsSeen' = BeginsSeen /\ ClosedCalls' = ClosedCalls
  BY <1>1 DEF BegunCalls, BeginsSeen, BegunIn, ClosedCalls, EndSeen, EndedIn, Answered
<1>3. OneCall'
  <2>1. process' \in {"joining", "off"} => FALSE
    BY <1>1 DEF LedgerInv, GoneWhenOff
  <2>2. \A d \in Calls : Told(d)' => Told(d)
    BY <1>1, ProtocolAssumption DEF Told
  <2> QED
    BY <1>1, <1>2, <2>1, <2>2 DEF CallInv, OneCall, Busy
<1>4. ASSUME AllAnswered' PROVE AnsweredInv'
  <2>1. AllAnswered
    BY <1>1, <1>4 DEF AllAnswered
  <2>2. OneEndMark /\ HeldOpen
    BY <1>1, <2>1 DEF CallInv, AnsweredInv
  <2>3. EndOnce(stdin)' /\ (AllAnswered => \A c \in ClosedCalls' : pc'[c] \in {"closing", "done"})
    BY <1>1, <1>2, <2>2 DEF OneEndMark, EndOnce, CallInv, AnsweredInv
  <2>4. CASE TakeEnds
    <3>1. /\ ends' = pending_ends /\ pending_ends' = <<>> /\ active_call' = active_call /\ mpc' # "end"
      BY <2>4 DEF TakeEnds, Goto
    <3>2. \A d : EndMark(d)' => EndMark(d)
      BY <1>1, <3>1 DEF EndMark, Contains
    <3>3. /\ Len(ends') + Len(pending_ends') <= 1
          /\ \A d \in Calls : Contains(stdin', End(d)) => ends' = <<>> /\ pending_ends' = <<>>
      BY <1>1, <2>2, <3>1 DEF OneEndMark
    <3>4. OneEndMark'
      BY <1>1, <1>2, <2>2, <2>3, <3>1, <3>2, <3>3 DEF OneEndMark
    <3>5. HeldOpen'
      BY <1>1, <1>2, <2>2, <3>1 DEF HeldOpen
    <3> QED
      BY <2>1, <2>3, <3>4, <3>5 DEF AnsweredInv
  <2>5. CASE ApplyEnd
    <3>1. /\ UNCHANGED <<ends, pending_ends>> /\ ends # <<>> /\ mpc' = "end"
          /\ ended' = IF active_call # NoCall THEN active_call ELSE Head(ends)
      BY <2>5 DEF ApplyEnd, Goto
    <3>2. PICK c \in Calls : c = Head(ends) /\ pc[c] = "closing"
      <4>1. Head(ends) \in MaybeCall /\ EndMark(Head(ends))
        BY <1>1, <3>1, HeadContained DEF EndMark
      <4> QED
        BY <2>2, <4>1 DEF OneEndMark
    <3>3. \A d \in Busy : d = c
      BY <3>2 DEF CallInv, OneCall, Busy
    <3>4. active_call # NoCall => active_call = c
      <4>1. active_call # NoCall => active_call \in Calls /\ Told(active_call)
        BY DEF SidecarTypeOK, MaybeCall, Told
      <4> QED
        BY <1>1, <2>1, <3>3, <4>1, ToldIsBusy DEF CallInv
    <3>5. \A d : EndMark(d)' <=> EndMark(d)
      BY <1>1, <3>1 DEF EndMark
    <3>6. OneEndMark'
      BY <1>1, <1>2, <2>2, <2>3, <3>1, <3>2, <3>4, <3>5 DEF OneEndMark
    <3>7. HeldOpen'
      BY <1>1, <3>2, <3>3 DEF HeldOpen, Busy, BegunCalls
    <3> QED
      BY <2>1, <2>3, <3>6, <3>7 DEF AnsweredInv
  <2> QED
    BY <2>4, <2>5
<1> QED
  BY <1>3, <1>4 DEF CallInv, AnsweredInv

LEMMA OnlyOne ==
  ASSUME NEW S, NEW q \in Seq(S), NEW r \in Seq(S), q # <<>>, Len(q) + Len(r) <= 1
  PROVE  Tail(q) = <<>> /\ r = <<>>
<1>1. \A s \in Seq(S) : Len(s) \in Nat /\ (s # <<>> => Len(s) # 0)
  OBVIOUS
<1>2. Tail(q) \in Seq(S) /\ Len(Tail(q)) = Len(q) - 1
  BY SeqTypes
<1>3. PICK m \in Nat, n \in Nat : m = Len(q) /\ n = Len(r) /\ m # 0
  BY <1>1
<1>4. m = 1 /\ n = 0
  BY <1>3
<1>5. Len(Tail(q)) = 0 /\ Len(r) = 0
  BY <1>2, <1>3, <1>4
<1>6. r = <<>>
  BY <1>1, <1>5
<1>7. PICK t \in Seq(S) : t = Tail(q)
  BY <1>2
<1>8. t = <<>>
  BY <1>1, <1>5, <1>7
<1> QED
  BY <1>6, <1>7, <1>8

(* The end status that is written closes that call, and no end mark is left.      *)
LEMMA WriteEndKeepsCalls ==
  ASSUME TypeInv, LedgerInv, CallInv, Main_, WriteEnd
  PROVE  CallInv'
<1> USE DEF TypeInv, TypeOK
<1>1. /\ UNCHANGED <<process, pc, begin_signals, end_signals, summary, mine, stdin, status, active_call,
                     pending_ends>>
      /\ mpc = "end" /\ mpc' = "apply" /\ ends' = Tail(ends) /\ ends # <<>>
      /\ ends \in Seq(MaybeCall) /\ pending_ends \in Seq(MaybeCall) /\ ended \in MaybeCall
      /\ stdout' = Append(stdout, EndLine(ended)) /\ stdout \in Seq(Line)
  BY DEF Main_, monitorVars, WriteEnd, Emit, Goto, controlVars, state, InHand, SidecarTypeOK
<1>2. EndLine(ended) \in Line /\ EndLine(ended).msg = "end" /\ EndLine(ended).call = ended
  BY <1>1, LineTypes DEF EndLine, Status
<1>3. EndedIn(stdout') = EndedIn(stdout) \cup (Calls \cap {ended}) /\ BegunIn(stdout') = BegunIn(stdout)
  BY <1>1, <1>2, EndedByEndLines, BegunByBeginLines
<1>4. /\ BegunCalls' = BegunCalls /\ BeginsSeen' = BeginsSeen
      /\ ClosedCalls' = ClosedCalls \cup (Calls \cap {ended})
  BY <1>1, <1>3 DEF BegunCalls, BeginsSeen, ClosedCalls, EndSeen, Answered
<1>5. OneCall'
  <2>1. process' \in {"joining", "off"} => FALSE
    BY <1>1 DEF LedgerInv, GoneWhenOff
  <2> QED
    BY <1>1, <1>4, <2>1 DEF CallInv, OneCall, Busy, Told
<1>6. ASSUME AllAnswered' PROVE AnsweredInv'
  <2>1. AllAnswered
    BY <1>1, <1>6 DEF AllAnswered
  <2>2. OneEndMark /\ HeldOpen
    BY <1>1, <2>1 DEF CallInv, AnsweredInv
  <2>3. EndMark(ended) /\ ended \in Calls /\ pc[ended] = "closing"
    BY <1>1, <2>2, HeadContained DEF OneEndMark, EndMark
  <2>4. ends' = <<>> /\ pending_ends' = <<>>
    <3>1. Len(ends) + Len(pending_ends) <= 1
      BY <2>2 DEF OneEndMark
    <3> QED
      BY <1>1, <3>1, OnlyOne
  <2>5. \A d \in Calls : ~Contains(stdin', End(d))
    BY <1>1, <2>2 DEF OneEndMark
  <2>6. \A d \in MaybeCall : ~EndMark(d)'
    <3>1. ~Contains(stdin', End(NoCall))
      BY <1>1, <2>2, ProtocolAssumption DEF OneEndMark, EndMark, MaybeCall
    <3> QED
      BY <2>4, <2>5, <3>1 DEF EndMark, Contains, MaybeCall
  <2>7. OneEndMark'
    <3>1. EndOnce(stdin)' /\ Len(ends') + Len(pending_ends') <= 1
      BY <1>1, <2>2, <2>4 DEF OneEndMark, EndOnce
    <3> QED
      BY <1>1, <2>4, <2>6, <3>1 DEF OneEndMark
  <2>8. HeldOpen'
    BY <1>1, <1>4, <2>2 DEF HeldOpen
  <2>9. \A d \in ClosedCalls' : pc'[d] \in {"closing", "done"}
    BY <1>1, <1>4, <2>1, <2>3 DEF CallInv, AnsweredInv
  <2> QED
    BY <2>7, <2>8, <2>9 DEF AnsweredInv
<1> QED
  BY <1>5, <1>6 DEF CallInv, AnsweredInv

(* The other steps of the loop move no end mark.                                 *)
LEMMA MainKeepsCalls ==
  ASSUME TypeInv, LedgerInv, CallInv, Main_
  PROVE  CallInv'
<1> USE DEF TypeInv, TypeOK
<1>1. /\ UNCHANGED <<process, pc, begin_signals, end_signals, summary, mine>> /\ mpc # "done"
      /\ process \notin {"joining", "off"}
  BY DEF Main_, monitorVars, Alive
<1>2. ASSUME NEW l \in Line, stdout' = Append(stdout, l), l.msg \notin {"begin", "end"}, status' = status
      PROVE  BeginsSeen' = BeginsSeen /\ ClosedCalls' = ClosedCalls
  <2>1. EndedIn(stdout') = EndedIn(stdout) /\ BegunIn(stdout') = BegunIn(stdout)
    BY <1>2, EndedByEndLines, BegunByBeginLines DEF SidecarTypeOK
  <2> QED
    BY <1>1, <1>2, <2>1 DEF BeginsSeen, ClosedCalls, EndSeen, Answered
<1>3. ASSUME UNCHANGED <<stdin, active_call, pending_ends, ends>>, mpc' # "end",
             BeginsSeen' = BeginsSeen, ClosedCalls' = ClosedCalls
      PROVE  CallInv'
  <2>1. SameMarks
    BY <1>3 DEF SameMarks
  <2> QED
    BY <1>1, <1>3, <2>1, QuietKeepsCalls
<1>4. CASE WriteReady
  <2>1. /\ UNCHANGED <<stdin, status, active_call, pending_ends, ends>> /\ mpc' # "end"
        /\ stdout' = Append(stdout, ReadyLine) /\ ReadyLine \in Line
    BY <1>4, LineTypes DEF WriteReady, Emit, Goto, controlVars, state
  <2> QED
    BY <1>2, <1>3, <2>1, LinesDiffer
<1>5. CASE WriteEvent
  <2>1. Head(ring) \in Record
    BY <1>5, ReleaseTypes DEF WriteEvent, Goto
  <2>2. PICK l \in Line : l = EventLine(snap.bucket, snap.call, Head(ring).tag)
    BY <2>1, LineTypes DEF Record, Snap, SidecarTypeOK
  <2>3. /\ UNCHANGED <<stdin, status, active_call, pending_ends, ends>> /\ mpc' # "end"
        /\ stdout' = Append(stdout, l) /\ l.msg = "event"
    BY <1>5, <2>2 DEF WriteEvent, Emit, EventLine, Goto, controlVars, state
  <2> QED
    BY <1>2, <1>3, <2>3
<1>6. CASE BeginPass \/ ExitLoop \/ NextRecord \/ KeepRecord \/ SkipRecord \/ EndDrain \/ NextPass
  <2>1. UNCHANGED <<stdin, status, active_call, pending_ends, ends, stdout>> /\ mpc' # "end"
    BY <1>6 DEF BeginPass, ExitLoop, NextRecord, KeepRecord, SkipRecord, EndDrain, NextPass, Goto,
                controlVars, state
  <2>2. BeginsSeen' = BeginsSeen /\ ClosedCalls' = ClosedCalls
    BY <1>1, <2>1 DEF BeginsSeen, BegunIn, ClosedCalls, EndSeen, EndedIn, Answered
  <2> QED
    BY <1>3, <2>1, <2>2
<1> QED
  BY <1>4, <1>5, <1>6, ApplyKeepsCalls, WriteEndKeepsCalls DEF Main_, MainStep

(* CallInv is inductive on top of the types and the ledger.                       *)
LEMMA CallInvariant ==
  ASSUME Overlap = FALSE
  PROVE  Spec => []CallInv
<1>1. Init => CallInv
  <2> SUFFICES ASSUME Init PROVE CallInv
    OBVIOUS
  <2>1. /\ stdin = <<>> /\ stdout = <<>> /\ active_call = NoCall /\ pending_ends = <<>> /\ ends = <<>>
        /\ status = ReadyLine /\ mpc = "start" /\ process = "on"
        /\ pc = [c \in Calls |-> "new"] /\ begin_signals = [c \in Calls |-> "none"]
        /\ end_signals = [c \in Calls |-> "none"] /\ summary = [c \in Calls |-> NoSummary] /\ mine = {}
    BY DEF Init, SidecarInit, MonitorInit
  <2>2. /\ Busy = {} /\ BeginsSeen = {} /\ ClosedCalls = {}
        /\ \A x : ~Contains(stdin, x) /\ ~Contains(pending_ends, x) /\ ~Contains(ends, x)
    BY <2>1, LinesDiffer DEF Busy, BeginsSeen, BegunIn, ClosedCalls, EndSeen, EndedIn, Answered, Contains
  <2>3. OneCall /\ HeldOpen
    BY <2>1, <2>2 DEF OneCall, HeldOpen
  <2>4. OneEndMark
    <3>1. Len(ends) + Len(pending_ends) <= 1 /\ EndOnce(stdin)
      BY <2>1 DEF EndOnce
    <3> QED
      BY <2>1, <2>2, <3>1 DEF OneEndMark, EndMark
  <2> QED
    BY <2>2, <2>3, <2>4 DEF CallInv, AnsweredInv
<1>2. TypeInv /\ LedgerInv /\ CallInv /\ [Next]_vars => CallInv'
  <2> SUFFICES ASSUME TypeInv, LedgerInv, CallInv, [Next]_vars PROVE CallInv'
    OBVIOUS
  <2>1. CASE UNCHANGED vars \/ (\E p \in Procs : Capture(p)) \/ (\E i \in DOMAIN ring : Commit(i))
    <3>1. UNCHANGED <<stdin, active_call, pending_ends, ends, ended, mpc, process, pc, begin_signals,
                      end_signals, summary, mine, stdout, status>>
      BY <2>1 DEF vars, Capture, Commit, Unmoved, sidecarVars, controlVars, state, mainVars, monitorVars
    <3>2. BeginsSeen' = BeginsSeen /\ ClosedCalls' = ClosedCalls /\ SameMarks
      BY <3>1 DEF BeginsSeen, BegunIn, ClosedCalls, EndSeen, EndedIn, Answered, SameMarks
    <3> QED
      BY <3>1, <3>2, QuietKeepsCalls
  <2>2. ASSUME NEW c \in Calls, CallReturns(c) \/ CallTimesOut(c) PROVE CallInv'
    BY <2>2, ReturnsKeepCalls DEF CallReturns, CallTimesOut
  <2>3. CASE ReadStdout \/ RawFileFull
    <3>1. mine' = mine
      BY <2>3 DEF ReadStdout, RawFileFull, TakeLine
    <3> QED
      BY <2>3, <3>1, ReaderKeepsCalls DEF ReadStdout, RawFileFull
  <2> QED
    BY <2>1, <2>2, <2>3, BeginKeepsCalls, EndKeepsCalls, OtherWriteKeepsCalls, StopKeepsCalls,
       ControlKeepsCalls, MainKeepsCalls DEF Next
<1> QED
  BY <1>1, <1>2, TypeInvariant, LedgerInvariant, PTL DEF Spec

--------------------------------------------------------------------------------
(* The window of a call.                                                         *)

(* Calls that were open once.                                                    *)
Opened == {c \in Calls : pc[c] \notin {"new", "opening"} /\ begin_signals[c] # "clear"}

(* A line, and the lines of a queue: captured in windows of calls that were open  *)
(* once, and in that of no open call but the one it names.                       *)
LineInv(l) ==
  /\ l.tag.open \subseteq Opened
  /\ AllAnswered /\ l.msg = "event" => \A c \in OpenCalls \cap l.tag.open : l.call = c
QueueInv(q) == \A i \in DOMAIN q : LineInv(q[i])

(* The same of the records, and of the one at hand.                              *)
RingInv == \A i \in DOMAIN ring : ring[i].tag.open \subseteq Opened
HandInv ==
  mpc \in {"filter", "write"} =>
    /\ Head(ring).ready
    /\ AllAnswered => \A c \in OpenCalls \cap Head(ring).tag.open : snap.call = c

PlacedInv == QueueInv(ambient_events) /\ \A d \in Calls : QueueInv(events_by_call[d])
WindowInv == QueueInv(stdout) /\ PlacedInv /\ RingInv /\ HandInv

(* A call that opens was never open before, and an open one may close.           *)
Shift ==
  /\ Opened \subseteq Opened'
  /\ OpenCalls' \cap Opened \subseteq OpenCalls
  /\ AllAnswered' => AllAnswered

LEMMA StepShifts ==
  ASSUME TypeInv, SummaryInv, [Next]_vars
  PROVE  Shift
<1> USE DEF TypeInv, TypeOK, MonitorTypeOK
<1>1. AllAnswered' => AllAnswered
  BY AnswersLeft
<1>2. ASSUME UNCHANGED <<pc, begin_signals>>, mine' \subseteq mine PROVE Shift
  BY <1>1, <1>2 DEF Shift, Opened, OpenCalls
<1>3. ASSUME NEW c \in Calls, FuzzerBegins(c) PROVE Shift
  BY <1>1, <1>3 DEF FuzzerBegins, BeginCall, Sending, Shift, Opened, OpenCalls
<1>4. ASSUME NEW c \in Calls, FuzzerEnds(c) PROVE Shift
  BY <1>1, <1>4 DEF FuzzerEnds, EndCall, Sending, Shift, Opened, OpenCalls
<1>5. ASSUME NEW c \in Calls, NEW timeout \in BOOLEAN, mine' = mine,
             BeginReturns(c, timeout) \/ EndReturns(c, timeout)
      PROVE  Shift
  BY <1>1, <1>5 DEF BeginReturns, EndReturns, Shift, Opened, OpenCalls
<1>6. ASSUME ReadStdout PROVE Shift
  <2>1. UNCHANGED <<pc, mine>>
    BY <1>6 DEF ReadStdout, TakeLine, Deliver
  <2>3. \A c \in Calls : begin_signals'[c] = begin_signals[c] \/ (begin_signals[c] # "none" /\ begin_signals'[c] = "set")
    <3>1. PICK l \in Line : begin_signals' = Wake(begin_signals, "begin", l)
      BY <1>6 DEF ReadStdout, TakeLine, SidecarTypeOK, Deliver
    <3>2. l.call # NoCall => l.call \in Calls
      BY DEF Line, MaybeCall
    <3> QED
      BY <3>1, <3>2 DEF Wake
  <2>2. \A c \in Opened : begin_signals[c] = "set" \/ begin_signals'[c] = begin_signals[c] \/ begin_signals[c] = "none"
    BY <2>3 DEF Opened, Signals
  <2> QED
    BY <1>1, <2>1, <2>2, <2>3 DEF Shift, Opened, OpenCalls
<1>7. CASE UNCHANGED vars
  BY <1>2, <1>7 DEF vars, monitorVars
<1>8. ASSUME NEW c \in Calls, CallReturns(c) \/ CallTimesOut(c) PROVE Shift
  BY <1>5, <1>8 DEF CallReturns, CallTimesOut
<1>9. ASSUME \/ \E g \in Scopes : FuzzerScopes(g)
             \/ RawFileFull \/ Stop \/ Restart \/ SidecarCrashes \/ Control_ \/ Main_
             \/ \E p \in Procs : Capture(p)
             \/ \E i \in DOMAIN ring : Commit(i)
      PROVE  UNCHANGED <<pc, begin_signals>> /\ mine' \subseteq mine
  <2>1. CASE (\E g \in Scopes : FuzzerScopes(g)) \/ RawFileFull \/ SidecarCrashes \/ Control_ \/ Main_
    BY <2>1 DEF FuzzerScopes, RawFileFull, TakeLine, ReaderDies, SidecarCrashes, Control_, Main_, monitorVars
  <2>2. CASE Stop \/ Restart
    BY <2>2 DEF Stop, StopBegins, StopKills, StopEnds, Restart, Start, Callers
  <2>3. CASE (\E p \in Procs : Capture(p)) \/ (\E i \in DOMAIN ring : Commit(i))
    BY <2>3 DEF Capture, Commit, Unmoved, monitorVars
  <2> QED
    BY <1>9, <2>1, <2>2, <2>3
<1> QED
  BY <1>2, <1>3, <1>4, <1>6, <1>7, <1>8, <1>9 DEF Next

(* Lines, queues, records and the record at hand through such a step.            *)
LEMMA LineKept ==
  ASSUME NEW l, LineInv(l), Shift
  PROVE  LineInv(l)'
BY DEF LineInv, Shift

LEMMA QueueKept ==
  ASSUME NEW q \in Seq(Line), QueueInv(q), Shift
  PROVE  QueueInv(q)'
BY LineKept DEF QueueInv

LEMMA QueueShrinks ==
  ASSUME NEW q \in Seq(Line), q # <<>>, QueueInv(q), Shift, NEW r, r = Tail(q)
  PROVE  QueueInv(r)' /\ LineInv(Head(q))'
<1>1. /\ \A i \in DOMAIN r : i + 1 \in DOMAIN q /\ r[i] = q[i + 1]
      /\ 1 \in DOMAIN q /\ Head(q) = q[1]
  OBVIOUS
<1>2. \A i \in DOMAIN q : LineInv(q[i])'
  BY LineKept DEF QueueInv
<1> QED
  BY <1>1, <1>2 DEF QueueInv

LEMMA QueueGrows ==
  ASSUME NEW q \in Seq(Line), NEW l \in Line, QueueInv(q), Shift, LineInv(l)', NEW r, r = Append(q, l)
  PROVE  QueueInv(r)'
<1>1. \A i \in DOMAIN r : r[i] = l \/ (i \in DOMAIN q /\ r[i] = q[i])
  OBVIOUS
<1>2. \A i \in DOMAIN q : LineInv(q[i])'
  BY LineKept DEF QueueInv
<1> QED
  BY <1>1, <1>2 DEF QueueInv

LEMMA PlacedKept ==
  ASSUME TypeInv, PlacedInv, Shift, UNCHANGED <<events_by_call, ambient_events>>
  PROVE  PlacedInv'
<1>1. QueueInv(ambient_events)'
  BY QueueKept DEF PlacedInv, TypeInv, TypeOK, MonitorTypeOK, QueueInv
<1>2. ASSUME NEW d \in Calls PROVE QueueInv(events_by_call[d])'
  <2>1. PICK q \in Seq(Line) : q = events_by_call[d]
    BY DEF TypeInv, TypeOK, MonitorTypeOK
  <2>2. QueueInv(q)'
    BY <2>1, QueueKept DEF PlacedInv
  <2> QED
    BY <2>1, <2>2 DEF QueueInv
<1> QED
  BY <1>1, <1>2 DEF PlacedInv

LEMMA RingKept ==
  ASSUME TypeInv, RingInv, Shift, ring' = ring \/ (ring # <<>> /\ ring' = Tail(ring)) \/ ring' = <<>>
  PROVE  RingInv'
<1>1. \A i \in DOMAIN ring' : \E j \in DOMAIN ring : ring'[i] = ring[j]
  <2>1. ring \in Seq(Record)
    BY DEF TypeInv, TypeOK, SidecarTypeOK, KernelTypeOK
  <2> QED
    BY <2>1
<1> QED
  BY <1>1 DEF RingInv, Shift

LEMMA HandKept ==
  ASSUME TypeInv, WindowInv, Shift, UNCHANGED <<ring, snap>>, mpc' \in {"filter", "write"} => mpc \in {"filter", "write"}
  PROVE  HandInv'
<1> SUFFICES ASSUME mpc' \in {"filter", "write"} PROVE HandInv'
  BY DEF HandInv
<1>1. 1 \in DOMAIN ring /\ Head(ring) = ring[1]
  BY DEF TypeInv, TypeOK, SidecarTypeOK, KernelTypeOK, InHand
<1>2. Head(ring).tag.open \subseteq Opened
  BY <1>1 DEF WindowInv, RingInv
<1> QED
  BY <1>2 DEF WindowInv, HandInv, Shift

(* A status line belongs to no window.                                           *)
LEMMA StatusKept ==
  ASSUME NEW l, l.tag = NoTag, l.msg # "event"
  PROVE  LineInv(l)'
BY DEF LineInv, NoTag

(* A line is written, and nothing is read.                                       *)
LEMMA WrittenKept ==
  ASSUME TypeInv, WindowInv, Shift, NEW l \in Line, stdout' = Append(stdout, l), LineInv(l)'
  PROVE  QueueInv(stdout)'
<1>1. PICK q \in Seq(Line) : q = stdout
  BY DEF TypeInv, TypeOK, SidecarTypeOK
<1>2. PICK r : r = Append(q, l)
  OBVIOUS
<1>3. QueueInv(r)'
  BY <1>1, <1>2, QueueGrows DEF WindowInv
<1>4. stdout' = r
  BY <1>1, <1>2
<1> QED
  BY <1>3, <1>4 DEF QueueInv

LEMMA StdoutKept ==
  ASSUME TypeInv, WindowInv, Shift, stdout' = stdout
  PROVE  QueueInv(stdout)'
<1>1. PICK q \in Seq(Line) : q = stdout
  BY DEF TypeInv, TypeOK, SidecarTypeOK
<1>2. QueueInv(q)' /\ stdout' = q
  BY <1>1, QueueKept DEF WindowInv
<1> QED
  BY <1>2 DEF QueueInv

(* Steps that move no line and no record.                                        *)
LEMMA QuietKeepsWindow ==
  ASSUME TypeInv, WindowInv, Shift, UNCHANGED <<stdout, events_by_call, ambient_events, ring, snap>>,
         mpc' \in {"filter", "write"} => mpc \in {"filter", "write"}
  PROVE  WindowInv'
<1>1. PlacedInv' /\ RingInv' /\ HandInv'
  BY PlacedKept, RingKept, HandKept DEF WindowInv
<1> QED
  BY <1>1, StdoutKept DEF WindowInv

--------------------------------------------------------------------------------
(* The monitor.                                                                  *)

(* The reader puts the line it read aside, or loses it.                          *)
LEMMA ReaderKeepsWindow ==
  ASSUME TypeInv, WindowInv, Shift, ReadStdout \/ RawFileFull
  PROVE  WindowInv'
<1> USE DEF TypeInv, TypeOK, MonitorTypeOK
<1>1. PICK q \in Seq(Line) : q = stdout /\ q # <<>>
  BY DEF ReadStdout, RawFileFull, TakeLine, SidecarTypeOK
<1>2. PICK l \in Line : l = Head(q)
  BY <1>1
<1>3. PICK r : r = Tail(q)
  OBVIOUS
<1>4. stdout' = r /\ UNCHANGED <<ring, snap, mpc>>
  BY <1>1, <1>3 DEF ReadStdout, RawFileFull, TakeLine, mainVars
<1>5. QueueInv(r)' /\ LineInv(l)'
  BY <1>1, <1>2, <1>3, QueueShrinks DEF WindowInv
<1>6. QueueInv(stdout)'
  BY <1>4, <1>5 DEF QueueInv
<1>7. RingInv' /\ HandInv'
  BY <1>4, RingKept, HandKept DEF WindowInv
<1>8. CASE RawFileFull
  <2>1. PlacedInv'
    BY <1>8, PlacedKept DEF RawFileFull, ReaderDies, collected, WindowInv
  <2> QED
    BY <1>6, <1>7, <2>1 DEF WindowInv
<1>9. CASE ReadStdout /\ l.call = NoCall
  <2>1. ambient_events' = Append(ambient_events, l) /\ events_by_call' = events_by_call
    BY <1>1, <1>2, <1>9 DEF ReadStdout, Deliver
  <2>2. PICK a \in Seq(Line) : a = ambient_events
    OBVIOUS
  <2>3. PICK b : b = Append(a, l)
    OBVIOUS
  <2>4. QueueInv(b)' /\ ambient_events' = b
    BY <1>5, <2>1, <2>2, <2>3, QueueGrows DEF WindowInv, PlacedInv
  <2>5. QueueInv(ambient_events)'
    BY <2>4 DEF QueueInv
  <2>6. ASSUME NEW d \in Calls PROVE QueueInv(events_by_call[d])'
    <3>1. PICK f \in Seq(Line) : f = events_by_call[d]
      OBVIOUS
    <3>2. QueueInv(f)' /\ events_by_call'[d] = f
      BY <2>1, <3>1, QueueKept DEF WindowInv, PlacedInv
    <3> QED
      BY <3>2 DEF QueueInv
  <2> QED
    BY <1>6, <1>7, <2>5, <2>6 DEF WindowInv, PlacedInv
<1>10. CASE ReadStdout /\ l.call # NoCall
  <2>1. /\ l.call \in Calls /\ ambient_events' = ambient_events
        /\ events_by_call' = [events_by_call EXCEPT ![l.call] = Append(@, l)]
    BY <1>1, <1>2, <1>10 DEF ReadStdout, Deliver, Line, MaybeCall
  <2>2. QueueInv(ambient_events)'
    <3>1. PICK a \in Seq(Line) : a = ambient_events
      OBVIOUS
    <3>2. QueueInv(a)' /\ ambient_events' = a
      BY <2>1, <3>1, QueueKept DEF WindowInv, PlacedInv
    <3> QED
      BY <3>2 DEF QueueInv
  <2>3. ASSUME NEW d \in Calls PROVE QueueInv(events_by_call[d])'
    <3>1. PICK f \in Seq(Line) : f = events_by_call[d]
      OBVIOUS
    <3>2. PICK g : g = Append(f, l)
      OBVIOUS
    <3>3. events_by_call'[d] = f \/ events_by_call'[d] = g
      BY <2>1, <3>1, <3>2
    <3>4. QueueInv(f)' /\ QueueInv(g)'
      BY <1>5, <3>1, <3>2, QueueKept, QueueGrows DEF WindowInv, PlacedInv
    <3> QED
      BY <3>3, <3>4 DEF QueueInv
  <2> QED
    BY <1>6, <1>7, <2>2, <2>3 DEF WindowInv, PlacedInv
<1> QED
  BY <1>8, <1>9, <1>10

(* end_call takes the events of its call away.                                   *)
LEMMA ReturnsKeepWindow ==
  ASSUME TypeInv, WindowInv, Shift, NEW c \in Calls, CallReturns(c) \/ CallTimesOut(c)
  PROVE  WindowInv'
<1> USE DEF TypeInv, TypeOK, MonitorTypeOK
<1>1. UNCHANGED <<stdout, ring, snap, mpc>>
  BY DEF CallReturns, CallTimesOut, sidecarVars, mainVars
<1>2. CASE UNCHANGED <<events_by_call, ambient_events>>
  BY <1>1, <1>2, QuietKeepsWindow
<1>3. ASSUME NEW timeout \in BOOLEAN, EndReturns(c, timeout) PROVE WindowInv'
  <2>1. ambient_events' = ambient_events /\ events_by_call' = [events_by_call EXCEPT ![c] = <<>>]
    BY <1>3 DEF EndReturns
  <2>2. QueueInv(stdout)' /\ RingInv' /\ HandInv'
    BY <1>1, StdoutKept, RingKept, HandKept DEF WindowInv
  <2>3. QueueInv(ambient_events)'
    <3>1. PICK a \in Seq(Line) : a = ambient_events
      OBVIOUS
    <3>2. QueueInv(a)' /\ ambient_events' = a
      BY <2>1, <3>1, QueueKept DEF WindowInv, PlacedInv
    <3> QED
      BY <3>2 DEF QueueInv
  <2>4. ASSUME NEW d \in Calls PROVE QueueInv(events_by_call[d])'
    <3>1. PICK f \in Seq(Line) : f = events_by_call[d]
      OBVIOUS
    <3>2. events_by_call'[d] = f \/ events_by_call'[d] = <<>>
      BY <2>1, <3>1
    <3>3. QueueInv(f)'
      BY <3>1, QueueKept DEF WindowInv, PlacedInv
    <3> QED
      BY <3>2, <3>3 DEF QueueInv
  <2> QED
    BY <2>2, <2>3, <2>4 DEF WindowInv, PlacedInv
<1> QED
  BY <1>2, <1>3 DEF CallReturns, CallTimesOut, BeginReturns, collected

(* A sidecar that is gone leaves its lines and no record; stop() drops the lines. *)
LEMMA StopKeepsWindow ==
  ASSUME TypeInv, LedgerInv, WindowInv, Shift, Stop \/ Restart \/ SidecarCrashes
  PROVE  WindowInv'
<1>1. ASSUME SidecarGone, UNCHANGED <<events_by_call, ambient_events>> PROVE WindowInv'
  <2>1. ring' = <<>> /\ mpc' = "done" /\ stdout' = stdout
    BY <1>1 DEF SidecarGone
  <2>2. QueueInv(stdout)' /\ PlacedInv' /\ RingInv'
    BY <1>1, <2>1, StdoutKept, PlacedKept, RingKept DEF WindowInv
  <2> QED
    BY <2>1, <2>2 DEF WindowInv, HandInv
<1>2. CASE StopBegins /\ Write(Shutdown) /\ UNCHANGED <<scopes, mine>> /\ StdinOnly
  BY <1>2, QuietKeepsWindow DEF StopBegins, Callers, collected, StdinOnly, mainVars
<1>3. CASE (StopKills /\ SidecarGone /\ UNCHANGED <<scopes, mine, history>>) \/ SidecarCrashes
  BY <1>1, <1>3 DEF StopKills, Callers, SidecarCrashes, monitorVars, collected
<1>4. CASE StopEnds /\ stdout' = <<>> /\ UNCHANGED <<controlVars, state, mainVars, ring, processes, scopes,
                                                      mine, captures, lost, starts, reported>>
  <2>1. UNCHANGED <<ring, snap, mpc, events_by_call, ambient_events>> /\ stdout' = <<>>
    BY <1>4 DEF StopEnds, Callers, collected, mainVars
  <2>2. PlacedInv' /\ RingInv' /\ HandInv'
    BY <2>1, PlacedKept, RingKept, HandKept DEF WindowInv
  <2> QED
    BY <2>1, <2>2 DEF WindowInv, QueueInv
<1>5. CASE Restart
  BY <1>5, QuietKeepsWindow DEF Restart, Start, Callers, collected
<1> QED
  BY <1>2, <1>3, <1>4, <1>5 DEF Stop

--------------------------------------------------------------------------------
(* The sidecar and the kernel.                                                   *)

LEMMA ControlKeepsWindow ==
  ASSUME TypeInv, WindowInv, Shift, Control_
  PROVE  WindowInv'
<1>0. UNCHANGED <<events_by_call, ambient_events>>
  BY DEF Control_, monitorVars, collected
<1>1. CASE WriteStatus
  <2>1. /\ stdout' = Append(stdout, status) /\ UNCHANGED <<ring, snap, mpc>>
        /\ status \in Line /\ status.tag = NoTag /\ status.msg # "event"
    BY <1>1 DEF WriteStatus, Emit, mainVars, TypeInv, TypeOK, SidecarTypeOK, StatusKind, ReadyLine, ScopeLine,
                BeginLine, Status
  <2>2. PICK l \in Line : l = status
    BY <2>1
  <2>3. LineInv(l)'
    BY <2>1, <2>2, StatusKept
  <2>4. QueueInv(stdout)'
    BY <2>1, <2>2, <2>3, WrittenKept
  <2>5. PlacedInv' /\ RingInv' /\ HandInv'
    BY <1>0, <2>1, PlacedKept, RingKept, HandKept DEF WindowInv
  <2> QED
    BY <2>4, <2>5 DEF WindowInv
<1>2. CASE ReadScope \/ ReadBegin \/ ReadEnd \/ ReadIgnored \/ ReadShutdown
  <2>1. UNCHANGED <<stdout, ring, snap, mpc>>
    BY <1>2 DEF ReadScope, ReadBegin, ReadEnd, ReadIgnored, ReadShutdown, ReadLine, mainVars
  <2> QED
    BY <1>0, <2>1, QuietKeepsWindow
<1> QED
  BY <1>1, <1>2 DEF Control_, ControlStep

(* A record is taken: it was submitted, and if a call is open it is the active    *)
(* one.  An event is reported with the call that was active then.                *)
LEMMA MainKeepsWindow ==
  ASSUME TypeInv, LedgerInv, CallInv, WindowInv, Shift, Main_
  PROVE  WindowInv'
<1> USE DEF TypeInv, TypeOK
<1>0. UNCHANGED <<events_by_call, ambient_events, pc, begin_signals, mine, summary>> /\ mpc # "done"
  BY DEF Main_, monitorVars, collected, Alive
<1>1. PlacedInv'
  BY <1>0, PlacedKept DEF WindowInv
<1>2. ASSUME NEW l \in Line, stdout' = Append(stdout, l), LineInv(l)',
             ring' = ring \/ (ring # <<>> /\ ring' = Tail(ring)), mpc' \notin {"filter", "write"}
      PROVE  WindowInv'
  <2>1. QueueInv(stdout)'
    BY <1>2, WrittenKept
  <2>2. RingInv' /\ HandInv'
    BY <1>2, RingKept DEF WindowInv, HandInv
  <2> QED
    BY <1>1, <2>1, <2>2 DEF WindowInv
<1>3. CASE WriteReady \/ WriteEnd
  <2>1. PICK l \in Line : /\ stdout' = Append(stdout, l) /\ l.tag = NoTag /\ l.msg # "event"
                          /\ ring' = ring /\ mpc' \notin {"filter", "write"}
    <3>1. CASE WriteReady
      BY <3>1, LineTypes DEF WriteReady, Emit, Goto, ReadyLine, Status
    <3>2. CASE WriteEnd
      <4>1. EndLine(ended) \in Line /\ stdout' = Append(stdout, EndLine(ended))
        BY <3>2, LineTypes DEF WriteEnd, Emit, SidecarTypeOK
      <4>2. EndLine(ended).tag = NoTag /\ EndLine(ended).msg # "event" /\ ring' = ring /\ mpc' = "apply"
        BY <3>2 DEF WriteEnd, Goto, EndLine, Status
      <4> QED
        BY <4>1, <4>2
    <3> QED
      BY <1>3, <3>1, <3>2
  <2>2. LineInv(l)'
    BY <2>1, StatusKept
  <2> QED
    BY <1>2, <2>1, <2>2
<1>4. CASE WriteEvent
  <2>1. /\ mpc = "write" /\ ring # <<>> /\ ring \in Seq(Record) /\ Head(ring) \in Record
        /\ ring' = Tail(ring) /\ mpc' = "drain"
    BY <1>4 DEF WriteEvent, Goto, Release, InHand, SidecarTypeOK, KernelTypeOK
  <2>2. PICK l \in Line : l = EventLine(snap.bucket, snap.call, Head(ring).tag)
    BY <2>1, LineTypes DEF Record, Snap, SidecarTypeOK
  <2>3. stdout' = Append(stdout, l)
    BY <1>4, <2>2 DEF WriteEvent, Emit
  <2>4. Head(ring).tag.open \subseteq Opened
    BY <2>1 DEF WindowInv, RingInv
  <2>5. LineInv(l)
    BY <2>1, <2>2, <2>4 DEF WindowInv, HandInv, LineInv, EventLine
  <2>6. LineInv(l)'
    BY <2>5, LineKept
  <2> QED
    BY <1>2, <2>1, <2>3, <2>6
<1>5. CASE NextRecord
  <2>1. /\ UNCHANGED <<stdout, ring>> /\ Head(ring).ready /\ ring # <<>>
        /\ snap' = [bucket |-> Bucket, call |-> active_call, scoped |-> scoped, scope |-> scope_pgid]
    BY <1>5 DEF NextRecord, HasNext
  <2>2. snap'.call = active_call
    BY <2>1
  <2>3. OpenCalls' = OpenCalls
    BY <1>0 DEF OpenCalls
  <2>4. ASSUME AllAnswered, NEW c \in OpenCalls PROVE active_call = c
    <3>1. c \in Calls /\ c \in mine /\ begin_signals[c] = "set" /\ pc[c] = "running"
      BY DEF OpenCalls
    <3>2. c \in BegunCalls
      BY <3>1 DEF CallInv, OneCall, BeginsSeen
    <3>3. HeldOpen
      BY <1>0, <2>4 DEF CallInv, AnsweredInv
    <3> QED
      BY <3>1, <3>2, <3>3 DEF HeldOpen
  <2>5. HandInv'
    BY <1>0, <2>1, <2>2, <2>3, <2>4 DEF HandInv, AllAnswered
  <2>6. QueueInv(stdout)' /\ RingInv'
    BY <2>1, StdoutKept, RingKept DEF WindowInv
  <2> QED
    BY <1>1, <2>5, <2>6 DEF WindowInv
<1>6. CASE KeepRecord
  <2>1. UNCHANGED <<stdout, ring, snap>> /\ mpc = "filter"
    BY <1>6 DEF KeepRecord, Goto
  <2> QED
    BY <1>0, <2>1, QuietKeepsWindow
<1>7. CASE SkipRecord
  <2>1. stdout' = stdout /\ ring # <<>> /\ ring' = Tail(ring) /\ mpc' = "drain"
    BY <1>7 DEF SkipRecord, Goto, Release, InHand
  <2>2. QueueInv(stdout)' /\ RingInv' /\ HandInv'
    BY <2>1, StdoutKept, RingKept DEF WindowInv, HandInv
  <2> QED
    BY <1>1, <2>2 DEF WindowInv
<1>8. CASE BeginPass \/ ExitLoop \/ EndDrain \/ TakeEnds \/ ApplyEnd \/ NextPass
  <2>1. UNCHANGED <<stdout, ring, snap>> /\ mpc' \notin {"filter", "write"}
    BY <1>8 DEF BeginPass, ExitLoop, EndDrain, TakeEnds, ApplyEnd, NextPass, Goto
  <2> QED
    BY <1>0, <2>1, QuietKeepsWindow
<1> QED
  BY <1>3, <1>4, <1>5, <1>6, <1>7, <1>8 DEF Main_, MainStep

(* A record is tagged with calls that are open, at first and when it is submitted, *)
(* and the record at hand is submitted already.                                  *)
LEMMA KernelKeepsWindow ==
  ASSUME TypeInv, WindowInv, Shift, (\E p \in Procs : Capture(p)) \/ (\E i \in DOMAIN ring : Commit(i))
  PROVE  WindowInv'
<1> USE DEF TypeInv, TypeOK
<1>0. /\ UNCHANGED <<stdout, mpc, snap, events_by_call, ambient_events, pc, begin_signals, mine, summary>>
      /\ ring \in Seq(Record)
  BY DEF Capture, Commit, Unmoved, mainVars, monitorVars, collected, SidecarTypeOK, KernelTypeOK
<1>1. QueueInv(stdout)' /\ PlacedInv' /\ OpenCalls' = OpenCalls /\ Opened' = Opened
  BY <1>0, StdoutKept, PlacedKept DEF WindowInv, OpenCalls, Opened
<1>2. Now \in Tag /\ Now.open \subseteq Opened
  BY NowType DEF Now, OpenCalls, Opened
<1>3. ASSUME RingInv', mpc \in {"filter", "write"} => ring'[1] = ring[1] /\ ring' # <<>>
      PROVE  WindowInv'
  <2>1. mpc \in {"filter", "write"} => Head(ring') = Head(ring)
    BY <1>0, <1>3 DEF InHand
  <2>2. HandInv'
    BY <1>0, <1>1, <2>1 DEF WindowInv, HandInv, AllAnswered
  <2> QED
    BY <1>1, <1>3, <2>2 DEF WindowInv
<1>4. CASE ring' = ring
  BY <1>0, <1>4, QuietKeepsWindow
<1>5. ASSUME NEW p \in Procs, Reserve(p, TRUE, Now) PROVE WindowInv'
  <2>1. /\ Len(ring') = Len(ring) + 1 /\ ring' # <<>> /\ DOMAIN ring' = 1..Len(ring')
        /\ \A i \in 1..Len(ring) : ring'[i] = ring[i]
        /\ ring'[Len(ring) + 1].tag = Now /\ Len(ring) \in Nat /\ DOMAIN ring = 1..Len(ring)
    <3>1. /\ KernelTypeOK' /\ Len(ring') = Len(ring) + 1 /\ ring' # <<>>
          /\ \A i \in 1..Len(ring) : ring'[i] = ring[i]
          /\ ring'[Len(ring) + 1] = [pid |-> p, usable |-> TRUE, ready |-> FALSE, tag |-> Now]
      BY <1>2, <1>5, ReserveTypes DEF SidecarTypeOK
    <3> QED
      BY <1>0, <3>1 DEF KernelTypeOK
  <2>2. RingInv'
    BY <1>1, <1>2, <2>1 DEF WindowInv, RingInv
  <2>3. mpc \in {"filter", "write"} => 1 \in 1..Len(ring)
    BY <1>0 DEF InHand
  <2> QED
    BY <1>3, <2>1, <2>2, <2>3
<1>6. ASSUME NEW i \in DOMAIN ring, Commit(i) PROVE WindowInv'
  <2>1. Submit(i, Now) /\ ~ring[i].ready
    BY <1>6 DEF Commit, Submit
  <2>2. /\ DOMAIN ring' = DOMAIN ring /\ ring' # <<>>
        /\ \A j \in DOMAIN ring \ {i} : ring'[j] = ring[j]
        /\ ring'[i].tag.open \subseteq ring[i].tag.open
    <3>1. /\ DOMAIN ring' = DOMAIN ring /\ ring' # <<>>
          /\ \A j \in DOMAIN ring \ {i} : ring'[j] = ring[j]
          /\ ring'[i] = [ring[i] EXCEPT !.ready = TRUE, !.tag = Throughout(ring[i].tag, Now)]
      BY <1>2, <2>1, SubmitTypes DEF SidecarTypeOK
    <3>2. ring[i] \in Record
      BY <1>0
    <3>3. ring'[i].tag = Throughout(ring[i].tag, Now)
      BY <3>1, <3>2 DEF Record
    <3> QED
      BY <3>1, <3>3 DEF Throughout
  <2>3. RingInv'
    BY <1>1, <2>2 DEF WindowInv, RingInv
  <2>4. mpc \in {"filter", "write"} => 1 \in DOMAIN ring /\ 1 # i
    BY <1>0, <2>1 DEF InHand, WindowInv, HandInv
  <2> QED
    BY <1>3, <2>2, <2>3, <2>4
<1> QED
  BY <1>4, <1>5, <1>6 DEF Capture, ReserveFails

--------------------------------------------------------------------------------
(* With one call at a time, and as long as no end_call timed out, an event        *)
(* captured while a call was open throughout is, wherever it is, one of that call *)
(* until end_call is called: monitor.py:138-140.                                 *)
THEOREM AnsweredWindow ==
  ASSUME Overlap = FALSE
  PROVE  Spec => []AnsweredWindowKept
<1>1. Init => WindowInv
  <2> SUFFICES ASSUME Init PROVE WindowInv
    OBVIOUS
  <2>1. /\ ring = <<>> /\ stdout = <<>> /\ mpc = "start" /\ ambient_events = <<>>
        /\ \A d \in Calls : events_by_call[d] = <<>>
    BY DEF Init, SidecarInit, KernelInit, MonitorInit
  <2> QED
    BY <2>1 DEF WindowInv, QueueInv, PlacedInv, RingInv, HandInv
<1>2. TypeInv /\ LedgerInv /\ CallInv /\ WindowInv /\ [Next]_vars => WindowInv'
  <2> SUFFICES ASSUME TypeInv, LedgerInv, CallInv, WindowInv, [Next]_vars PROVE WindowInv'
    OBVIOUS
  <2>1. Shift
    BY StepShifts DEF LedgerInv
  <2>2. CASE \/ \E c \in Calls : FuzzerBegins(c) \/ FuzzerEnds(c)
             \/ \E g \in Scopes : FuzzerScopes(g)
             \/ UNCHANGED vars
    <3>1. UNCHANGED <<stdout, events_by_call, ambient_events, ring, snap, mpc>>
      BY <2>2 DEF FuzzerBegins, BeginCall, FuzzerEnds, EndCall, FuzzerScopes, StdinOnly, vars, sidecarVars,
                  mainVars, monitorVars, collected
    <3> QED
      BY <2>1, <3>1, QuietKeepsWindow
  <2>3. ASSUME NEW c \in Calls, CallReturns(c) \/ CallTimesOut(c) PROVE WindowInv'
    BY <2>1, <2>3, ReturnsKeepWindow
  <2> QED
    BY <2>1, <2>2, <2>3, ReaderKeepsWindow, StopKeepsWindow, ControlKeepsWindow, MainKeepsWindow,
       KernelKeepsWindow DEF Next
<1>3. WindowInv => AnsweredWindowKept
  <2> SUFFICES ASSUME WindowInv, AllAnswered, NEW c \in OpenCalls,
                      NEW q, QueueInv(q), NEW i \in DOMAIN q, q[i].msg = "event", c \in q[i].tag.open
               PROVE  q[i].call = c
    BY DEF AnsweredWindowKept, OpenWindowKept, WindowInv, PlacedInv
  <2> QED
    BY DEF QueueInv, LineInv
<1> QED
  BY <1>1, <1>2, <1>3, TypeInvariant, LedgerInvariant, CallInvariant, PTL DEF Spec
================================================================================
