------------------------------- MODULE FakeProofs --------------------------------
(* Theorems about the fake backend, by itself and inside its process, for any    *)
(* calls, tools, scripts, command lines and order of marks: its variables keep   *)
(* their types, it runs on the options that were given, it leaves no mark         *)
(* unanswered when it exits with success, and for a client whose marks carry a    *)
(* call id, as those of monitor.py do, it implements the call ledger and replays  *)
(* its script exactly.                                                            *)
EXTENDS FakeProcess, TLAPS, FiniteSetTheorems, SequenceTheorems, WellFoundedInduction

--------------------------------------------------------------------------------
(* Types.                                                                        *)
LEMMA LinesTyped ==
  /\ ReadyLine \in Line /\ ScopeLine \in Line /\ ErrorLine \in Line
  /\ \A c \in MaybeCall : BeginLine(c) \in Line /\ EndLine(c) \in Line
  /\ \A bucket \in Buckets, c \in MaybeCall : EventLine(bucket, c, NoTag) \in Line
<1>1. NoTag \in Tag /\ NoCall \in MaybeCall
  BY DEF NoTag, Tag, MaybeCall
<1> QED
  BY <1>1 DEF ReadyLine, ScopeLine, ErrorLine, BeginLine, EndLine, EventLine, Status, Line, Buckets

(* What a handler finds at the head of stdin.                                    *)
LEMMA HeadTyped ==
  ASSUME TypeOK, NEW op, ReadLine(op)
  PROVE  /\ Head(stdin) \in Messages /\ Tail(stdin) \in Seq(Messages)
         /\ op = "begin" => Head(stdin).arg \in MaybeCall /\ Head(stdin) = Begin(Head(stdin).arg)
         /\ op = "end" => Head(stdin).arg \in MaybeCall /\ Head(stdin) = End(Head(stdin).arg)
         /\ \A c : op # "begin" => Head(stdin) # Begin(c)
<1>1. Head(stdin) \in Messages /\ Tail(stdin) \in Seq(Messages) /\ Head(stdin).op = op
  BY DEF TypeOK, ReadLine
<1>2. Head(stdin) \in Control
  BY <1>1, FakeAssumption
<1>3. /\ op = "begin" => Head(stdin).arg \in MaybeCall /\ Head(stdin) = Begin(Head(stdin).arg)
      /\ op = "end" => Head(stdin).arg \in MaybeCall /\ Head(stdin) = End(Head(stdin).arg)
  BY <1>1, <1>2 DEF Control, Scope, Begin, End, Shutdown, Ignored
<1>4. \A c : op # "begin" => Head(stdin) # Begin(c)
  BY <1>1 DEF Begin
<1> QED
  BY <1>1, <1>3, <1>4

LEMMA TypeInit == ASSUME Init PROVE TypeOK
<1>1. StartJob \in Job /\ script \in Seq(Entry)
  BY FakeAssumption DEF Init, StartJob, Job, Triggers, Tools, Buckets, MaybeCall
<1>2. 1 \in 1..Len(script) + 1
  BY <1>1
<1> QED
  BY <1>1, <1>2 DEF Init, TypeOK, MaybeCall, Tools

LEMMA TypeNext == ASSUME TypeOK, [Next]_vars PROVE TypeOK'
<1> USE DEF TypeOK
<1>1. script \in Seq(Entry) /\ Len(script) \in Nat /\ 1 \in 1..Len(script) + 1
  BY FakeAssumption
<1>2. /\ StartJob \in Job /\ ScopeJob \in Job
      /\ \A trigger \in {"begin", "end"}, tool \in Tools, c \in MaybeCall : CallJob(trigger, tool, c) \in Job
  BY DEF StartJob, ScopeJob, CallJob, Job, Triggers, Tools, Buckets, MaybeCall
<1>3. CASE OnStart
  BY <1>1, <1>2, <1>3, LinesTyped DEF OnStart, Emit, StartFiring
<1>4. CASE HandleScope
  BY <1>1, <1>2, <1>4, HeadTyped, LinesTyped DEF HandleScope, ReadLine, Emit, StartFiring
<1>5. CASE HandleBegin
  <2> DEFINE c == Head(stdin).arg
  <2>1. c \in MaybeCall /\ ToolGiven(c) \in Tools /\ (c = NoCall <=> ToolGiven(c) = NoTool)
    <3>1. c \in MaybeCall
      BY <1>5, HeadTyped DEF HandleBegin
    <3> QED
      BY <3>1, FakeAssumption DEF ToolGiven, Tools, MaybeCall
  <2>2. stdin' \in Seq(Messages)
    BY <1>5, HeadTyped DEF HandleBegin, ReadLine
  <2> QED
    BY <1>2, <1>5, <2>1, <2>2 DEF HandleBegin, ReadLine
<1>6. CASE WriteBegin
  BY <1>1, <1>6, LinesTyped DEF WriteBegin, Emit, StartFiring, Job
<1>7. CASE HandleEnd
  <2>1. Head(stdin).arg \in MaybeCall /\ stdin' \in Seq(Messages)
    BY <1>7, HeadTyped DEF HandleEnd, ReadLine
  <2> QED
    BY <1>1, <1>2, <1>7, <2>1 DEF HandleEnd, ReadLine, StartFiring
<1>8. CASE HandleIgnored
  BY <1>8, HeadTyped, LinesTyped DEF HandleIgnored, ReadLine, Emit
<1>9. CASE HandleShutdown
  BY <1>9, HeadTyped DEF HandleShutdown, ReadLine
<1>10. CASE FireEntry
  <2>1. job.bucket \in Buckets /\ job.call \in MaybeCall
    BY DEF Job
  <2>2. stdout' \in Seq(Line)
    <3>1. EventLine(job.bucket, job.call, NoTag) \in Line
      BY <2>1, LinesTyped
    <3>2. stdout' = Append(stdout, EventLine(job.bucket, job.call, NoTag)) \/ stdout' = stdout
      BY <1>10 DEF FireEntry, Emit
    <3> QED
      BY <3>1, <3>2
  <2>3. at' \in 1..Len(script') + 1
    BY <1>1, <1>10 DEF FireEntry
  <2> QED
    BY <1>10, <2>2, <2>3 DEF FireEntry
<1>11. CASE FireDone
  BY <1>11 DEF FireDone
<1>12. CASE WriteEnd
  BY <1>12, LinesTyped DEF WriteEnd, Emit, Job, MaybeCall, Tools
<1>13. CASE WriteFails
  BY <1>13 DEF WriteFails
<1>14. ASSUME NEW m \in Messages, ClientSend(m) PROVE TypeOK'
  BY <1>14 DEF ClientSend
<1>15. CASE UNCHANGED vars
  BY <1>15 DEF vars
<1> QED
  BY <1>3, <1>4, <1>5, <1>6, <1>7, <1>8, <1>9, <1>10, <1>11, <1>12, <1>13, <1>14, <1>15
     DEF Next, BackendStep

(* The variables keep their types; the fields of the active call go together.    *)
THEOREM FakeTypeCorrect == Spec => []TypeOK
<1>1. Init => TypeOK
  BY TypeInit
<1>2. TypeOK /\ [Next]_vars => TypeOK'
  BY TypeNext
<1> QED
  BY <1>1, <1>2, PTL DEF Spec

--------------------------------------------------------------------------------
(* The ledger.  A message is handled once it was sent and taken from stdin.      *)
Handled(m)  == m \in sent /\ ~Contains(stdin, m)
Answered(c) == Contains(stdout, EndLine(c))
Active(c)   == Handled(Begin(c)) /\ ~Answered(c)
Firing      == pc \in {"begin", "fire", "end"}

(* Marks wait in stdin once, an end mark behind its begin mark.                  *)
QueueInv ==
  /\ \A i \in 1..Len(stdin) : stdin[i] \in sent
  /\ \A i, j \in 1..Len(stdin) : stdin[i] = stdin[j] => i = j
  /\ \A i, j \in 1..Len(stdin) : \A c \in Calls :
       stdin[i] = End(c) /\ stdin[j] = Begin(c) => j < i
  /\ \A c \in Calls : End(c) \in sent => Begin(c) \in sent

(* A call that was answered has no mark left; the active call and the call a mark *)
(* fires for were begun and not answered; a job has a call when a mark caused it.*)
LedgerInv ==
  /\ QueueInv
  /\ \A c \in Calls : Answered(c) => Handled(Begin(c)) /\ Handled(End(c))
  /\ active_call # NoCall => Active(active_call)
  /\ Firing =>
       /\ job.call # NoCall => Active(job.call)
       /\ job.bucket = "call" <=> job.call # NoCall
       /\ job.trigger \in {"begin", "end"} <=> job.call # NoCall
       /\ job.trigger = "end" => Handled(End(job.call))
  /\ pc = "begin" => job.trigger = "begin"
  /\ pc = "end" => job.trigger = "end"

(* The marks of monitor.py carry a call id.                                      *)
Named == Begin(NoCall) \notin Messages /\ End(NoCall) \notin Messages

LEMMA SendHandlesNothing ==
  ASSUME TypeOK, NEW m \in Messages, ClientSend(m), NEW x
  PROVE  Handled(x)' <=> Handled(x)
<1>1. /\ Len(stdin) \in Nat /\ Len(stdin') = Len(stdin) + 1 /\ stdin'[Len(stdin) + 1] = m
      /\ \A i \in 1..Len(stdin) : stdin'[i] = stdin[i]
      /\ sent' = sent \cup {m} /\ m \notin sent
  BY DEF ClientSend, TypeOK
<1>2. Contains(stdin', x) <=> Contains(stdin, x) \/ x = m
  BY <1>1 DEF Contains
<1> QED
  BY <1>1, <1>2 DEF Handled

LEMMA ReadHandlesHead ==
  ASSUME TypeOK, QueueInv, NEW op, ReadLine(op), NEW x
  PROVE  Handled(x)' <=> Handled(x) \/ x = Head(stdin)
<1>1. /\ Len(stdin) \in Nat \ {0} /\ Len(stdin') = Len(stdin) - 1 /\ Head(stdin) = stdin[1]
      /\ \A i \in 1..Len(stdin') : stdin'[i] = stdin[i + 1]
      /\ sent' = sent
  BY DEF TypeOK, ReadLine
<1>2. stdin[1] \in sent /\ \A i \in 1..Len(stdin) : stdin[i] = stdin[1] => i = 1
  BY <1>1 DEF QueueInv
<1>3. Contains(stdin', x) <=> \E i \in 2..Len(stdin) : stdin[i] = x
  <2>1. ASSUME NEW i \in 1..Len(stdin'), stdin'[i] = x PROVE \E k \in 2..Len(stdin) : stdin[k] = x
    <3>1. i + 1 \in 2..Len(stdin) /\ stdin[i + 1] = x
      BY <1>1, <2>1
    <3> QED
      BY <3>1
  <2>2. ASSUME NEW i \in 2..Len(stdin), stdin[i] = x PROVE \E k \in 1..Len(stdin') : stdin'[k] = x
    <3>1. i - 1 \in 1..Len(stdin') /\ (i - 1) + 1 = i
      BY <1>1
    <3>2. stdin'[i - 1] = x
      BY <1>1, <2>2, <3>1
    <3> QED
      BY <3>1, <3>2
  <2> QED
    BY <2>1, <2>2 DEF Contains
<1>4. Contains(stdin, x) <=> x = stdin[1] \/ Contains(stdin', x)
  <2>1. \A i \in 1..Len(stdin) : i = 1 \/ i \in 2..Len(stdin)
    BY <1>1
  <2>2. \A i \in 2..Len(stdin) : i \in 1..Len(stdin) /\ i # 1
    BY <1>1
  <2>3. 1 \in 1..Len(stdin)
    BY <1>1
  <2> QED
    BY <1>3, <2>1, <2>2, <2>3 DEF Contains
<1>5. x = stdin[1] => ~Contains(stdin', x)
  <2>1. \A i \in 2..Len(stdin) : stdin[i] # stdin[1]
    BY <1>1, <1>2
  <2> QED
    BY <1>3, <2>1
<1> QED
  BY <1>1, <1>2, <1>4, <1>5 DEF Handled

LEMMA QueueKept ==
  ASSUME TypeOK, QueueInv, [Next]_vars
  PROVE  QueueInv'
<1>1. ASSUME NEW m \in Messages, ClientSend(m) PROVE QueueInv'
  <2>1. /\ Len(stdin) \in Nat /\ Len(stdin') = Len(stdin) + 1 /\ stdin'[Len(stdin) + 1] = m
        /\ \A i \in 1..Len(stdin) : stdin'[i] = stdin[i]
        /\ sent' = sent \cup {m} /\ m \notin sent
        /\ \A c \in Calls : m = End(c) => Begin(c) \in sent
    <3>1. \A c \in Calls : m = End(c) => m.op = "end" /\ m.arg # NoCall /\ m.arg = c
      BY ProtocolAssumption DEF End
    <3> QED
      BY <1>1, <3>1 DEF ClientSend, TypeOK
  <2>2. \A i \in 1..Len(stdin') : i \in 1..Len(stdin) \/ i = Len(stdin) + 1
    BY <2>1
  <2>3. \A i \in 1..Len(stdin) : stdin[i] \in sent /\ stdin[i] # m
    BY <2>1 DEF QueueInv
  <2>4. \A i \in 1..Len(stdin') : stdin'[i] \in sent'
    BY <2>1, <2>2, <2>3
  <2>5. \A i, j \in 1..Len(stdin') : stdin'[i] = stdin'[j] => i = j
    BY <2>1, <2>2, <2>3 DEF QueueInv
  <2>6. ASSUME NEW i \in 1..Len(stdin'), NEW j \in 1..Len(stdin'), NEW c \in Calls,
               stdin'[i] = End(c), stdin'[j] = Begin(c)
        PROVE  j < i
    <3>1. CASE i \in 1..Len(stdin) /\ j \in 1..Len(stdin)
      BY <2>1, <2>6, <3>1 DEF QueueInv
    <3>2. CASE i = Len(stdin) + 1
      <4>1. j # i
        BY <2>6 DEF Begin, End
      <4> QED
        BY <2>1, <2>2, <3>2, <4>1
    <3>3. CASE j = Len(stdin) + 1 /\ i \in 1..Len(stdin)
      <4>1. End(c) \in sent /\ Begin(c) \notin sent
        BY <2>1, <2>3, <2>6, <3>3
      <4> QED
        BY <4>1 DEF QueueInv
    <3> QED
      BY <2>2, <3>1, <3>2, <3>3
  <2>7. \A c \in Calls : End(c) \in sent' => Begin(c) \in sent'
    BY <2>1 DEF QueueInv
  <2> QED
    BY <2>4, <2>5, <2>6, <2>7 DEF QueueInv
<1>2. ASSUME NEW op, ReadLine(op) PROVE QueueInv'
  <2>1. /\ Len(stdin) \in Nat \ {0} /\ Len(stdin') = Len(stdin) - 1
        /\ \A i \in 1..Len(stdin') : stdin'[i] = stdin[i + 1] /\ i + 1 \in 1..Len(stdin)
        /\ sent' = sent
    BY <1>2 DEF TypeOK, ReadLine
  <2>2. \A i, j \in 1..Len(stdin') : (i + 1 = j + 1 => i = j) /\ (j + 1 < i + 1 => j < i)
    BY <2>1
  <2>3. \A i \in 1..Len(stdin') : stdin'[i] \in sent'
    BY <2>1 DEF QueueInv
  <2>4. \A i, j \in 1..Len(stdin') : stdin'[i] = stdin'[j] => i = j
    BY <2>1, <2>2 DEF QueueInv
  <2>5. \A i, j \in 1..Len(stdin') : \A c \in Calls :
          stdin'[i] = End(c) /\ stdin'[j] = Begin(c) => j < i
    BY <2>1, <2>2 DEF QueueInv
  <2>6. \A c \in Calls : End(c) \in sent' => Begin(c) \in sent'
    BY <2>1 DEF QueueInv
  <2> QED
    BY <2>3, <2>4, <2>5, <2>6 DEF QueueInv
<1>3. CASE UNCHANGED <<stdin, sent>>
  BY <1>3 DEF QueueInv
<1> QED
  BY <1>1, <1>2, <1>3 DEF Next, BackendStep, vars, OnStart, HandleScope, HandleBegin, WriteBegin, HandleEnd,
     HandleIgnored, HandleShutdown, FireEntry, FireDone, WriteEnd, WriteFails

(* A line added to stdout answers the call it is the end status of.              *)
LEMMA EmitAnswers ==
  ASSUME TypeOK, NEW l \in Line, Emit(l)
  PROVE  \A c \in Calls : Answered(c)' <=> Answered(c) \/ l = EndLine(c)
<1>1. /\ Len(stdout) \in Nat /\ Len(stdout') = Len(stdout) + 1 /\ stdout'[Len(stdout) + 1] = l
      /\ \A i \in 1..Len(stdout) : stdout'[i] = stdout[i]
  BY DEF Emit, TypeOK
<1> QED
  BY <1>1 DEF Answered, Contains

LEMMA LedgerInvInit == ASSUME Init PROVE LedgerInv
<1>1. QueueInv
  <2>1. stdin = <<>> /\ sent = {} /\ Len(stdin) = 0
    BY DEF Init
  <2>2. ~\E i \in 1..Len(stdin) : TRUE
    BY <2>1
  <2> QED
    BY <2>1, <2>2 DEF QueueInv
<1>2. \A c : ~Answered(c)
  BY DEF Init, Answered, Contains
<1> QED
  BY <1>1, <1>2 DEF Init, LedgerInv, Firing

(* A step that writes no end status leaves calls unanswered and handled marks     *)
(* handled.                                                                      *)
LEMMA HandledStays ==
  ASSUME TypeOK, QueueInv, [Next]_vars, NEW x, Handled(x)
  PROVE  Handled(x)'
<1>1. ASSUME NEW m \in Messages, ClientSend(m) PROVE Handled(x)'
  BY <1>1, SendHandlesNothing
<1>2. ASSUME NEW op, ReadLine(op) PROVE Handled(x)'
  BY <1>2, ReadHandlesHead
<1>3. CASE UNCHANGED <<stdin, sent>>
  BY <1>3 DEF Handled
<1> QED
  BY <1>1, <1>2, <1>3 DEF Next, BackendStep, vars, OnStart, HandleScope, HandleBegin, WriteBegin, HandleEnd,
     HandleIgnored, HandleShutdown, FireEntry, FireDone, WriteEnd, WriteFails

(* A line that is no end status answers nothing.                                 *)
LEMMA OthersAnswerNothing ==
  ASSUME TypeOK, [Next]_vars, ~WriteEnd
  PROVE  \A c \in Calls : Answered(c)' <=> Answered(c)
<1>1. ASSUME NEW l \in Line, Emit(l), l.msg # "end" PROVE \A c \in Calls : Answered(c)' <=> Answered(c)
  <2>1. \A c : l # EndLine(c)
    BY <1>1 DEF EndLine, Status
  <2> QED
    BY <1>1, <2>1, EmitAnswers
<1>2. CASE UNCHANGED stdout
  BY <1>2 DEF Answered
<1>3. CASE OnStart \/ HandleScope \/ HandleIgnored
  <2>1. ReadyLine.msg # "end" /\ ScopeLine.msg # "end" /\ ErrorLine.msg # "end"
    BY DEF ReadyLine, ScopeLine, ErrorLine, Status
  <2> QED
    BY <1>1, <1>3, <2>1, LinesTyped DEF OnStart, HandleScope, HandleIgnored
<1>4. CASE WriteBegin \/ FireEntry
  <2>1. job.call \in MaybeCall /\ job.bucket \in Buckets
    BY DEF TypeOK, Job
  <2>2. BeginLine(job.call).msg # "end" /\ EventLine(job.bucket, job.call, NoTag).msg # "end"
    BY DEF BeginLine, EventLine, Status
  <2> QED
    BY <1>1, <1>2, <1>4, <2>1, <2>2, LinesTyped DEF WriteBegin, FireEntry
<1> QED
  BY <1>2, <1>3, <1>4 DEF Next, BackendStep, vars, HandleBegin, HandleEnd, HandleShutdown, FireDone,
     WriteFails, ClientSend

LEMMA ReadBegin ==
  ASSUME TypeOK, LedgerInv, Named, HandleBegin
  PROVE  \E c \in Calls : /\ Head(stdin) = Begin(c) /\ active_call' = c
                          /\ job' = CallJob("begin", ToolGiven(c), c)
                          /\ Handled(Begin(c))' /\ ~Handled(Begin(c)) /\ ~Answered(c)
<1>0. ReadLine("begin") /\ QueueInv
  BY DEF HandleBegin, LedgerInv
<1>1. PICK c \in MaybeCall : Head(stdin).arg = c /\ Head(stdin) = Begin(c) /\ Head(stdin) \in Messages
  BY <1>0, HeadTyped
<1>2. c \in Calls
  BY <1>1 DEF Named, MaybeCall
<1>3. ~Handled(Begin(c))
  <2>1. 1 \in 1..Len(stdin) /\ stdin[1] = Begin(c)
    BY <1>1 DEF HandleBegin, ReadLine, TypeOK
  <2> QED
    BY <2>1 DEF Handled, Contains
<1>4. Handled(Begin(c))'
  BY <1>0, <1>1, ReadHandlesHead
<1>5. ~Answered(c)
  BY <1>2, <1>3 DEF LedgerInv
<1> QED
  BY <1>1, <1>2, <1>3, <1>4, <1>5 DEF HandleBegin

LEMMA ReadEnd ==
  ASSUME TypeOK, LedgerInv, Named, HandleEnd
  PROVE  \E c \in Calls : /\ job' = CallJob("end", active_tool, c)
                          /\ Handled(Begin(c)) /\ Handled(End(c))' /\ ~Answered(c)
<1>0. ReadLine("end") /\ QueueInv
  BY DEF HandleEnd, LedgerInv
<1>1. PICK c \in MaybeCall : Head(stdin).arg = c /\ Head(stdin) = End(c) /\ Head(stdin) \in Messages
  BY <1>0, HeadTyped
<1>2. c \in Calls /\ c # NoCall
  BY <1>1, ProtocolAssumption DEF Named, MaybeCall
<1>3. Len(stdin) \in Nat /\ 1 \in 1..Len(stdin) /\ stdin[1] = End(c)
  BY <1>1 DEF HandleEnd, ReadLine, TypeOK
<1>4. Handled(Begin(c))
  <2>1. Begin(c) \in sent
    BY <1>2, <1>3 DEF LedgerInv, QueueInv
  <2>2. \A j \in 1..Len(stdin) : stdin[j] # Begin(c)
    <3>1. \A j \in 1..Len(stdin) : stdin[j] = Begin(c) => j < 1
      BY <1>2, <1>3 DEF LedgerInv, QueueInv
    <3> QED
      BY <1>3, <3>1
  <2> QED
    BY <2>1, <2>2 DEF Handled, Contains
<1>5. Handled(End(c))'
  BY <1>0, <1>1, ReadHandlesHead
<1>6. ~Answered(c)
  <2>1. ~Handled(End(c))
    BY <1>3 DEF Handled, Contains
  <2> QED
    BY <1>2, <2>1 DEF LedgerInv
<1> QED
  BY <1>1, <1>2, <1>4, <1>5, <1>6 DEF HandleEnd, StartFiring

LEMMA LedgerInvNext ==
  ASSUME TypeOK, Named, LedgerInv, [Next]_vars
  PROVE  LedgerInv'
<1>1. QueueInv' /\ (\A x : Handled(x) => Handled(x)')
  BY QueueKept, HandledStays DEF LedgerInv
<1>2. /\ active_call \in MaybeCall /\ job.call \in MaybeCall
      /\ \A c : c \in MaybeCall /\ c # NoCall => c \in Calls
  BY DEF TypeOK, Job, MaybeCall
<1>3. CASE WriteEnd
  <2>1. /\ job.call \in Calls /\ Active(job.call) /\ Handled(End(job.call))
        /\ active_call' = NoCall /\ pc' = "idle" /\ Emit(EndLine(job.call))
    BY <1>2, <1>3 DEF WriteEnd, LedgerInv, Firing
  <2>2. \A c \in Calls : Answered(c)' <=> Answered(c) \/ c = job.call
    <3>1. EndLine(job.call) \in Line /\ \A c : EndLine(job.call) = EndLine(c) <=> c = job.call
      BY <1>2, LinesTyped DEF EndLine, Status
    <3> QED
      BY <2>1, <3>1, EmitAnswers
  <2>3. \A c \in Calls : Answered(c)' => Handled(Begin(c))' /\ Handled(End(c))'
    BY <1>1, <2>1, <2>2 DEF LedgerInv, Active
  <2> QED
    BY <1>1, <2>1, <2>3 DEF LedgerInv, Firing
<1>4. CASE ~WriteEnd
  <2>1. \A c \in Calls : Answered(c)' <=> Answered(c)
    BY <1>4, OthersAnswerNothing
  <2>2. \A c \in Calls : Active(c) => Active(c)'
    BY <1>1, <2>1 DEF Active
  <2>3. \A c \in Calls : Answered(c)' => Handled(Begin(c))' /\ Handled(End(c))'
    BY <1>1, <2>1 DEF LedgerInv
  <2>4. CASE HandleBegin
    <3>1. PICK c \in Calls : /\ active_call' = c /\ job' = CallJob("begin", ToolGiven(c), c)
                             /\ Handled(Begin(c))' /\ ~Answered(c)
      BY <2>4, ReadBegin
    <3>2. Active(c)' /\ c # NoCall /\ pc' = "begin"
      BY <2>1, <2>4, <3>1, ProtocolAssumption DEF Active, HandleBegin
    <3>3. job'.call = c /\ job'.bucket = "call" /\ job'.trigger = "begin"
      BY <3>1 DEF CallJob
    <3> QED
      BY <1>1, <2>3, <3>1, <3>2, <3>3 DEF LedgerInv, Firing
  <2>5. CASE HandleEnd
    <3>1. PICK c \in Calls : /\ job' = CallJob("end", active_tool, c)
                             /\ Handled(Begin(c)) /\ Handled(End(c))' /\ ~Answered(c)
      BY <2>5, ReadEnd
    <3>2. Active(c)' /\ c # NoCall /\ pc' = "fire" /\ active_call' = active_call
      BY <1>1, <2>1, <2>5, <3>1, ProtocolAssumption DEF Active, HandleEnd, StartFiring
    <3>3. job'.call = c /\ job'.bucket = "call" /\ job'.trigger = "end"
      BY <3>1 DEF CallJob
    <3>4. active_call' # NoCall => Active(active_call)'
      BY <1>2, <2>2, <3>2 DEF LedgerInv
    <3> QED
      BY <1>1, <2>3, <3>1, <3>2, <3>3, <3>4 DEF LedgerInv, Firing
  <2>6. CASE OnStart \/ HandleScope
    <3>1. /\ job'.call = NoCall /\ job'.bucket # "call" /\ job'.trigger \notin {"begin", "end"}
          /\ pc' = "fire" /\ active_call' = active_call
      BY <2>6 DEF OnStart, HandleScope, StartFiring, StartJob, ScopeJob
    <3> QED
      BY <1>1, <1>2, <2>2, <2>3, <3>1 DEF LedgerInv, Firing
  <2>7. CASE UNCHANGED <<active_call, job>> /\ (Firing' => Firing) /\ (pc' = "begin" => pc = "begin")
             /\ (pc' = "end" => pc = "end" \/ (pc = "fire" /\ job.trigger = "end"))
    <3>1. active_call' # NoCall => Active(active_call)'
      BY <1>2, <2>2, <2>7 DEF LedgerInv
    <3>2. Firing' /\ job'.call # NoCall => Active(job.call)'
      BY <1>2, <2>2, <2>7 DEF LedgerInv
    <3>3. Firing' /\ job'.trigger = "end" => Handled(End(job.call))'
      BY <1>1, <2>7 DEF LedgerInv
    <3> QED
      BY <1>1, <2>3, <2>7, <3>1, <3>2, <3>3 DEF LedgerInv
  <2> QED
    BY <1>4, <2>4, <2>5, <2>6, <2>7 DEF Next, BackendStep, vars, WriteBegin, HandleIgnored, HandleShutdown,
       FireEntry, FireDone, WriteFails, ClientSend, ReadLine, StartFiring, Firing
<1> QED
  BY <1>3, <1>4

--------------------------------------------------------------------------------
(* The refinement.                                                               *)
LedgerLog  == [i \in DOMAIN stdout |-> Untagged(stdout[i])]
LedgerVars == <<LedgerLog, BegunCalls \ AnsweredCalls, AnsweredCalls>>

LEMMA LogAppends ==
  ASSUME TypeOK, NEW l \in Line, Emit(l)
  PROVE  /\ LedgerLog' = Append(LedgerLog, Untagged(l))
         /\ AnsweredCalls' = AnsweredCalls \cup {c \in Calls : l = EndLine(c)}
<1>1. /\ Len(stdout) \in Nat /\ DOMAIN stdout = 1..Len(stdout)
      /\ DOMAIN stdout' = 1..(Len(stdout) + 1) /\ Len(stdout') = Len(stdout) + 1
      /\ stdout'[Len(stdout) + 1] = l /\ \A i \in 1..Len(stdout) : stdout'[i] = stdout[i]
  BY DEF TypeOK, Emit
<1>2. LedgerLog' = Append(LedgerLog, Untagged(l))
  <2>1. LedgerLog \in Seq({Untagged(m) : m \in Line}) /\ Len(LedgerLog) = Len(stdout)
    BY <1>1 DEF LedgerLog, TypeOK
  <2> QED
    BY <1>1, <2>1 DEF LedgerLog
<1> QED
  BY <1>2, EmitAnswers DEF AnsweredCalls, Answered

(* Reading a begin mark changes which calls were begun, and no other step does.  *)
LEMMA BegunStays ==
  ASSUME TypeOK, LedgerInv, [Next]_vars, ~HandleBegin
  PROVE  BegunCalls' = BegunCalls
<1>1. ASSUME NEW m \in Messages, ClientSend(m) PROVE \A c \in Calls : Handled(Begin(c))' <=> Handled(Begin(c))
  BY <1>1, SendHandlesNothing
<1>2. ASSUME NEW op, op # "begin", ReadLine(op) PROVE \A c \in Calls : Handled(Begin(c))' <=> Handled(Begin(c))
  <2>1. QueueInv /\ \A c : Head(stdin) # Begin(c)
    BY <1>2, HeadTyped DEF LedgerInv
  <2> QED
    BY <1>2, <2>1, ReadHandlesHead
<1>3. CASE UNCHANGED <<stdin, sent>>
  BY <1>3 DEF BegunCalls
<1>4. (\A c \in Calls : Handled(Begin(c))' <=> Handled(Begin(c))) => BegunCalls' = BegunCalls
  BY DEF BegunCalls, Handled
<1> QED
  BY <1>1, <1>2, <1>3, <1>4 DEF Next, BackendStep, vars, OnStart, HandleScope, WriteBegin, HandleEnd,
     HandleIgnored, HandleShutdown, FireEntry, FireDone, WriteEnd, WriteFails

(* A line that is no end status leaves the calls of the ledger as they are.      *)
LEMMA WritingStep ==
  ASSUME TypeOK, LedgerInv, [Next]_vars, NEW l \in Line, Emit(l), l.msg # "end", ~HandleBegin
  PROVE  /\ LedgerLog' = Append(LedgerLog, Untagged(l))
         /\ UNCHANGED <<BegunCalls \ AnsweredCalls, AnsweredCalls>>
<1>1. \A c : l # EndLine(c)
  BY DEF EndLine, Status
<1> QED
  BY <1>1, LogAppends, BegunStays

LEMMA NextKeepsLedger ==
  ASSUME TypeOK, Named, LedgerInv, [Next]_vars
  PROVE  [Ledger!LedgerNext]_LedgerVars
<1>0. job.call \in MaybeCall /\ job.bucket \in Buckets
  BY DEF TypeOK, Job
<1>1. CASE OnStart \/ HandleScope \/ HandleIgnored
  <2>1. PICK l \in {ReadyLine, ScopeLine, ErrorLine} : Emit(l)
    BY <1>1 DEF OnStart, HandleScope, HandleIgnored
  <2>2. l \in Line /\ l.msg # "end" /\ ~HandleBegin
    BY <1>1, <2>1, LinesTyped
       DEF ReadyLine, ScopeLine, ErrorLine, Status, HandleBegin, OnStart, HandleScope, HandleIgnored, ReadLine
  <2>3. LedgerLog' = Append(LedgerLog, Untagged(l)) /\ UNCHANGED <<BegunCalls \ AnsweredCalls, AnsweredCalls>>
    BY <2>1, <2>2, WritingStep
  <2>4. \/ Untagged(l) = [msg |-> "ready", bucket |-> "startup", call |-> NoCall]
        \/ Untagged(l) = [msg |-> "scope", bucket |-> "ambient", call |-> NoCall]
        \/ Untagged(l) = [msg |-> "error", bucket |-> "ambient", call |-> NoCall]
    BY DEF Untagged, ReadyLine, ScopeLine, ErrorLine, Status
  <2>5. Ledger!Note
    BY <2>3, <2>4 DEF Ledger!Note, Ledger!Write, LedgerLog
  <2> QED
    BY <2>5 DEF Ledger!LedgerNext
<1>2. CASE HandleBegin
  <2>1. PICK c \in Calls : /\ Head(stdin) = Begin(c)
                           /\ Handled(Begin(c))' /\ ~Handled(Begin(c)) /\ ~Answered(c)
    BY <1>2, ReadBegin
  <2>2. UNCHANGED stdout /\ ReadLine("begin") /\ QueueInv
    BY <1>2 DEF HandleBegin, LedgerInv
  <2>3. \A d \in Calls : Handled(Begin(d))' <=> Handled(Begin(d)) \/ d = c
    <3>1. \A d : Begin(d) = Begin(c) <=> d = c
      BY DEF Begin
    <3> QED
      BY <2>1, <2>2, <3>1, ReadHandlesHead
  <2>4. BegunCalls' = BegunCalls \cup {c} /\ AnsweredCalls' = AnsweredCalls /\ LedgerLog' = LedgerLog
    BY <2>2, <2>3 DEF BegunCalls, AnsweredCalls, LedgerLog, Handled
  <2>5. c \notin AnsweredCalls
    BY <2>1 DEF AnsweredCalls, Answered
  <2>6. Ledger!Open(c)
    BY <2>4, <2>5 DEF Ledger!Open, LedgerLog
  <2> QED
    BY <2>1, <2>6 DEF Ledger!LedgerNext
<1>3. CASE WriteBegin
  <2> DEFINE l == BeginLine(job.call)
  <2>1. l \in Line /\ l.msg # "end" /\ Emit(l) /\ ~HandleBegin
    BY <1>0, <1>3, LinesTyped DEF WriteBegin, BeginLine, Status, HandleBegin, ReadLine
  <2>2. LedgerLog' = Append(LedgerLog, Untagged(l)) /\ UNCHANGED <<BegunCalls \ AnsweredCalls, AnsweredCalls>>
    BY <2>1, WritingStep
  <2>3. Ledger!Confirm(job.call)
    BY <2>2 DEF Ledger!Confirm, Ledger!Write, LedgerLog, Untagged, BeginLine, Status
  <2> QED
    BY <1>0, <2>3 DEF Ledger!LedgerNext, Ledger!MaybeCall, MaybeCall
<1>4. CASE FireEntry /\ stdout' # stdout
  <2> DEFINE l == EventLine(job.bucket, job.call, NoTag)
  <2>1. l \in Line /\ l.msg # "end" /\ Emit(l) /\ ~HandleBegin
    BY <1>0, <1>4, LinesTyped DEF FireEntry, EventLine, HandleBegin, ReadLine
  <2>2. LedgerLog' = Append(LedgerLog, Untagged(l)) /\ UNCHANGED <<BegunCalls \ AnsweredCalls, AnsweredCalls>>
    BY <2>1, WritingStep
  <2>3. /\ job.call # NoCall => Active(job.call) /\ job.call \in Calls
        /\ job.bucket = "call" <=> job.call # NoCall
    BY <1>0, <1>4 DEF FireEntry, LedgerInv, Firing, MaybeCall
  <2>4. CASE job.call # NoCall
    <3>1. job.call \in BegunCalls \ AnsweredCalls
      BY <2>3, <2>4 DEF Active, Handled, Answered, BegunCalls, AnsweredCalls
    <3>2. Ledger!Report(job.call)
      BY <2>2, <2>3, <2>4, <3>1 DEF Ledger!Report, Ledger!Write, LedgerLog, Untagged, EventLine
    <3> QED
      BY <2>3, <2>4, <3>2 DEF Ledger!LedgerNext
  <2>5. CASE job.call = NoCall
    <3>1. job.bucket \in {"startup", "ambient"}
      BY <1>0, <2>3, <2>5 DEF Buckets
    <3>2. Ledger!ReportOutside
      BY <2>2, <2>5, <3>1 DEF Ledger!ReportOutside, Ledger!Write, LedgerLog, Untagged, EventLine
    <3> QED
      BY <3>2 DEF Ledger!LedgerNext
  <2> QED
    BY <2>4, <2>5
<1>5. CASE WriteEnd
  <2>1. /\ Emit(EndLine(job.call)) /\ EndLine(job.call) \in Line /\ ~HandleBegin
        /\ job.call # NoCall /\ job.call \in Calls
    BY <1>0, <1>5, LinesTyped DEF WriteEnd, LedgerInv, Firing, MaybeCall, HandleBegin, ReadLine
  <2>2. /\ LedgerLog' = Append(LedgerLog, Untagged(EndLine(job.call)))
        /\ AnsweredCalls' = AnsweredCalls \cup {job.call} /\ BegunCalls' = BegunCalls
    <3>1. {c \in Calls : EndLine(job.call) = EndLine(c)} = {job.call}
      BY <2>1 DEF EndLine, Status
    <3> QED
      BY <2>1, <3>1, LogAppends, BegunStays
  <2>3. Ledger!Close(job.call)
    BY <2>1, <2>2 DEF Ledger!Close, Ledger!Write, LedgerLog, Untagged, EndLine, Status
  <2> QED
    BY <2>1, <2>3 DEF Ledger!LedgerNext, Ledger!MaybeCall
<1>6. CASE UNCHANGED stdout /\ ~HandleBegin
  BY <1>6, BegunStays DEF LedgerVars, LedgerLog, AnsweredCalls
<1> QED
  BY <1>1, <1>2, <1>3, <1>4, <1>5, <1>6 DEF Next, BackendStep, vars, HandleBegin, HandleEnd, HandleShutdown,
     FireEntry, FireDone, WriteFails, ClientSend, ReadLine

(* The fake backend implements the call ledger, as the eBPF backend does: its     *)
(* events are of open calls and an end status is the last word on a call, for a   *)
(* client whose marks carry a call id.                                           *)
THEOREM FakeKeepsTheLedger ==
  ASSUME Named
  PROVE  Spec => KeepsLedger
<1>1. Init => Ledger!LedgerInit
  <2>1. ASSUME Init PROVE LedgerLog = <<>> /\ BegunCalls = {} /\ AnsweredCalls = {}
    BY <2>1 DEF Init, LedgerLog, BegunCalls, AnsweredCalls, Contains
  <2> QED
    BY <2>1 DEF Ledger!LedgerInit, LedgerLog
<1>2. Init => TypeOK /\ LedgerInv
  BY TypeInit, LedgerInvInit
<1>3. TypeOK /\ LedgerInv /\ [Next]_vars => (TypeOK /\ LedgerInv)'
  BY TypeNext, LedgerInvNext
<1>4. TypeOK /\ LedgerInv /\ [Next]_vars => [Ledger!LedgerNext]_LedgerVars
  BY NextKeepsLedger
<1> QED
  BY <1>1, <1>2, <1>3, <1>4, PTL DEF Spec, KeepsLedger, Ledger!LedgerSpec, LedgerVars, LedgerLog

--------------------------------------------------------------------------------
(* The process.                                                                  *)

(* To the backend a step of the process is a step of its own, or the choice of    *)
(* its script before it starts.                                                  *)
LEMMA ProcessSteps ==
  ASSUME [ProcessNext]_<<vars, processVars>>
  PROVE  \/ [Next]_vars
         \/ Run /\ UNCHANGED <<stdin, stdout, sent, active_call, active_tool, pc, job, at>> /\ script' \in {script, <<>>}
BY DEF ProcessNext, ParseFlag, ParseOption, Parsing, Run, Session, Client, Next, vars

LEMMA ProcessTypesKept ==
  ASSUME TypeOK, exit = "parsing" => at = 1, [ProcessNext]_<<vars, processVars>>
  PROVE  TypeOK' /\ (exit' = "parsing" => at' = 1)
<1>1. TypeOK'
  <2>1. CASE [Next]_vars
    BY <2>1, TypeNext
  <2>2. CASE Run /\ UNCHANGED <<stdin, stdout, sent, active_call, active_tool, pc, job, at>> /\ script' \in {script, <<>>}
    <3>1. script' \in Scripts /\ at = 1
      BY <2>2, ProcessAssumption DEF TypeOK, Run
    <3>2. script' \in Seq(Entry)
      BY <3>1, FakeAssumption
    <3>3. at' \in 1..Len(script') + 1
      BY <2>2, <3>1, <3>2
    <3> QED
      BY <2>2, <3>1, <3>3 DEF TypeOK
  <2> QED
    BY <2>1, <2>2, ProcessSteps
<1>2. exit' = "parsing" => at' = 1
  BY DEF ProcessNext, ParseFlag, ParseOption, Parsing, Quit, Run, Session, Client, ClientSend, ExitWith, vars, processVars
<1> QED
  BY <1>1, <1>2

(* The variables of the backend keep their types in its process too.             *)
THEOREM ProcessTypeCorrect == ProcessSpec => []TypeOK
<1>1. ProcessInit => TypeOK /\ (exit = "parsing" => at = 1)
  BY TypeInit DEF ProcessInit, Init
<1>2. TypeOK /\ (exit = "parsing" => at = 1) /\ [ProcessNext]_<<vars, processVars>> => (TypeOK /\ (exit = "parsing" => at = 1))'
  BY ProcessTypesKept
<1> QED
  BY <1>1, <1>2, PTL DEF ProcessSpec

(* The process implements the call ledger: reading the events file is a stutter.  *)
THEOREM ProcessKeepsTheLedger ==
  ASSUME Named
  PROVE  ProcessSpec => KeepsLedger
<1>1. ProcessInit => LedgerInv /\ Ledger!LedgerInit
  <2>1. ASSUME ProcessInit PROVE LedgerLog = <<>> /\ BegunCalls = {} /\ AnsweredCalls = {}
    BY <2>1 DEF ProcessInit, Init, LedgerLog, BegunCalls, AnsweredCalls, Contains
  <2> QED
    BY <2>1, LedgerInvInit DEF ProcessInit, Ledger!LedgerInit, LedgerLog
<1>2. TypeOK /\ LedgerInv /\ [ProcessNext]_<<vars, processVars>> => LedgerInv' /\ [Ledger!LedgerNext]_LedgerVars
  <2> SUFFICES ASSUME TypeOK, LedgerInv, [ProcessNext]_<<vars, processVars>>
               PROVE  LedgerInv' /\ [Ledger!LedgerNext]_LedgerVars
    OBVIOUS
  <2>1. CASE [Next]_vars
    BY <2>1, LedgerInvNext, NextKeepsLedger
  <2>2. CASE UNCHANGED <<stdin, stdout, sent, active_call, active_tool, pc, job, at>>
    <3>1. LedgerInv'
      BY <2>2 DEF LedgerInv, QueueInv, Answered, Handled, Active, Firing
    <3>2. UNCHANGED LedgerVars
      BY <2>2 DEF LedgerVars, LedgerLog, BegunCalls, AnsweredCalls
    <3> QED
      BY <3>1, <3>2
  <2> QED
    BY <2>1, <2>2, ProcessSteps
<1> QED
  BY <1>1, <1>2, ProcessTypeCorrect, PTL DEF ProcessSpec, KeepsLedger, Ledger!LedgerSpec, LedgerVars, LedgerLog

(* Marks that were handled are answered, but the one at hand.  Nothing is sent    *)
(* behind a shutdown message, so that reading it leaves nothing unread.          *)
Reported(m) ==
  /\ m.op = "begin" => Contains(stdout, BeginLine(m.arg))
  /\ m.op = "end" /\ m.arg # NoCall => Contains(stdout, EndLine(m.arg))
AtHand(m) ==
  \/ m.op = "begin" /\ pc = "begin" /\ job.call = m.arg
  \/ m.op = "end" /\ pc \in {"fire", "end"} /\ job.trigger = "end" /\ job.call = m.arg
SessionInv ==
  /\ QueueInv
  /\ exit = "parsing" => pc = "new"
  /\ exit = "running" => pc # "done"
  /\ \A i \in 1..Len(stdin) : stdin[i] = Shutdown => i = Len(stdin)
  /\ pc # "done" \/ Succeeded => \A m \in sent : Handled(m) => Reported(m) \/ AtHand(m)
  /\ Succeeded => stdin = <<>> /\ Shutdown \in sent

(* A line that is written is on stdout.                                          *)
LEMMA EmitContains ==
  ASSUME TypeOK, NEW l \in Line, Emit(l)
  PROVE  Contains(stdout', l)
<1>1. /\ Len(stdout) \in Nat /\ Len(stdout') = Len(stdout) + 1 /\ stdout'[Len(stdout) + 1] = l
  BY DEF Emit, TypeOK
<1> QED
  BY <1>1 DEF Contains

(* What was reported stays reported.                                             *)
LEMMA ReportsStay ==
  ASSUME TypeOK, [Next]_vars, NEW m, Reported(m)
  PROVE  Reported(m)'
<1>1. ASSUME NEW l \in Line, Emit(l) PROVE \A x : Contains(stdout, x) => Contains(stdout', x)
  <2>1. /\ Len(stdout) \in Nat /\ Len(stdout') = Len(stdout) + 1
        /\ \A i \in 1..Len(stdout) : stdout'[i] = stdout[i]
    BY <1>1 DEF Emit, TypeOK
  <2> QED
    BY <2>1 DEF Contains
<1>2. \A x : Contains(stdout, x) => Contains(stdout', x)
  <2>1. job.call \in MaybeCall /\ job.bucket \in Buckets
    BY DEF TypeOK, Job
  <2> QED
    BY <1>1, <2>1, LinesTyped
       DEF Next, BackendStep, vars, OnStart, HandleScope, HandleBegin, WriteBegin, HandleEnd, HandleIgnored,
           HandleShutdown, FireEntry, FireDone, WriteEnd, WriteFails, ClientSend
<1> QED
  BY <1>2 DEF Reported

(* What was reported stays so; a step owes nothing but the mark it has at hand.   *)
LEMMA BackendReports ==
  ASSUME TypeOK, QueueInv, BackendStep, pc # "done",
         \A m \in sent : Handled(m) => Reported(m) \/ AtHand(m)
  PROVE  \A m \in sent' : Handled(m)' => Reported(m)' \/ AtHand(m)'
<1>0. [Next]_vars /\ sent' = sent
  BY DEF Next, BackendStep, OnStart, HandleScope, HandleBegin, WriteBegin, HandleEnd, HandleIgnored,
         HandleShutdown, FireEntry, FireDone, WriteEnd, ReadLine
<1> SUFFICES ASSUME NEW m \in sent, Handled(m)' PROVE Reported(m)' \/ AtHand(m)'
  BY <1>0
<1>1. Reported(m) => Reported(m)'
  BY <1>0, ReportsStay
<1>2. ASSUME NEW op, ReadLine(op), pc = "idle" PROVE Reported(m)' \/ m = Head(stdin)
  <2>1. ~AtHand(m)
    BY <1>2 DEF AtHand
  <2> QED
    BY <1>1, <1>2, <2>1, ReadHandlesHead
<1>3. ASSUME UNCHANGED stdin PROVE Reported(m)' \/ AtHand(m)
  BY <1>0, <1>1, <1>3 DEF Handled
<1>4. CASE OnStart
  <2>1. ~AtHand(m) /\ UNCHANGED stdin
    BY <1>4 DEF OnStart, AtHand
  <2> QED
    BY <1>3, <2>1
<1>5. CASE HandleScope \/ HandleIgnored \/ HandleShutdown
  <2>1. Head(stdin).op \notin {"begin", "end"} /\ (Reported(m)' \/ m = Head(stdin))
    BY <1>2, <1>5 DEF HandleScope, HandleIgnored, HandleShutdown, ReadLine
  <2> QED
    BY <2>1 DEF Reported
<1>6. CASE HandleBegin
  <2>1. Reported(m)' \/ m = Head(stdin)
    BY <1>2, <1>6 DEF HandleBegin, ReadLine
  <2>2. Head(stdin).op = "begin" /\ pc' = "begin" /\ job'.call = Head(stdin).arg
    BY <1>6 DEF HandleBegin, ReadLine, CallJob
  <2> QED
    BY <2>1, <2>2 DEF AtHand
<1>7. CASE WriteBegin
  <2>1. AtHand(m) => m.op = "begin" /\ job.call = m.arg
    BY <1>7 DEF WriteBegin, AtHand
  <2>2. Contains(stdout', BeginLine(job.call))
    <3>1. job.call \in MaybeCall
      BY DEF TypeOK, Job
    <3> QED
      BY <1>7, <3>1, LinesTyped, EmitContains DEF WriteBegin
  <2> QED
    BY <1>3, <1>7, <2>1, <2>2 DEF WriteBegin, Reported
<1>8. CASE HandleEnd
  <2>1. Reported(m)' \/ m = Head(stdin)
    BY <1>2, <1>8 DEF HandleEnd, ReadLine
  <2>2. /\ Head(stdin).op = "end" /\ pc' = "fire" /\ job'.trigger = "end"
        /\ Head(stdin).arg # NoCall => job'.call = Head(stdin).arg
    BY <1>8 DEF HandleEnd, ReadLine, StartFiring, CallJob
  <2> QED
    BY <2>1, <2>2 DEF AtHand, Reported
<1>9. CASE FireEntry \/ FireDone
  <2>1. UNCHANGED <<stdin, job>> /\ pc = "fire" /\ (job.trigger = "end" => pc' \in {"fire", "end"})
    BY <1>9 DEF FireEntry, FireDone
  <2> QED
    BY <1>3, <2>1 DEF AtHand
<1>10. CASE WriteEnd
  <2>1. AtHand(m) => m.op = "end" /\ job.call = m.arg
    BY <1>10 DEF WriteEnd, AtHand
  <2>2. Contains(stdout', EndLine(job.call))
    <3>1. job.call \in MaybeCall
      BY DEF TypeOK, Job
    <3> QED
      BY <1>10, <3>1, LinesTyped, EmitContains DEF WriteEnd
  <2> QED
    BY <1>3, <1>10, <2>1, <2>2 DEF WriteEnd, Reported
<1> QED
  BY <1>4, <1>5, <1>6, <1>7, <1>8, <1>9, <1>10 DEF BackendStep

(* The shutdown message stays the last one, and reading it leaves stdin empty.    *)
LEMMA ShutdownIsLast ==
  ASSUME TypeOK, QueueInv, [Next]_vars,
         \A i \in 1..Len(stdin) : stdin[i] = Shutdown => i = Len(stdin)
  PROVE  /\ \A i \in 1..Len(stdin') : stdin'[i] = Shutdown => i = Len(stdin')
         /\ HandleShutdown => stdin' = <<>> /\ Shutdown \in sent'
<1>1. ASSUME NEW m \in Messages, ClientSend(m)
      PROVE  \A i \in 1..Len(stdin') : stdin'[i] = Shutdown => i = Len(stdin')
  <2>1. /\ Len(stdin) \in Nat /\ Len(stdin') = Len(stdin) + 1
        /\ \A i \in 1..Len(stdin) : stdin'[i] = stdin[i] /\ stdin[i] # Shutdown
    BY <1>1 DEF ClientSend, TypeOK, QueueInv
  <2> QED
    BY <2>1
<1>2. ASSUME NEW op, ReadLine(op)
      PROVE  /\ Len(stdin) \in Nat \ {0} /\ Len(stdin') = Len(stdin) - 1 /\ Head(stdin) = stdin[1]
             /\ \A i \in 1..Len(stdin') : stdin'[i] = stdin[i + 1] /\ i + 1 \in 1..Len(stdin)
             /\ sent' = sent /\ stdin' \in Seq(Messages)
  BY <1>2 DEF ReadLine, TypeOK
<1>3. ASSUME NEW op, ReadLine(op)
      PROVE  \A i \in 1..Len(stdin') : stdin'[i] = Shutdown => i = Len(stdin')
  <2>1. /\ Len(stdin) \in Nat \ {0} /\ Len(stdin') = Len(stdin) - 1
        /\ \A i \in 1..Len(stdin') : stdin'[i] = stdin[i + 1] /\ i + 1 \in 1..Len(stdin)
    BY <1>2, <1>3
  <2>2. \A i \in 1..Len(stdin') : stdin'[i] = Shutdown => i + 1 = Len(stdin)
    BY <2>1
  <2> QED
    BY <2>1, <2>2
<1>4. ASSUME UNCHANGED stdin PROVE \A i \in 1..Len(stdin') : stdin'[i] = Shutdown => i = Len(stdin')
  BY <1>4
<1>5. ASSUME HandleShutdown PROVE stdin' = <<>> /\ Shutdown \in sent'
  <2>1. ReadLine("shutdown")
    BY <1>5 DEF HandleShutdown
  <2>2. stdin[1] = Shutdown
    <3>1. Head(stdin) \in Control /\ Head(stdin).op = "shutdown"
      BY <2>1, HeadTyped, FakeAssumption DEF ReadLine
    <3>2. Head(stdin) = Shutdown
      BY <3>1 DEF Control, Scope, Begin, End, Shutdown, Ignored
    <3> QED
      BY <1>2, <2>1, <3>2
  <2>3. 1 \in 1..Len(stdin) /\ Len(stdin') = 0
    BY <1>2, <2>1, <2>2
  <2>4. stdin' = <<>>
    BY <1>2, <2>1, <2>3
  <2> QED
    BY <1>2, <2>1, <2>2, <2>3, <2>4 DEF QueueInv
<1>6. ReadLine("scope") \/ ReadLine("begin") \/ ReadLine("end") \/ ReadLine("ignored") \/ ReadLine("shutdown")
        \/ UNCHANGED stdin \/ \E m \in Messages : ClientSend(m)
  BY DEF Next, BackendStep, vars, OnStart, HandleScope, HandleBegin, WriteBegin, HandleEnd, HandleIgnored,
         HandleShutdown, FireEntry, FireDone, WriteEnd, WriteFails
<1> QED
  BY <1>1, <1>3, <1>4, <1>5, <1>6

LEMMA SessionKept ==
  ASSUME TypeOK, SessionInv, [ProcessNext]_<<vars, processVars>>
  PROVE  SessionInv'
<1>1. ASSUME UNCHANGED <<stdin, stdout, sent, pc, job>>,
             exit' = "parsing" => pc = "new", exit' = "running" => pc # "done",
             exit' = exit \/ pc # "done"
      PROVE  SessionInv'
  <2>1. Succeeded' <=> Succeeded
    BY <1>1 DEF Succeeded
  <2>2. QueueInv'
    BY <1>1 DEF QueueInv, SessionInv
  <2>3. \A m : Handled(m)' <=> Handled(m)
    BY <1>1 DEF Handled
  <2>4. \A m : Reported(m)' <=> Reported(m)
    BY <1>1 DEF Reported
  <2>5. \A m : AtHand(m)' <=> AtHand(m)
    BY <1>1 DEF AtHand
  <2> QED
    BY <1>1, <2>1, <2>2, <2>3, <2>4, <2>5 DEF SessionInv
<1>2. CASE ParseFlag \/ (\E f \in Fields : ParseOption(f)) \/ Run \/ UNCHANGED <<vars, processVars>>
  <2>1. UNCHANGED <<stdin, stdout, sent, pc, job>>
    BY <1>2 DEF ParseFlag, ParseOption, Parsing, Run, vars
  <2>2. (exit = "parsing" /\ pc = "new") \/ exit' = exit
    BY <1>2 DEF ParseFlag, ParseOption, Parsing, Run, processVars, SessionInv
  <2> QED
    BY <1>1, <2>1, <2>2 DEF SessionInv
<1>3. CASE Client
  <2>1. PICK m \in Messages : ClientSend(m) /\ UNCHANGED processVars
    BY <1>3 DEF Client
  <2>2. [Next]_vars /\ UNCHANGED <<stdout, pc, job, exit>> /\ sent' = sent \cup {m} /\ Shutdown \notin sent /\ m \notin sent
    BY <2>1 DEF Next, ClientSend, processVars
  <2>3. ~Succeeded /\ ~Succeeded'
    BY <2>2 DEF Succeeded, SessionInv
  <2>4. QueueInv' /\ \A i \in 1..Len(stdin') : stdin'[i] = Shutdown => i = Len(stdin')
    BY <2>2, QueueKept, ShutdownIsLast DEF SessionInv
  <2>5. ASSUME NEW x \in sent', Handled(x)', pc # "done" PROVE Reported(x)' \/ AtHand(x)'
    <3>1. Handled(x) /\ x \in sent
      BY <2>1, <2>5, SendHandlesNothing DEF Handled
    <3>2. Reported(x) \/ AtHand(x)
      BY <2>5, <3>1 DEF SessionInv
    <3> QED
      BY <2>2, <3>2 DEF Reported, AtHand
  <2> QED
    BY <2>2, <2>3, <2>4, <2>5 DEF SessionInv
<1>4. CASE exit = "running" /\ WriteFails /\ ExitWith("io_error")
  <2>1. UNCHANGED <<stdin, sent>> /\ pc' = "done" /\ exit' = "io_error"
    BY <1>4 DEF WriteFails, ExitWith
  <2> QED
    BY <2>1 DEF SessionInv, QueueInv, Succeeded
<1>5. CASE exit = "running" /\ BackendStep /\ ExitWith("success")
  <2>1. [Next]_vars /\ pc # "done" /\ QueueInv
    BY <1>5 DEF Next, SessionInv
  <2>2. QueueInv' /\ \A i \in 1..Len(stdin') : stdin'[i] = Shutdown => i = Len(stdin')
    BY <2>1, QueueKept, ShutdownIsLast DEF SessionInv
  <2>3. \A m \in sent' : Handled(m)' => Reported(m)' \/ AtHand(m)'
    BY <1>5, <2>1, BackendReports DEF SessionInv
  <2>4. pc' = "done" => HandleShutdown
    BY <1>5 DEF BackendStep, OnStart, HandleScope, HandleBegin, WriteBegin, HandleEnd, HandleIgnored,
                FireEntry, FireDone, WriteEnd, StartFiring, ReadLine
  <2>5. pc' = "done" => stdin' = <<>> /\ Shutdown \in sent'
    BY <2>1, <2>4, ShutdownIsLast DEF SessionInv
  <2>6. exit' = IF pc' = "done" THEN "success" ELSE "running"
    BY <1>5 DEF ExitWith
  <2> QED
    BY <2>2, <2>3, <2>5, <2>6 DEF SessionInv, Succeeded
<1> QED
  BY <1>2, <1>3, <1>4, <1>5 DEF ProcessNext, Session

(* A session that exits with success answered every mark: the read loop ends with *)
(* success only at a shutdown message, which is the last line, and a write that   *)
(* fails in between shows in the exit code (main.rs:110-116).                     *)
THEOREM SuccessAnswersAll == ProcessSpec => []SuccessMeansAnswered
<1>1. ProcessInit => SessionInv
  <2> SUFFICES ASSUME ProcessInit PROVE SessionInv
    OBVIOUS
  <2>1. stdin = <<>> /\ sent = {} /\ pc = "new" /\ exit = "parsing" /\ Init
    BY DEF ProcessInit, Init
  <2>2. QueueInv
    BY <2>1, LedgerInvInit DEF LedgerInv
  <2>3. \A i \in 1..Len(stdin) : stdin[i] = Shutdown => i = Len(stdin)
    BY <2>1
  <2> QED
    BY <2>1, <2>2, <2>3 DEF SessionInv, Succeeded
<1>2. TypeOK /\ SessionInv /\ [ProcessNext]_<<vars, processVars>> => SessionInv'
  BY SessionKept
<1>3. SessionInv => SuccessMeansAnswered
  <2> SUFFICES ASSUME SessionInv, Succeeded, NEW m \in sent PROVE Reported(m)
    BY DEF SuccessMeansAnswered, Reported
  <2>1. stdin = <<>> /\ pc = "done" /\ ~Contains(stdin, m)
    BY DEF SessionInv, Succeeded, Contains
  <2> QED
    BY <2>1 DEF SessionInv, Handled, AtHand
<1> QED
  BY <1>1, <1>2, <1>3, ProcessTypeCorrect, PTL DEF ProcessSpec
--------------------------------------------------------------------------------
(* The replay.  How many of the first entries a mark of a tool replays, and how   *)
(* many events of a call are among the lines written.                            *)
PlayedSet(s, trigger, tool, n) ==
  {k \in DOMAIN s : k < n /\ s[k].typed /\ Matches(s[k], trigger, tool)}
Played(s, trigger, tool, n) == Cardinality(PlayedSet(s, trigger, tool, n))
EventsOf(out, c) == {k \in DOMAIN out : out[k] = EventLine("call", c, NoTag)}
Events(out, c)   == Cardinality(EventsOf(out, c))

LEMMA PlayedCounts ==
  ASSUME NEW s \in Seq(Entry), NEW trigger, NEW tool
  PROVE  /\ \A n : PlayedSet(s, trigger, tool, n) \subseteq 1..Len(s) /\ IsFiniteSet(PlayedSet(s, trigger, tool, n))
                   /\ Played(s, trigger, tool, n) \in Nat
         /\ Played(s, trigger, tool, 1) = 0
         /\ \A n \in 1..Len(s) :
              Played(s, trigger, tool, n + 1)
                = Played(s, trigger, tool, n) + (IF Matches(s[n], trigger, tool) /\ s[n].typed THEN 1 ELSE 0)
<1>0. Len(s) \in Nat /\ DOMAIN s = 1..Len(s) /\ IsFiniteSet(1..Len(s))
  BY FS_Interval
<1>1. ASSUME NEW n
      PROVE  PlayedSet(s, trigger, tool, n) \subseteq 1..Len(s) /\ IsFiniteSet(PlayedSet(s, trigger, tool, n))
  <2>1. PlayedSet(s, trigger, tool, n) \subseteq 1..Len(s)
    BY <1>0 DEF PlayedSet
  <2> QED
    BY <1>0, <2>1, FS_Subset
<1>2. \A n : Played(s, trigger, tool, n) \in Nat
  BY <1>1, FS_CardinalityType DEF Played
<1>3. Played(s, trigger, tool, 1) = 0
  <2>1. PlayedSet(s, trigger, tool, 1) = {}
    BY <1>0 DEF PlayedSet
  <2> QED
    BY <2>1, FS_EmptySet DEF Played
<1>4. ASSUME NEW n \in 1..Len(s)
      PROVE  Played(s, trigger, tool, n + 1)
               = Played(s, trigger, tool, n) + (IF Matches(s[n], trigger, tool) /\ s[n].typed THEN 1 ELSE 0)
  <2>1. \A k \in 1..Len(s) : k < n + 1 <=> k < n \/ k = n
    BY <1>0
  <2>2. n \notin PlayedSet(s, trigger, tool, n)
    BY DEF PlayedSet
  <2>3. CASE Matches(s[n], trigger, tool) /\ s[n].typed
    <3>1. PlayedSet(s, trigger, tool, n + 1) = PlayedSet(s, trigger, tool, n) \cup {n}
      BY <1>0, <2>1, <2>3 DEF PlayedSet
    <3> QED
      BY <1>1, <2>2, <2>3, <3>1, FS_AddElement DEF Played
  <2>4. CASE ~(Matches(s[n], trigger, tool) /\ s[n].typed)
    <3>1. PlayedSet(s, trigger, tool, n + 1) = PlayedSet(s, trigger, tool, n)
      BY <1>0, <2>1, <2>4 DEF PlayedSet
    <3> QED
      BY <1>2, <2>4, <3>1 DEF Played
  <2> QED
    BY <2>3, <2>4
<1> QED
  BY <1>1, <1>2, <1>3, <1>4

LEMMA EventsCount ==
  ASSUME NEW out \in Seq(Line), NEW l \in Line, NEW c
  PROVE  /\ Events(out, c) \in Nat
         /\ Events(Append(out, l), c) = Events(out, c) + (IF l = EventLine("call", c, NoTag) THEN 1 ELSE 0)
<1>0. /\ Len(out) \in Nat /\ DOMAIN out = 1..Len(out) /\ IsFiniteSet(1..Len(out))
      /\ DOMAIN Append(out, l) = 1..(Len(out) + 1) /\ Append(out, l)[Len(out) + 1] = l
      /\ \A k \in 1..Len(out) : Append(out, l)[k] = out[k]
  BY FS_Interval
<1>1. IsFiniteSet(EventsOf(out, c)) /\ Len(out) + 1 \notin EventsOf(out, c)
  <2>1. EventsOf(out, c) \subseteq 1..Len(out) /\ Len(out) + 1 \notin 1..Len(out)
    BY <1>0 DEF EventsOf
  <2> QED
    BY <1>0, <2>1, FS_Subset
<1>2. Events(out, c) \in Nat
  BY <1>1, FS_CardinalityType DEF Events
<1>3. \A k : k \in 1..(Len(out) + 1) <=> k \in 1..Len(out) \/ k = Len(out) + 1
  BY <1>0
<1>4. CASE l = EventLine("call", c, NoTag)
  <2>1. EventsOf(Append(out, l), c) = EventsOf(out, c) \cup {Len(out) + 1}
    BY <1>0, <1>3, <1>4 DEF EventsOf
  <2> QED
    BY <1>1, <1>2, <1>4, <2>1, FS_AddElement DEF Events
<1>5. CASE l # EventLine("call", c, NoTag)
  <2>1. EventsOf(Append(out, l), c) = EventsOf(out, c)
    BY <1>0, <1>3, <1>5 DEF EventsOf
  <2> QED
    BY <1>2, <1>5, <2>1 DEF Events
<1> QED
  BY <1>2, <1>4, <1>5

(* What a call is to have: the entries of its begin and those of its end.         *)
LEMMA WantedCounts ==
  ASSUME TypeOK, NEW c \in Calls
  PROVE  Cardinality(Wanted(c)) = Played(script, "begin", ToolOf[c], Len(script) + 1)
                                    + Played(script, "end", ToolOf[c], Len(script) + 1)
<1> DEFINE N == Len(script) + 1
           B == PlayedSet(script, "begin", ToolOf[c], N)
           E == PlayedSet(script, "end", ToolOf[c], N)
<1>1. script \in Seq(Entry)
  BY FakeAssumption DEF TypeOK
<1>2. IsFiniteSet(B) /\ IsFiniteSet(E)
  BY <1>1, PlayedCounts
<1>3. Wanted(c) = B \cup E /\ B \cap E = {}
  <2>1. DOMAIN script = 1..Len(script) /\ Len(script) \in Nat /\ \A k \in 1..Len(script) : k < N
    BY <1>1
  <2> QED
    BY <2>1 DEF Wanted, PlayedSet, Matches
<1>4. Cardinality(B) \in Nat /\ Cardinality(E) \in Nat /\ Cardinality(B \cap E) = 0
  BY <1>2, <1>3, FS_CardinalityType, FS_EmptySet
<1>5. Cardinality(B \cup E) = Cardinality(B) + Cardinality(E)
  <2>1. Cardinality(B \cup E) = Cardinality(B) + Cardinality(E) - Cardinality(B \cap E)
    BY <1>2, FS_Union
  <2> QED
    BY <1>4, <2>1
<1> QED
  BY <1>3, <1>5 DEF Played

(* A mark in hand; a begin status no mark of another call was reported behind.    *)
AtWork(c, trigger) == Firing /\ job.call = c /\ job.trigger = trigger
Undisturbed(c) == \E i \in DOMAIN stdout : stdout[i] = BeginLine(c) /\ Alone(i, Len(stdout))

(* An open call has the events of its begin, and those of its end as far as the   *)
(* script was played.                                                            *)
AfterBegin(c) == Played(script, "begin", ToolOf[c], Len(script) + 1)
Counted(c) ==
  /\ ~Handled(Begin(c)) => Events(stdout, c) = 0
  /\ Active(c) =>
       /\ AtWork(c, "begin") =>
            Events(stdout, c) = IF pc = "begin" THEN 0 ELSE Played(script, "begin", ToolOf[c], at)
       /\ AtWork(c, "end") => Events(stdout, c) = AfterBegin(c) + Played(script, "end", job.tool, at)
       /\ ~(Firing /\ job.call = c) => Events(stdout, c) = AfterBegin(c)

(* The tool that is remembered is that of an undisturbed call, from its begin      *)
(* mark to its end status.                                                       *)
ToolKnown(c) ==
  /\ AtWork(c, "begin") => job.tool = ToolOf[c] /\ (pc = "begin" => active_tool = ToolOf[c])
  /\ Undisturbed(c) /\ ~Answered(c) =>
       /\ ~(pc = "begin" /\ job.call # c) => active_tool = ToolOf[c]
       /\ AtWork(c, "end") => job.tool = ToolOf[c]

ReplayInv ==
  /\ pc = "new" => stdout = <<>> /\ \A c \in Calls : ~Handled(Begin(c))
  /\ pc = "end" => at = Len(script) + 1
  /\ pc # "done" => \A c \in Calls : Counted(c) /\ ToolKnown(c)

(* What a step writes.                                                           *)
LEMMA StepWrites ==
  ASSUME TypeOK, [Next]_vars
  PROVE  \/ UNCHANGED stdout
         \/ \E l \in Line : Emit(l) /\ \/ l \in {ReadyLine, ScopeLine, ErrorLine}
                                       \/ WriteBegin /\ l = BeginLine(job.call)
                                       \/ FireEntry /\ l = EventLine(job.bucket, job.call, NoTag)
                                       \/ WriteEnd /\ l = EndLine(job.call)
<1>1. job.call \in MaybeCall /\ job.bucket \in Buckets
  BY DEF TypeOK, Job
<1>2. CASE OnStart \/ HandleScope \/ HandleIgnored
  BY <1>2, LinesTyped DEF OnStart, HandleScope, HandleIgnored
<1>3. CASE WriteBegin
  BY <1>1, <1>3, LinesTyped DEF WriteBegin
<1>4. CASE FireEntry
  BY <1>1, <1>4, LinesTyped DEF FireEntry
<1>5. CASE WriteEnd
  BY <1>1, <1>5, LinesTyped DEF WriteEnd
<1> QED
  BY <1>2, <1>3, <1>4, <1>5 DEF Next, BackendStep, vars, HandleBegin, HandleEnd, HandleShutdown, FireDone,
     WriteFails, ClientSend

(* A mark of another call disturbs, and no line but a begin status starts afresh. *)
LEMMA EmitDisturbs ==
  ASSUME TypeOK, NEW l \in Line, Emit(l), NEW c \in Calls, Undisturbed(c)'
  PROVE  /\ l = BeginLine(c) \/ Undisturbed(c)
         /\ \A d \in Calls : l \in {BeginLine(d), EndLine(d)} => d = c
<1>1. /\ Len(stdout) \in Nat /\ DOMAIN stdout = 1..Len(stdout) /\ Len(stdout') = Len(stdout) + 1
      /\ DOMAIN stdout' = 1..(Len(stdout) + 1) /\ stdout'[Len(stdout) + 1] = l
      /\ \A i \in 1..Len(stdout) : stdout'[i] = stdout[i]
  BY DEF Emit, TypeOK
<1>2. PICK i \in 1..(Len(stdout) + 1) :
        /\ stdout'[i] = BeginLine(c)
        /\ \A k \in i..(Len(stdout) + 1) : \A d \in Calls \ {c} :
             ~(stdout'[k].msg \in {"begin", "end"} /\ stdout'[k].call = d)
  <2>1. BeginLine(c).call = c
    BY DEF BeginLine, Status
  <2> QED
    BY <1>1, <2>1 DEF Undisturbed, Alone, IsMark
<1>3. \A d \in Calls : l \in {BeginLine(d), EndLine(d)} => d = c
  <2>1. Len(stdout) + 1 \in i..(Len(stdout) + 1)
    BY <1>1
  <2> QED
    BY <1>1, <1>2, <2>1 DEF BeginLine, EndLine, Status
<1>4. CASE i = Len(stdout) + 1
  BY <1>1, <1>2, <1>3, <1>4
<1>5. CASE i \in 1..Len(stdout)
  <2>1. \A k \in i..Len(stdout) : k \in i..(Len(stdout) + 1) /\ k \in 1..Len(stdout)
    BY <1>1, <1>5
  <2>2. stdout[i] = BeginLine(c) /\ stdout[i].call = c
    BY <1>1, <1>2, <1>5 DEF BeginLine, Status
  <2>3. Alone(i, Len(stdout))
    BY <1>1, <1>2, <2>1, <2>2 DEF Alone, IsMark
  <2> QED
    BY <1>1, <1>3, <1>5, <2>2, <2>3 DEF Undisturbed
<1> QED
  BY <1>1, <1>2, <1>4, <1>5

(* A call whose events and marks a step leaves alone is counted as before.        *)
LEMMA LeftAlone ==
  ASSUME TypeOK, NEW c \in Calls, Counted(c), script' = script,
         Handled(Begin(c))' <=> Handled(Begin(c)), Active(c)' <=> Active(c),
         Events(stdout', c) = Events(stdout, c),
         ~(Firing /\ job.call = c), ~(Firing /\ job.call = c)'
  PROVE  Counted(c)'
<1>1. AfterBegin(c)' = AfterBegin(c)
  BY DEF AfterBegin
<1>2. ~AtWork(c, "begin")' /\ ~AtWork(c, "end")'
  BY DEF AtWork
<1> QED
  BY <1>1, <1>2 DEF Counted

(* Each step of the backend keeps the count of each call.                         *)
LEMMA CountKept ==
  ASSUME TypeOK, Named, LedgerInv, ReplayInv, [Next]_vars, pc' # "done", NEW c \in Calls
  PROVE  Counted(c)'
<1>0. /\ script' = script /\ script \in Seq(Entry) /\ Len(script) \in Nat /\ at \in 1..Len(script) + 1
      /\ stdout \in Seq(Line) /\ QueueInv /\ job.call \in MaybeCall /\ pc # "done" /\ c # NoCall
  BY FakeAssumption, ProtocolAssumption
     DEF TypeOK, LedgerInv, Job, Next, BackendStep, vars, OnStart, HandleScope, HandleBegin, WriteBegin, HandleEnd,
         ReadLine, HandleIgnored, HandleShutdown, FireEntry, FireDone, WriteEnd, WriteFails, ClientSend, StartFiring
<1>1. Counted(c) /\ ToolKnown(c)
  BY <1>0 DEF ReplayInv
<1>2. ASSUME NEW l \in Line, Emit(l)
      PROVE  Events(stdout', c) = Events(stdout, c) + (IF l = EventLine("call", c, NoTag) THEN 1 ELSE 0)
  BY <1>0, <1>2, EventsCount DEF Emit
<1>3. ASSUME NEW l \in Line, Emit(l), l.msg # "event" PROVE Events(stdout', c) = Events(stdout, c)
  <2>1. l # EventLine("call", c, NoTag)
    BY <1>3 DEF EventLine
  <2>2. Events(stdout, c) \in Nat
    BY <1>0, <1>3, EventsCount
  <2> QED
    BY <1>2, <1>3, <2>1, <2>2
<1>4. AfterBegin(c)' = AfterBegin(c)
  BY <1>0 DEF AfterBegin
<1>5. ASSUME UNCHANGED stdin, UNCHANGED sent, ~WriteEnd
      PROVE  (Handled(Begin(c))' <=> Handled(Begin(c))) /\ (Active(c)' <=> Active(c))
  <2>1. Answered(c)' <=> Answered(c)
    BY <1>5, OthersAnswerNothing
  <2> QED
    BY <1>5, <2>1 DEF Handled, Active
<1>6. ASSUME NEW op, ReadLine(op), ~WriteEnd, Head(stdin) # Begin(c)
      PROVE  (Handled(Begin(c))' <=> Handled(Begin(c))) /\ (Active(c)' <=> Active(c))
  <2>1. Answered(c)' <=> Answered(c)
    BY <1>6, OthersAnswerNothing
  <2> QED
    BY <1>0, <1>6, <2>1, ReadHandlesHead DEF Active
<1>7. CASE OnStart \/ HandleScope \/ HandleIgnored
  <2>1. PICK l \in {ReadyLine, ScopeLine, ErrorLine} : Emit(l)
    BY <1>7 DEF OnStart, HandleScope, HandleIgnored
  <2>2. l \in Line /\ l.msg # "event"
    BY LinesTyped DEF ReadyLine, ScopeLine, ErrorLine, Status
  <2>3. Events(stdout', c) = Events(stdout, c)
    BY <1>3, <2>1, <2>2
  <2>4. ~(Firing /\ job.call = c) /\ ~(Firing /\ job.call = c)' /\ ~WriteEnd
    BY <1>0, <1>7 DEF OnStart, HandleScope, HandleIgnored, ReadLine, Firing, StartFiring, StartJob, ScopeJob, WriteEnd
  <2>5. (Handled(Begin(c))' <=> Handled(Begin(c))) /\ (Active(c)' <=> Active(c))
    <3>1. CASE OnStart
      BY <1>5, <2>4, <3>1 DEF OnStart
    <3>2. CASE HandleScope
      <4>1. ReadLine("scope") /\ Head(stdin) # Begin(c)
        BY <3>2, HeadTyped DEF HandleScope
      <4> QED
        BY <1>6, <2>4, <4>1
    <3>3. CASE HandleIgnored
      <4>1. ReadLine("ignored") /\ Head(stdin) # Begin(c)
        BY <3>3, HeadTyped DEF HandleIgnored
      <4> QED
        BY <1>6, <2>4, <4>1
    <3> QED
      BY <1>7, <3>1, <3>2, <3>3
  <2> QED
    BY <1>0, <1>1, <2>3, <2>4, <2>5, LeftAlone
<1>8. CASE HandleBegin
  <2>1. PICK d \in Calls : /\ Head(stdin) = Begin(d) /\ job' = CallJob("begin", ToolGiven(d), d)
                           /\ Handled(Begin(d))' /\ ~Handled(Begin(d))
    BY <1>8, ReadBegin
  <2>2. UNCHANGED stdout /\ pc' = "begin" /\ pc = "idle" /\ ReadLine("begin") /\ ~WriteEnd
    BY <1>8 DEF HandleBegin, ReadLine, WriteEnd
  <2>3. job'.call = d /\ job'.trigger = "begin"
    BY <2>1 DEF CallJob
  <2>4. CASE d = c
    <3>1. AtWork(c, "begin")' /\ ~AtWork(c, "end")' /\ (Firing /\ job.call = c)' /\ Handled(Begin(c))'
      BY <2>1, <2>2, <2>3, <2>4 DEF AtWork, Firing
    <3>2. Events(stdout', c) = 0
      BY <1>1, <2>1, <2>2, <2>4 DEF Counted
    <3> QED
      BY <2>2, <3>1, <3>2 DEF Counted
  <2>5. CASE d # c
    <3>1. Head(stdin) # Begin(c)
      BY <2>1, <2>5 DEF Begin
    <3>2. ~(Firing /\ job.call = c) /\ ~(Firing /\ job.call = c)'
      BY <2>2, <2>3, <2>5 DEF Firing
    <3> QED
      BY <1>0, <1>1, <1>6, <2>2, <3>1, <3>2, LeftAlone
  <2> QED
    BY <2>4, <2>5
<1>9. CASE WriteBegin
  <2>1. BeginLine(job.call) \in Line /\ BeginLine(job.call).msg # "event" /\ Emit(BeginLine(job.call))
    BY <1>0, <1>9, LinesTyped DEF WriteBegin, BeginLine, Status
  <2>2. Events(stdout', c) = Events(stdout, c)
    BY <1>3, <2>1
  <2>3. /\ pc = "begin" /\ pc' = "fire" /\ UNCHANGED <<stdin, sent, job>> /\ at' = 1 /\ ~WriteEnd
        /\ job.trigger = "begin"
    BY <1>9 DEF WriteBegin, StartFiring, WriteEnd, LedgerInv
  <2>4. (Handled(Begin(c))' <=> Handled(Begin(c))) /\ (Active(c)' <=> Active(c))
    BY <1>5, <2>3
  <2>5. CASE job.call = c
    <3>1. AtWork(c, "begin") /\ AtWork(c, "begin")' /\ ~AtWork(c, "end")' /\ (Firing /\ job.call = c)'
      BY <2>3, <2>5 DEF AtWork, Firing
    <3>2. Active(c) => Events(stdout, c) = 0
      BY <1>1, <2>3, <3>1 DEF Counted
    <3>3. Played(script', "begin", ToolOf[c], at') = 0
      BY <1>0, <2>3, PlayedCounts
    <3> QED
      BY <1>1, <2>2, <2>3, <2>4, <3>1, <3>2, <3>3 DEF Counted
  <2>6. CASE job.call # c
    BY <1>0, <1>1, <2>2, <2>3, <2>4, <2>6, LeftAlone
  <2> QED
    BY <2>5, <2>6
<1>10. CASE HandleEnd
  <2>1. PICK d \in Calls : job' = CallJob("end", active_tool, d) /\ Handled(Begin(d)) /\ ~Answered(d)
    BY <1>10, ReadEnd
  <2>2. UNCHANGED stdout /\ pc' = "fire" /\ pc = "idle" /\ at' = 1 /\ ReadLine("end") /\ ~WriteEnd
    BY <1>10 DEF HandleEnd, ReadLine, WriteEnd, StartFiring
  <2>3. job'.call = d /\ job'.trigger = "end" /\ Head(stdin) # Begin(c)
    BY <2>1, <2>2, HeadTyped DEF CallJob
  <2>4. (Handled(Begin(c))' <=> Handled(Begin(c))) /\ (Active(c)' <=> Active(c))
    BY <1>6, <2>2, <2>3
  <2>5. ~(Firing /\ job.call = c)
    BY <2>2 DEF Firing
  <2>6. CASE d = c
    <3>1. ~AtWork(c, "begin")' /\ AtWork(c, "end")' /\ (Firing /\ job.call = c)' /\ Active(c)
      BY <2>1, <2>2, <2>3, <2>6 DEF AtWork, Firing, Active
    <3>2. Events(stdout, c) = AfterBegin(c)
      BY <1>1, <2>5, <3>1 DEF Counted
    <3>3. Played(script', "end", job'.tool, at') = 0 /\ AfterBegin(c) \in Nat
      BY <1>0, <2>2, PlayedCounts DEF AfterBegin
    <3>4. Events(stdout', c) = AfterBegin(c)' + Played(script', "end", job'.tool, at')
      BY <1>4, <2>2, <3>2, <3>3
    <3> QED
      BY <2>1, <2>4, <2>6, <3>1, <3>4 DEF Counted
  <2>7. CASE d # c
    <3>1. ~(Firing /\ job.call = c)'
      BY <2>3, <2>7
    <3> QED
      BY <1>0, <1>1, <2>2, <2>4, <2>5, <3>1, LeftAlone
  <2> QED
    BY <2>6, <2>7
<1>11. CASE FireEntry
  <2> DEFINE l == EventLine(job.bucket, job.call, NoTag)
             hit == Matches(script[at], job.trigger, job.tool) /\ script[at].typed
  <2>1. /\ UNCHANGED <<stdin, sent, job, pc>> /\ pc = "fire" /\ at \in 1..Len(script) /\ at' = at + 1 /\ ~WriteEnd
        /\ IF hit THEN Emit(l) ELSE UNCHANGED stdout
    BY <1>0, <1>11 DEF FireEntry, WriteEnd
  <2>2. (Handled(Begin(c))' <=> Handled(Begin(c))) /\ (Active(c)' <=> Active(c))
    BY <1>5, <2>1
  <2>3. l \in Line /\ Events(stdout, c) \in Nat
    BY <1>0, LinesTyped, EventsCount DEF TypeOK, Job
  <2>4. CASE job.call # c
    <3>1. l # EventLine("call", c, NoTag)
      BY <2>4 DEF EventLine
    <3>2. Events(stdout', c) = Events(stdout, c)
      BY <1>2, <2>1, <2>3, <3>1
    <3> QED
      BY <1>0, <1>1, <2>1, <2>2, <2>4, <3>2, LeftAlone
  <2>5. CASE job.call = c
    <3>1. /\ Firing /\ job.bucket = "call" /\ Active(c) /\ job.trigger \in {"begin", "end"}
      BY <1>0, <2>1, <2>5 DEF LedgerInv, Firing
    <3>2. Events(stdout', c) = Events(stdout, c) + (IF hit THEN 1 ELSE 0)
      <4>1. l = EventLine("call", c, NoTag)
        BY <2>5, <3>1
      <4> HIDE DEF hit, l
      <4> QED
        BY <1>2, <2>1, <2>3, <4>1
    <3>3. Played(script', job'.trigger, job'.tool, at')
            = Played(script, job.trigger, job.tool, at) + (IF hit THEN 1 ELSE 0)
      BY <1>0, <2>1, PlayedCounts
    <3>4. Played(script, job.trigger, job.tool, at) \in Nat /\ AfterBegin(c) \in Nat
      BY <1>0, PlayedCounts DEF AfterBegin
    <3> HIDE DEF hit, l
    <3>5. CASE job.trigger = "begin"
      <4>1. AtWork(c, "begin") /\ AtWork(c, "begin")' /\ ~AtWork(c, "end")' /\ (Firing /\ job.call = c)' /\ pc' = "fire"
        BY <2>1, <2>5, <3>1, <3>5 DEF AtWork, Firing
      <4>2. Events(stdout, c) = Played(script, "begin", ToolOf[c], at) /\ job.tool = ToolOf[c]
        BY <1>1, <2>1, <3>1, <4>1 DEF Counted, ToolKnown
      <4>3. Events(stdout', c) = Played(script', "begin", ToolOf[c], at')
        BY <2>1, <3>2, <3>3, <3>5, <4>2
      <4> QED
        BY <2>2, <3>1, <4>1, <4>3 DEF Counted, Active
    <3>6. CASE job.trigger = "end"
      <4>1. AtWork(c, "end") /\ AtWork(c, "end")' /\ ~AtWork(c, "begin")' /\ (Firing /\ job.call = c)'
        BY <2>1, <2>5, <3>1, <3>6 DEF AtWork, Firing
      <4>2. Events(stdout, c) = AfterBegin(c) + Played(script, "end", job.tool, at)
        BY <1>1, <3>1, <4>1 DEF Counted
      <4>3. Events(stdout', c) = AfterBegin(c)' + Played(script', "end", job'.tool, at')
        BY <1>4, <2>1, <3>2, <3>3, <3>4, <3>6, <4>2
      <4> QED
        BY <2>2, <3>1, <4>1, <4>3 DEF Counted, Active
    <3> QED
      BY <3>1, <3>5, <3>6
  <2> QED
    BY <2>4, <2>5
<1>12. CASE FireDone
  <2>1. /\ UNCHANGED <<stdin, stdout, sent, job, at>> /\ pc = "fire" /\ at = Len(script) + 1 /\ ~WriteEnd
        /\ pc' = IF job.trigger = "end" THEN "end" ELSE "idle"
    BY <1>0, <1>12 DEF FireDone, WriteEnd
  <2>2. (Handled(Begin(c))' <=> Handled(Begin(c))) /\ (Active(c)' <=> Active(c))
    BY <1>5, <2>1
  <2>3. CASE job.call # c
    BY <1>0, <1>1, <2>1, <2>2, <2>3, LeftAlone
  <2>4. CASE job.call = c /\ job.trigger = "end"
    <3>1. AtWork(c, "end") /\ AtWork(c, "end")' /\ ~AtWork(c, "begin")' /\ (Firing /\ job.call = c)'
      BY <2>1, <2>4 DEF AtWork, Firing
    <3>2. Active(c) => Events(stdout, c) = AfterBegin(c) + Played(script, "end", job.tool, at)
      BY <1>1, <3>1 DEF Counted
    <3> QED
      BY <1>0, <1>1, <1>4, <2>1, <2>2, <3>1, <3>2 DEF Counted
  <2>5. CASE job.call = c /\ job.trigger # "end"
    <3>1. AtWork(c, "begin") /\ ~Firing' /\ ~AtWork(c, "begin")' /\ ~AtWork(c, "end")'
      BY <1>0, <2>1, <2>5 DEF AtWork, Firing, LedgerInv
    <3>2. Active(c) => Events(stdout, c) = AfterBegin(c)
      BY <1>1, <2>1, <3>1 DEF Counted, AfterBegin
    <3> QED
      BY <1>1, <1>4, <2>1, <2>2, <3>1, <3>2 DEF Counted
  <2> QED
    BY <2>3, <2>4, <2>5
<1>13. CASE WriteEnd
  <2>1. /\ EndLine(job.call) \in Line /\ EndLine(job.call).msg # "event" /\ Emit(EndLine(job.call))
        /\ pc = "end" /\ pc' = "idle" /\ UNCHANGED <<stdin, sent, job>>
    BY <1>0, <1>13, LinesTyped DEF WriteEnd, EndLine, Status
  <2>2. Events(stdout', c) = Events(stdout, c) /\ (Handled(Begin(c))' <=> Handled(Begin(c)))
    BY <1>3, <2>1 DEF Handled
  <2>3. Answered(c)' <=> Answered(c) \/ c = job.call
    BY <2>1, EmitAnswers DEF EndLine, Status
  <2>4. CASE job.call = c
    BY <1>1, <2>2, <2>3, <2>4 DEF Counted, Active
  <2>5. CASE job.call # c
    <3>1. (Active(c)' <=> Active(c)) /\ ~(Firing /\ job.call = c) /\ ~(Firing /\ job.call = c)'
      BY <2>1, <2>2, <2>3, <2>5 DEF Active, Firing
    <3> QED
      BY <1>0, <1>1, <2>2, <3>1, LeftAlone
  <2> QED
    BY <2>4, <2>5
<1>14. CASE (\E m \in Messages : ClientSend(m)) \/ UNCHANGED vars
  <2>1. UNCHANGED <<stdout, job, pc, at>>
    BY <1>14 DEF ClientSend, vars
  <2>2. Handled(Begin(c))' <=> Handled(Begin(c))
    <3>1. CASE UNCHANGED vars
      BY <3>1 DEF vars, Handled
    <3>2. ASSUME NEW m \in Messages, ClientSend(m) PROVE Handled(Begin(c))' <=> Handled(Begin(c))
      BY <3>2, SendHandlesNothing
    <3> QED
      BY <1>14, <3>1, <3>2
  <2>3. (Active(c)' <=> Active(c)) /\ (Firing' <=> Firing)
    BY <2>1, <2>2 DEF Active, Answered, Firing
  <2>4. (AtWork(c, "begin")' <=> AtWork(c, "begin")) /\ (AtWork(c, "end")' <=> AtWork(c, "end"))
    BY <2>1, <2>3 DEF AtWork
  <2> QED
    BY <1>0, <1>1, <1>4, <2>1, <2>2, <2>3, <2>4 DEF Counted
<1> QED
  BY <1>7, <1>8, <1>9, <1>10, <1>11, <1>12, <1>13, <1>14 DEF Next, BackendStep, HandleShutdown, WriteFails

(* Each step of the backend keeps the tool known.                                *)
LEMMA ToolKept ==
  ASSUME TypeOK, Named, LedgerInv, ReplayInv, [Next]_vars, pc' # "done", NEW c \in Calls
  PROVE  ToolKnown(c)'
<1>0. /\ job.call \in MaybeCall /\ pc # "done" /\ c # NoCall
      /\ Firing => job.call \in Calls \/ job.call = NoCall
      /\ \A d : d \in MaybeCall /\ d # NoCall => d \in Calls
  BY ProtocolAssumption
     DEF TypeOK, Job, MaybeCall, Next, BackendStep, vars, OnStart, HandleScope, HandleBegin, WriteBegin, HandleEnd,
         ReadLine, HandleIgnored, HandleShutdown, FireEntry, FireDone, WriteEnd, WriteFails, ClientSend, StartFiring
<1>1. ToolKnown(c)
  BY <1>0 DEF ReplayInv
<1>2. ASSUME UNCHANGED stdout PROVE (Undisturbed(c)' <=> Undisturbed(c)) /\ (Answered(c)' <=> Answered(c))
  BY <1>2 DEF Undisturbed, Alone, IsMark, Answered
<1>3. ASSUME NEW l \in Line, Emit(l), l # BeginLine(c), Undisturbed(c)', ~Answered(c)'
      PROVE  Undisturbed(c) /\ ~Answered(c) /\ \A d \in Calls \ {c} : l \notin {BeginLine(d), EndLine(d)}
  BY <1>3, EmitDisturbs, EmitAnswers
<1>4. CASE OnStart \/ HandleScope \/ HandleIgnored
  <2>1. PICK l \in {ReadyLine, ScopeLine, ErrorLine} : Emit(l)
    BY <1>4 DEF OnStart, HandleScope, HandleIgnored
  <2>2. l \in Line /\ l # BeginLine(c)
    BY LinesTyped DEF ReadyLine, ScopeLine, ErrorLine, BeginLine, Status
  <2>3. UNCHANGED active_tool /\ pc \in {"new", "idle"} /\ ~AtWork(c, "begin")' /\ ~AtWork(c, "end")'
    BY <1>0, <1>4 DEF OnStart, HandleScope, HandleIgnored, ReadLine, AtWork, Firing, StartFiring, StartJob, ScopeJob
  <2>4. Undisturbed(c)' /\ ~Answered(c)' => Undisturbed(c) /\ ~Answered(c)
    BY <1>3, <2>1, <2>2
  <2> QED
    BY <1>1, <2>3, <2>4 DEF ToolKnown
<1>5. CASE HandleBegin
  <2>1. PICK d \in Calls : job' = CallJob("begin", ToolGiven(d), d) /\ active_call' = d /\ Head(stdin) = Begin(d)
    BY <1>5, ReadBegin
  <2>2. /\ pc' = "begin" /\ job'.call = d /\ job'.trigger = "begin" /\ d # NoCall
        /\ job'.tool = ToolOf[d] /\ active_tool' = ToolOf[d]
    BY <1>5, <2>1, ProtocolAssumption DEF HandleBegin, CallJob, ToolGiven, Begin
  <2> QED
    BY <2>2 DEF ToolKnown, AtWork
<1>6. CASE WriteBegin
  <2>1. /\ pc = "begin" /\ pc' = "fire" /\ UNCHANGED <<job, active_tool>> /\ Emit(BeginLine(job.call))
        /\ Firing /\ Firing' /\ job.trigger = "begin" /\ job.call \in Calls
    BY <1>0, <1>6 DEF WriteBegin, StartFiring, LedgerInv, Firing
  <2>2. CASE job.call = c
    BY <1>1, <2>1, <2>2 DEF ToolKnown, AtWork
  <2>3. CASE job.call # c
    <3>1. BeginLine(job.call) \in Line /\ BeginLine(job.call) # BeginLine(c)
      BY <1>0, <2>3, LinesTyped DEF BeginLine, Status
    <3>2. ~(Undisturbed(c)' /\ ~Answered(c)')
      BY <1>3, <2>1, <2>3, <3>1
    <3> QED
      BY <2>1, <2>3, <3>2 DEF ToolKnown, AtWork
  <2> QED
    BY <2>2, <2>3
<1>7. CASE HandleEnd
  <2>1. /\ UNCHANGED <<stdout, active_tool>> /\ pc = "idle" /\ pc' = "fire"
        /\ job'.trigger = "end" /\ job'.tool = active_tool
    BY <1>7 DEF HandleEnd, ReadLine, StartFiring, CallJob
  <2> QED
    BY <1>1, <1>2, <2>1 DEF ToolKnown, AtWork
<1>8. CASE FireEntry
  <2>1. UNCHANGED <<job, active_tool, pc>> /\ pc = "fire"
    BY <1>8 DEF FireEntry
  <2>2. Undisturbed(c)' /\ ~Answered(c)' => Undisturbed(c) /\ ~Answered(c)
    <3>1. CASE UNCHANGED stdout
      BY <1>2, <3>1
    <3>2. CASE Emit(EventLine(job.bucket, job.call, NoTag))
      <4>1. /\ EventLine(job.bucket, job.call, NoTag) \in Line
            /\ EventLine(job.bucket, job.call, NoTag) # BeginLine(c)
        BY LinesTyped DEF TypeOK, Job, EventLine, BeginLine, Status
      <4> QED
        BY <1>3, <3>2, <4>1
    <3> QED
      BY <1>8, <3>1, <3>2 DEF FireEntry
  <2>3. (AtWork(c, "begin")' <=> AtWork(c, "begin")) /\ (AtWork(c, "end")' <=> AtWork(c, "end"))
    BY <2>1 DEF AtWork, Firing
  <2> QED
    BY <1>1, <2>1, <2>2, <2>3 DEF ToolKnown
<1>9. CASE FireDone
  <2>1. /\ UNCHANGED <<stdout, job, active_tool>> /\ pc = "fire" /\ pc' \in {"end", "idle"}
    BY <1>9 DEF FireDone
  <2>2. (AtWork(c, "begin")' => AtWork(c, "begin")) /\ (AtWork(c, "end")' => AtWork(c, "end"))
    BY <2>1 DEF AtWork, Firing
  <2> QED
    BY <1>1, <1>2, <2>1, <2>2 DEF ToolKnown
<1>10. CASE WriteEnd
  <2>1. /\ pc = "end" /\ pc' = "idle" /\ Emit(EndLine(job.call)) /\ job.call \in Calls
        /\ ~Firing' /\ EndLine(job.call) \in Line /\ EndLine(job.call) # BeginLine(c)
    BY <1>0, <1>10, LinesTyped DEF WriteEnd, LedgerInv, Firing, EndLine, BeginLine, Status
  <2>2. job.call = c => Answered(c)'
    BY <2>1, EmitAnswers
  <2>3. ~(Undisturbed(c)' /\ ~Answered(c)')
    BY <1>3, <2>1, <2>2
  <2> QED
    BY <2>1, <2>3 DEF ToolKnown, AtWork
<1>11. CASE (\E m \in Messages : ClientSend(m)) \/ UNCHANGED vars
  <2>1. UNCHANGED <<stdout, job, pc, active_tool>>
    BY <1>11 DEF ClientSend, vars
  <2>2. (AtWork(c, "begin")' <=> AtWork(c, "begin")) /\ (AtWork(c, "end")' <=> AtWork(c, "end"))
    BY <2>1 DEF AtWork, Firing
  <2> QED
    BY <1>1, <1>2, <2>1, <2>2 DEF ToolKnown
<1> QED
  BY <1>4, <1>5, <1>6, <1>7, <1>8, <1>9, <1>10, <1>11 DEF Next, BackendStep, HandleShutdown, WriteFails

LEMMA ReplayInvNext ==
  ASSUME TypeOK, Named, LedgerInv, ReplayInv, [Next]_vars
  PROVE  ReplayInv'
<1>1. pc' = "new" => stdout' = <<>> /\ \A c \in Calls : ~Handled(Begin(c))'
  <2> SUFFICES ASSUME pc' = "new" PROVE stdout' = <<>> /\ \A c \in Calls : ~Handled(Begin(c))'
    OBVIOUS
  <2>1. pc = "new" /\ UNCHANGED stdout /\ ((\E m \in Messages : ClientSend(m)) \/ UNCHANGED vars)
    BY DEF Next, BackendStep, vars, OnStart, HandleScope, HandleBegin, WriteBegin, HandleEnd, ReadLine,
           HandleIgnored, HandleShutdown, FireEntry, FireDone, WriteEnd, WriteFails, ClientSend, StartFiring
  <2>2. \A c \in Calls : Handled(Begin(c))' <=> Handled(Begin(c))
    <3>1. CASE UNCHANGED vars
      BY <3>1 DEF vars, Handled
    <3>2. ASSUME NEW m \in Messages, ClientSend(m) PROVE \A c \in Calls : Handled(Begin(c))' <=> Handled(Begin(c))
      BY <3>2, SendHandlesNothing
    <3> QED
      BY <2>1, <3>1, <3>2
  <2> QED
    BY <2>1, <2>2 DEF ReplayInv
<1>2. pc' = "end" => at' = Len(script') + 1
  <2> SUFFICES ASSUME pc' = "end" PROVE at' = Len(script') + 1
    OBVIOUS
  <2>1. CASE FireDone
    <3>1. at \in 1..Len(script) + 1 /\ Len(script) \in Nat
      BY FakeAssumption DEF TypeOK
    <3> QED
      BY <2>1, <3>1 DEF FireDone
  <2>2. CASE UNCHANGED <<pc, at, script>>
    BY <2>2 DEF ReplayInv
  <2> QED
    BY <2>1, <2>2 DEF Next, BackendStep, vars, OnStart, HandleScope, HandleBegin, WriteBegin, HandleEnd, ReadLine,
       HandleIgnored, HandleShutdown, FireEntry, WriteEnd, WriteFails, ClientSend, StartFiring
<1>3. pc' # "done" => \A c \in Calls : Counted(c)' /\ ToolKnown(c)'
  BY CountKept, ToolKept
<1> QED
  BY <1>1, <1>2, <1>3 DEF ReplayInv

(* An end status finds the call complete; later steps add nothing to the call.    *)
LEMMA ExactNext ==
  ASSUME TypeOK, Named, LedgerInv, ReplayInv, ReplayedExactly, [Next]_vars
  PROVE  ReplayedExactly'
<1>0. /\ script' = script /\ script \in Seq(Entry) /\ Len(script) \in Nat /\ stdout \in Seq(Line)
      /\ job.call \in MaybeCall
  BY FakeAssumption
     DEF TypeOK, Job, Next, BackendStep, vars, OnStart, HandleScope, HandleBegin, WriteBegin, HandleEnd,
         ReadLine, HandleIgnored, HandleShutdown, FireEntry, FireDone, WriteEnd, WriteFails, ClientSend, StartFiring
<1>1. \A c : Wanted(c)' = Wanted(c)
  BY <1>0 DEF Wanted
<1>2. CASE UNCHANGED stdout
  BY <1>1, <1>2 DEF ReplayedExactly, Alone, IsMark
<1>3. ASSUME NEW l \in Line, Emit(l),
             \/ l \in {ReadyLine, ScopeLine, ErrorLine}
             \/ WriteBegin /\ l = BeginLine(job.call)
             \/ FireEntry /\ l = EventLine(job.bucket, job.call, NoTag)
             \/ WriteEnd /\ l = EndLine(job.call)
      PROVE  ReplayedExactly'
  <2>1. /\ Len(stdout) \in Nat /\ DOMAIN stdout = 1..Len(stdout) /\ stdout' = Append(stdout, l)
        /\ DOMAIN stdout' = 1..(Len(stdout) + 1) /\ stdout'[Len(stdout) + 1] = l
        /\ \A k \in 1..Len(stdout) : stdout'[k] = stdout[k]
    BY <1>0, <1>3 DEF Emit
  <2> SUFFICES ASSUME NEW i \in 1..(Len(stdout) + 1), NEW j \in 1..(Len(stdout) + 1), NEW c \in Calls,
                      i < j, stdout'[i] = BeginLine(c), stdout'[j] = EndLine(c), Alone(i, j)'
               PROVE  Events(stdout', c) = Cardinality(Wanted(c))
    BY <1>1, <2>1 DEF ReplayedExactly, Events, EventsOf
  <2>2. i \in 1..Len(stdout) /\ stdout[i] = BeginLine(c) /\ stdout[i].call = c
    BY <2>1 DEF BeginLine, Status
  <2>3. ASSUME NEW h \in 1..Len(stdout), h <= j PROVE Alone(i, h)
    <3>1. \A k \in i..h : k \in i..j /\ k \in 1..Len(stdout)
      BY <2>2, <2>3
    <3> QED
      BY <2>1, <2>2, <3>1 DEF Alone, IsMark
  <2>4. /\ Events(stdout, c) \in Nat
        /\ l # EventLine("call", c, NoTag) => Events(stdout', c) = Events(stdout, c)
    BY <1>0, <2>1, EventsCount
  <2>5. CASE j \in 1..Len(stdout)
    <3>1. stdout[j] = EndLine(c) /\ Alone(i, j) /\ Answered(c)
      BY <2>1, <2>3, <2>5 DEF Answered, Contains
    <3>2. l # EventLine("call", c, NoTag)
      <4>1. CASE FireEntry /\ l = EventLine(job.bucket, job.call, NoTag)
        <5>1. job.call # NoCall => Active(job.call)
          BY <4>1 DEF FireEntry, LedgerInv, Firing
        <5>2. job.call # c
          BY <3>1, <5>1, ProtocolAssumption DEF Active
        <5> QED
          BY <4>1, <5>2 DEF EventLine
      <4>2. CASE l.msg # "event"
        BY <4>2 DEF EventLine
      <4> QED
        BY <1>3, <4>1, <4>2 DEF ReadyLine, ScopeLine, ErrorLine, BeginLine, EndLine, Status
    <3>3. Events(stdout, c) = Cardinality(Wanted(c))
      BY <2>1, <2>2, <2>5, <3>1 DEF ReplayedExactly, Events, EventsOf
    <3> QED
      BY <2>4, <3>2, <3>3
  <2>6. CASE j = Len(stdout) + 1
    <3>1. l = EndLine(c)
      BY <2>1, <2>6
    <3>2. WriteEnd /\ job.call = c
      BY <1>3, <3>1 DEF ReadyLine, ScopeLine, ErrorLine, BeginLine, EventLine, EndLine, Status
    <3>3. Undisturbed(c)
      <4>1. Len(stdout) \in 1..Len(stdout) /\ Len(stdout) <= j
        BY <2>1, <2>2, <2>6
      <4> QED
        BY <2>1, <2>2, <2>3, <4>1 DEF Undisturbed
    <3>4. /\ pc = "end" /\ AtWork(c, "end") /\ Active(c) /\ at = Len(script) + 1
          /\ Counted(c) /\ ToolKnown(c)
      <4>1. pc = "end" /\ Firing /\ job.trigger = "end" /\ c # NoCall
        BY <3>2, ProtocolAssumption DEF WriteEnd, Firing, LedgerInv
      <4> QED
        BY <3>2, <4>1 DEF AtWork, LedgerInv, ReplayInv
    <3>5. job.tool = ToolOf[c]
      BY <3>3, <3>4 DEF ToolKnown, Active
    <3>6. Events(stdout, c) = AfterBegin(c) + Played(script, "end", ToolOf[c], Len(script) + 1)
      BY <3>4, <3>5 DEF Counted
    <3>7. Events(stdout, c) = Cardinality(Wanted(c))
      BY <3>6, WantedCounts DEF AfterBegin
    <3>8. l # EventLine("call", c, NoTag)
      BY <3>1 DEF EventLine, EndLine, Status
    <3> QED
      BY <2>4, <3>7, <3>8
  <2> QED
    BY <2>1, <2>5, <2>6
<1> QED
  BY <1>2, <1>3, StepWrites

(* The script is replayed exactly (fake.rs:37-46): between a begin mark and its    *)
(* end mark, with no other call's in between, every typed entry for the call's     *)
(* tool or for none appears once, in any script and whatever else the client asks  *)
(* for, because the tool of the begin mark is remembered until the end status.    *)
THEOREM ScriptReplayed ==
  ASSUME Named
  PROVE  ProcessSpec => []ReplayedExactly
<1> DEFINE Inv == LedgerInv /\ ReplayInv /\ ReplayedExactly /\ (exit = "parsing" => pc = "new")
<1>1. ProcessInit => Inv
  <2> SUFFICES ASSUME ProcessInit PROVE Inv
    OBVIOUS
  <2>1. Init /\ stdout = <<>> /\ sent = {} /\ pc = "new"
    BY DEF ProcessInit, Init
  <2>2. ReplayedExactly
    <3>1. DOMAIN stdout = {}
      BY <2>1
    <3> QED
      BY <3>1 DEF ReplayedExactly
  <2>3. \A c \in Calls : /\ ~Handled(Begin(c)) /\ ~Active(c) /\ ~AtWork(c, "begin") /\ ~Undisturbed(c)
                         /\ Events(stdout, c) = 0
    <3>1. \A c \in Calls : ~Handled(Begin(c)) /\ ~Active(c)
      BY <2>1 DEF Handled, Active
    <3>2. \A c \in Calls : ~AtWork(c, "begin")
      BY <2>1 DEF AtWork, Firing
    <3>3. DOMAIN stdout = {}
      BY <2>1
    <3>4. \A c \in Calls : ~Undisturbed(c) /\ EventsOf(stdout, c) = {}
      BY <3>3 DEF Undisturbed, EventsOf
    <3>5. \A c \in Calls : Events(stdout, c) = 0
      BY <3>4, FS_EmptySet DEF Events
    <3> QED
      BY <3>1, <3>2, <3>4, <3>5
  <2>4. ReplayInv
    <3>1. \A c \in Calls : Counted(c)
      BY <2>3 DEF Counted
    <3>2. \A c \in Calls : ToolKnown(c)
      BY <2>3 DEF ToolKnown
    <3> QED
      BY <2>1, <2>3, <3>1, <3>2 DEF ReplayInv
  <2> QED
    BY <2>1, <2>2, <2>4, LedgerInvInit
<1>2. TypeOK /\ Inv /\ [ProcessNext]_<<vars, processVars>> => Inv'
  <2> SUFFICES ASSUME TypeOK, Inv, [ProcessNext]_<<vars, processVars>> PROVE Inv'
    OBVIOUS
  <2>1. exit' = "parsing" => pc' = "new"
    BY DEF ProcessNext, ParseFlag, ParseOption, Parsing, Quit, Run, Session, Client, ClientSend, ExitWith, vars, processVars
  <2>2. CASE [Next]_vars
    BY <2>1, <2>2, LedgerInvNext, ReplayInvNext, ExactNext
  <2>3. CASE Run /\ UNCHANGED <<stdin, stdout, sent, active_call, active_tool, pc, job, at>>
    <3>1. LedgerInv'
      BY <2>3 DEF LedgerInv, QueueInv, Answered, Handled, Active, Firing
    <3>2. pc = "new" /\ stdout = <<>> /\ \A c \in Calls : ~Handled(Begin(c))
      BY <2>3 DEF Run, ReplayInv
    <3>3. \A c \in Calls : ~Handled(Begin(c))' /\ ~Active(c)'
      BY <2>3, <3>2 DEF Handled, Active
    <3>4. \A c \in Calls : Events(stdout', c) = 0 /\ ToolKnown(c)'
      BY <2>3, <3>2 DEF ReplayInv, Counted, ToolKnown, AtWork, Firing, Undisturbed, Answered, Alone, IsMark
    <3>5. ReplayInv'
      BY <2>3, <3>2, <3>3, <3>4 DEF ReplayInv, Counted
    <3>6. ReplayedExactly'
      <4>1. DOMAIN stdout' = {}
        BY <2>3, <3>2
      <4> QED
        BY <4>1 DEF ReplayedExactly
    <3> QED
      BY <2>1, <3>1, <3>5, <3>6
  <2> QED
    BY <2>2, <2>3, ProcessSteps
<1> QED
  BY <1>1, <1>2, ProcessTypeCorrect, PTL DEF ProcessSpec

--------------------------------------------------------------------------------
(* The command line.  The parser takes words one or two at a time; that it takes  *)
(* the settings given, in order, is shown by induction on the length of a line.   *)

(* Induction on the natural numbers: a set that has 0 and the successor of each  *)
(* number it has leaves out none, as the least number left out would follow one  *)
(* that is not.                                                                  *)
LEMMA Induct ==
  ASSUME NEW S, 0 \in S, \A n \in Nat : n \in S => n + 1 \in S
  PROVE  Nat \subseteq S
<1> DEFINE T == Nat \ S
<1> SUFFICES ASSUME T # {} PROVE FALSE
  OBVIOUS
<1>1. \E x \in T : \A y \in T : ~(<<y, x>> \in OpToRel(<, Nat))
  <2>1. T \subseteq Nat
    OBVIOUS
  <2> HIDE DEF T
  <2> QED
    BY <2>1, WFMin, NatLessThanWellFounded
<1>2. PICK x \in T : \A y \in T : ~(<<y, x>> \in OpToRel(<, Nat))
  BY <1>1
<1>3. x # 0 /\ x - 1 \in Nat /\ x - 1 + 1 = x
  OBVIOUS
<1>4. x - 1 \in T
  BY <1>3
<1>5. <<x - 1, x>> \in OpToRel(<, Nat)
  BY <1>3 DEF OpToRel
<1> QED
  BY <1>2, <1>4, <1>5

(* f joins the first sequences, n of them: what FlattenSeq computes.              *)
Joins(f, n, seqs) == f = [i \in 1..n |-> IF i = 1 THEN seqs[i] ELSE f[i - 1] \o seqs[i]]

LEMMA JoinsExists ==
  ASSUME NEW W, NEW seqs \in Seq(Seq(W))
  PROVE  \E f \in [1..Len(seqs) -> Seq(W)] : Joins(f, Len(seqs), seqs)
<1> DEFINE S == {n \in Nat : n <= Len(seqs) => \E f \in [1..n -> Seq(W)] : Joins(f, n, seqs)}
<1>1. 0 \in S
  <2> DEFINE f == [i \in 1..0 |-> <<>>]
  <2>1. f \in [1..0 -> Seq(W)] /\ Joins(f, 0, seqs)
    BY DEF Joins
  <2> QED
    BY <2>1
<1>2. \A n \in Nat : n \in S => n + 1 \in S
  <2> SUFFICES ASSUME NEW n \in Nat, n \in S, n + 1 <= Len(seqs)
               PROVE  \E f \in [1..n + 1 -> Seq(W)] : Joins(f, n + 1, seqs)
    OBVIOUS
  <2>1. PICK f \in [1..n -> Seq(W)] : Joins(f, n, seqs)
    OBVIOUS
  <2> DEFINE last == IF n = 0 THEN seqs[n + 1] ELSE f[n] \o seqs[n + 1]
             g == [i \in 1..n + 1 |-> IF i = n + 1 THEN last ELSE f[i]]
  <2>2. seqs[n + 1] \in Seq(W)
    OBVIOUS
  <2>3. last \in Seq(W)
    <3>1. n # 0 => f[n] \in Seq(W)
      OBVIOUS
    <3> QED
      BY <2>2, <3>1, ConcatProperties
  <2>4. g \in [1..n + 1 -> Seq(W)]
    BY <2>3
  <2>5. \A i \in 1..n : f[i] = IF i = 1 THEN seqs[i] ELSE f[i - 1] \o seqs[i]
    BY <2>1 DEF Joins
  <2>6. \A i \in 1..n + 1 : g[i] = IF i = 1 THEN seqs[i] ELSE g[i - 1] \o seqs[i]
    <3> SUFFICES ASSUME NEW i \in 1..n + 1
                 PROVE  g[i] = IF i = 1 THEN seqs[i] ELSE g[i - 1] \o seqs[i]
      OBVIOUS
    <3>1. CASE i = n + 1
      <4>1. n # 0 => g[n] = f[n]
        OBVIOUS
      <4>2. g[i] = last
        BY <3>1
      <4> HIDE DEF g
      <4> QED
        BY <3>1, <4>1, <4>2
    <3>2. CASE i # n + 1
      <4>1. i \in 1..n /\ g[i] = f[i] /\ (i # 1 => g[i - 1] = f[i - 1])
        BY <3>2
      <4>2. f[i] = IF i = 1 THEN seqs[i] ELSE f[i - 1] \o seqs[i]
        BY <2>5, <4>1
      <4> HIDE DEF g
      <4> QED
        BY <4>1, <4>2
    <3> QED
      BY <3>1, <3>2
  <2>7. Joins(g, n + 1, seqs)
    <3> HIDE DEF g
    <3> QED
      BY <2>4, <2>6 DEF Joins
  <2> HIDE DEF g
  <2> QED
    BY <2>4, <2>7
<1>3. Len(seqs) \in S
  <2>1. Len(seqs) \in Nat
    OBVIOUS
  <2> HIDE DEF S
  <2> QED
    BY <1>1, <1>2, <2>1, Induct, Zenon
<1> QED
  BY <1>3

(* t begins with s.                                                              *)
Starts(s, t) ==
  Len(s) \in Nat /\ Len(t) \in Nat /\ Len(s) <= Len(t) /\ \A i \in 1..Len(s) : s[i] = t[i]

LEMMA JoinsAgree ==
  ASSUME NEW s, NEW t, Starts(s, t),
         NEW f, Joins(f, Len(s), s), NEW g, Joins(g, Len(t), t)
  PROVE  \A i \in 1..Len(s) : f[i] = g[i]
<1> USE DEF Starts
<1> DEFINE n == Len(s)
           m == Len(t)
           S == {k \in Nat : k + 1 <= n => f[k + 1] = g[k + 1]}
<1>1. \A i \in 1..n : /\ f[i] = IF i = 1 THEN s[i] ELSE f[i - 1] \o s[i]
                      /\ g[i] = IF i = 1 THEN s[i] ELSE g[i - 1] \o s[i]
  <2> TAKE i \in 1..n
  <2>1. i \in 1..m /\ s[i] = t[i]
    OBVIOUS
  <2>2. f[i] = IF i = 1 THEN s[i] ELSE f[i - 1] \o s[i]
    BY DEF Joins
  <2>3. g[i] = IF i = 1 THEN t[i] ELSE g[i - 1] \o t[i]
    BY <2>1 DEF Joins
  <2> QED
    BY <2>1, <2>2, <2>3
<1>2. 0 \in S
  BY <1>1
<1>3. \A k \in Nat : k \in S => k + 1 \in S
  <2> SUFFICES ASSUME NEW k \in Nat, k \in S, k + 1 + 1 <= n
               PROVE  f[k + 1 + 1] = g[k + 1 + 1]
    OBVIOUS
  <2>1. f[k + 1] = g[k + 1] /\ k + 1 + 1 \in 1..n /\ k + 1 + 1 - 1 = k + 1 /\ k + 1 + 1 # 1
    OBVIOUS
  <2> QED
    BY <1>1, <2>1
<1>4. \A k \in Nat : k \in S
  <2> HIDE DEF S
  <2> QED
    BY <1>2, <1>3, Induct, Zenon
<1>5. ASSUME NEW i \in 1..n PROVE f[i] = g[i]
  <2>1. i - 1 \in Nat /\ i - 1 + 1 = i /\ i <= n
    OBVIOUS
  <2>2. i - 1 \in S
    BY <2>1, <1>4
  <2> QED
    BY <2>1, <2>2
<1> QED
  BY <1>5

LEMMA FlattenJoins ==
  ASSUME NEW W, NEW seqs \in Seq(Seq(W)), seqs # <<>>
  PROVE  \E f \in [1..Len(seqs) -> Seq(W)] : Joins(f, Len(seqs), seqs) /\ FlattenSeq(seqs) = f[Len(seqs)]
<1> DEFINE F == CHOOSE f : f = [i \in 1..Len(seqs) |-> IF i = 1 THEN seqs[i] ELSE f[i - 1] \o seqs[i]]
<1>1. FlattenSeq(seqs) = F[Len(seqs)]
  BY EmptySeq DEF FlattenSeq
<1>2. PICK f \in [1..Len(seqs) -> Seq(W)] : Joins(f, Len(seqs), seqs)
  BY JoinsExists
<1>3. \E g : g = [i \in 1..Len(seqs) |-> IF i = 1 THEN seqs[i] ELSE g[i - 1] \o seqs[i]]
  BY <1>2 DEF Joins
<1>4. F = [i \in 1..Len(seqs) |-> IF i = 1 THEN seqs[i] ELSE F[i - 1] \o seqs[i]]
  BY <1>3
<1> HIDE DEF F
<1>5. Joins(F, Len(seqs), seqs)
  BY <1>4, Zenon DEF Joins
<1>6. \A i \in 1..Len(seqs) : F[i] = f[i]
  <2>1. Starts(seqs, seqs)
    BY DEF Starts
  <2> QED
    BY <1>2, <1>5, <2>1, JoinsAgree
<1>7. Len(seqs) \in 1..Len(seqs)
  OBVIOUS
<1>8. FlattenSeq(seqs) = f[Len(seqs)]
  BY <1>1, <1>6, <1>7
<1> QED
  BY <1>2, <1>8

(* FlattenSeq from the right, and from the left.                                 *)
LEMMA FlattenAppend ==
  ASSUME NEW W, NEW seqs \in Seq(Seq(W)), NEW s \in Seq(W)
  PROVE  /\ FlattenSeq(<<>>) = <<>>
         /\ FlattenSeq(seqs) \in Seq(W)
         /\ FlattenSeq(Append(seqs, s)) = FlattenSeq(seqs) \o s
<1>1. FlattenSeq(<<>>) = <<>>
  BY DEF FlattenSeq
<1>2. FlattenSeq(seqs) \in Seq(W)
  <2>1. CASE seqs = <<>>
    BY <1>1, <2>1, EmptySeq
  <2>2. CASE seqs # <<>>
    <3>1. PICK f \in [1..Len(seqs) -> Seq(W)] : FlattenSeq(seqs) = f[Len(seqs)]
      BY <2>2, FlattenJoins
    <3>2. Len(seqs) \in 1..Len(seqs)
      BY <2>2
    <3> QED
      BY <3>1, <3>2
  <2> QED
    BY <2>1, <2>2
<1>3. PICK t \in Seq(Seq(W)) :
        /\ t = Append(seqs, s) /\ t # <<>> /\ Len(t) = Len(seqs) + 1 /\ t[Len(t)] = s
        /\ \A i \in 1..Len(seqs) : seqs[i] = t[i]
  <2>1. Append(seqs, s) \in Seq(Seq(W)) /\ Append(seqs, s) # <<>> /\ Len(Append(seqs, s)) = Len(seqs) + 1
    BY AppendProperties
  <2>2. /\ Append(seqs, s)[Len(seqs) + 1] = s
        /\ \A i \in 1..Len(seqs) : seqs[i] = Append(seqs, s)[i]
    BY AppendProperties
  <2> QED
    BY <2>1, <2>2, Zenon
<1>4. PICK g \in [1..Len(t) -> Seq(W)] : Joins(g, Len(t), t) /\ FlattenSeq(t) = g[Len(t)]
  BY <1>3, FlattenJoins
<1>5. g[Len(t)] = IF Len(t) = 1 THEN s ELSE g[Len(seqs)] \o s
  <2>1. Len(t) \in 1..Len(t) /\ Len(t) - 1 = Len(seqs)
    BY <1>3
  <2>2. \A i \in 1..Len(t) : g[i] = IF i = 1 THEN t[i] ELSE g[i - 1] \o t[i]
    BY <1>4 DEF Joins
  <2> QED
    BY <1>3, <2>1, <2>2
<1>6. FlattenSeq(t) = FlattenSeq(seqs) \o s
  <2>1. CASE seqs = <<>>
    <3>1. Len(t) = 1
      BY <1>3, <2>1
    <3>2. FlattenSeq(seqs) \o s = s
      BY <1>1, <2>1, ConcatEmptySeq
    <3> QED
      BY <1>4, <1>5, <3>1, <3>2
  <2>2. CASE seqs # <<>>
    <3>1. PICK f \in [1..Len(seqs) -> Seq(W)] : Joins(f, Len(seqs), seqs) /\ FlattenSeq(seqs) = f[Len(seqs)]
      BY <2>2, FlattenJoins
    <3>2. Len(seqs) \in Nat /\ Len(seqs) \in 1..Len(seqs) /\ Len(t) \in Nat /\ Len(seqs) <= Len(t)
          /\ Len(t) # 1
      BY <2>2, <1>3
    <3>3. \A i \in 1..Len(seqs) : f[i] = g[i]
      <4>1. Starts(seqs, t)
        BY <1>3, <3>2 DEF Starts
      <4>2. Joins(f, Len(seqs), seqs)
        BY <3>1
      <4>3. Joins(g, Len(t), t)
        BY <1>4
      <4> QED
        BY <4>1, <4>2, <4>3, JoinsAgree, SMTT(20)
    <3>4. FlattenSeq(t) = g[Len(seqs)] \o s
      BY <1>4, <1>5, <3>2, Zenon
    <3> QED
      BY <3>1, <3>2, <3>3, <3>4, Zenon
  <2> QED
    BY <2>1, <2>2
<1> QED
  BY <1>1, <1>2, <1>3, <1>6

LEMMA FlattenFirst ==
  ASSUME NEW W, NEW s \in Seq(W), NEW seqs \in Seq(Seq(W))
  PROVE  FlattenSeq(<<s>> \o seqs) = s \o FlattenSeq(seqs)
<1> DEFINE Holds(t) == FlattenSeq(<<s>> \o t) = s \o FlattenSeq(t)
           S == {n \in Nat : \A t \in Seq(Seq(W)) : Len(t) = n => Holds(t)}
<1>1. 0 \in S
  <2>1. <<s>> \o <<>> = Append(<<>>, s) /\ <<>> \in Seq(Seq(W))
    OBVIOUS
  <2>2. FlattenSeq(<<>>) = <<>> /\ FlattenSeq(Append(<<>>, s)) = FlattenSeq(<<>>) \o s
    BY <2>1, FlattenAppend
  <2>3. <<>> \o s = s /\ s \o <<>> = s
    BY ConcatEmptySeq
  <2>4. Holds(<<>>)
    BY <2>1, <2>2, <2>3
  <2>5. \A t \in Seq(Seq(W)) : Len(t) = 0 => t = <<>>
    BY EmptySeq
  <2> QED
    BY <2>4, <2>5, Zenon
<1>2. ASSUME NEW n \in Nat, n \in S PROVE n + 1 \in S
  <2>1. ASSUME NEW t \in Seq(Seq(W)), Len(t) = n + 1 PROVE Holds(t)
    <3>1. t # <<>>
      BY <2>1
    <3>2. PICK u \in Seq(Seq(W)), x \in Seq(W) : t = Append(u, x)
      BY <3>1, SequenceEmptyOrAppend
    <3>3. Len(u) = n
      BY <2>1, <3>2
    <3>4. FlattenSeq(<<s>> \o u) = s \o FlattenSeq(u)
      BY <1>2, <3>3
    <3>5. <<s>> \o u \in Seq(Seq(W)) /\ <<s>> \o t = Append(<<s>> \o u, x)
      BY <3>2
    <3>6. FlattenSeq(<<s>> \o t) = FlattenSeq(<<s>> \o u) \o x
      BY <3>5, FlattenAppend
    <3>7. FlattenSeq(t) = FlattenSeq(u) \o x /\ FlattenSeq(u) \in Seq(W)
      BY <3>2, FlattenAppend
    <3>8. (s \o FlattenSeq(u)) \o x = s \o (FlattenSeq(u) \o x)
      BY <3>7, ConcatAssociative, SMTT(20)
    <3> QED
      BY <3>4, <3>6, <3>7, <3>8
  <2> HIDE DEF Holds
  <2> QED
    BY <2>1
<1>3. Len(seqs) \in Nat /\ Len(seqs) \in S
  <2>1. Len(seqs) \in Nat
    OBVIOUS
  <2> HIDE DEF S
  <2> QED
    BY <1>1, <1>2, <2>1, Induct, Zenon
<1> QED
  BY <1>3

(* The words still to parse and the options set, when the first n settings of    *)
(* a line are done.                                                              *)
WordsOf(line) == [i \in DOMAIN line |-> Words(line[i])]
From(line, n) == SubSeq(line, n + 1, Len(line))
Rest(line, n) == FlattenSeq(WordsOf(From(line, n)))
ValueAfter(line, n, f) ==
  LET at_f == {i \in 1..n : line[i][1] = f}
  IN  IF at_f = {} THEN Default[f] ELSE line[Max(at_f)][2]

(* The options, their words and their values.                                    *)
LEMMA OptionWords ==
  /\ Fields = {"backend", "events_file", "grace_ms"}
  /\ \A f \in Fields : OptionOf[f] \notin Informs /\ OptionOf[f] \notin Fields /\ f \notin Informs
  /\ \A f \in Fields : "" \notin Accepted[f]
  /\ \A f, h \in Fields : OptionOf[f] = OptionOf[h] => f = h
<1>1. Fields = {"backend", "events_file", "grace_ms"}
  BY DEF Fields, Accepted
<1>2. OptionOf["backend"] = "--backend" /\ OptionOf["events_file"] = "--events-file" /\ OptionOf["grace_ms"] = "--grace-ms"
  BY DEF OptionOf
<1>3. /\ Accepted["backend"] = {"fake", "ebpf"} /\ Accepted["grace_ms"] = {"250"}
      /\ Accepted["events_file"] = {"script", "missing", "broken", "--help"}
  BY DEF Accepted, Files
<1>4. "" \notin Accepted["backend"] /\ "" \notin Accepted["grace_ms"] /\ "" \notin Accepted["events_file"]
  BY <1>3
<1>5. \A f \in Fields : "" \notin Accepted[f]
  BY <1>1, <1>4
<1>6. \A f \in Fields : OptionOf[f] \notin Informs /\ OptionOf[f] \notin Fields /\ f \notin Informs
  BY <1>1, <1>2 DEF Informs
<1>7. \A f, h \in Fields : OptionOf[f] = OptionOf[h] => f = h
  BY <1>1, <1>2
<1> QED
  BY <1>1, <1>5, <1>6, <1>7

(* The settings of a line, and its words.                                        *)
Word  == STRING \cup {OptionOf[f] : f \in Fields}
Known == {OptionOf[f] : f \in Fields}

LEMMA LineCut ==
  ASSUME NEW line \in CommandLines
  PROVE  /\ line \in Seq(Setting) /\ Len(line) \in Nat /\ DOMAIN line = 1..Len(line)
         /\ \A i \in 1..Len(line) :
              /\ line[i][2] # "" => line[i][1] \in Fields
              /\ line[i][2] = "" /\ line[i][1] \in Known => i = Len(line)
<1>1. line \in Seq(Setting) /\ Len(line) \in Nat /\ DOMAIN line = 1..Len(line)
  <2>1. line \in Seq(Setting)
    BY CommandLineAssumption, Zenon
  <2> QED
    BY <2>1
<1>2. ASSUME NEW i \in 1..Len(line)
      PROVE  IF line[i][2] # "" THEN line[i][1] \in Fields ELSE line[i][1] \in Known => i = Len(line)
  BY <1>1, CommandLineAssumption, Zenon DEF Known
<1> QED
  BY <1>1, <1>2

LEMMA WordsTyped ==
  ASSUME NEW line \in CommandLines, NEW i \in 1..Len(line)
  PROVE  /\ line[i][1] \in Word /\ line[i][2] \in Word
         /\ line[i][2] # "" => OptionOf[line[i][1]] \in Word
         /\ Words(line[i]) \in Seq(Word)
<1>1. line[i][1] \in Word /\ line[i][2] \in Word
  <2>1. line[i] \in STRING \X STRING
    <3>1. line \in Seq(STRING \X STRING)
      BY LineCut, Zenon DEF Setting
    <3> QED
      BY <3>1
  <2> QED
    BY <2>1 DEF Word
<1>2. line[i][2] # "" => OptionOf[line[i][1]] \in Word
  BY LineCut DEF Word
<1>3. \A a, b \in Word : <<a>> \in Seq(Word) /\ <<a, b>> \in Seq(Word)
  OBVIOUS
<1>4. Words(line[i]) \in Seq(Word)
  BY <1>1, <1>2, <1>3, Zenon DEF Words
<1> QED
  BY <1>1, <1>2, <1>4

(* Behind the first n settings are the words of the next one, and then the rest.  *)
LEMMA RestStep ==
  ASSUME NEW line \in CommandLines, NEW n \in 0..Len(line)
  PROVE  /\ Rest(line, n) \in Seq(Word)
         /\ n = Len(line) => Rest(line, n) = <<>>
         /\ n < Len(line) => Rest(line, n) = Words(line[n + 1]) \o Rest(line, n + 1)
<1>1. ASSUME NEW k \in 0..Len(line)
      PROVE  /\ From(line, k) \in Seq(Setting)
             /\ Len(From(line, k)) = Len(line) - k
             /\ \A i \in 1..Len(line) - k : From(line, k)[i] = line[k + i]
  <2>1. line \in Seq(Setting) /\ Len(line) \in Nat
    BY LineCut
  <2> QED
    BY <2>1 DEF From
<1>2. ASSUME NEW k \in 0..Len(line)
      PROVE  /\ WordsOf(From(line, k)) \in Seq(Seq(Word))
             /\ Len(WordsOf(From(line, k))) = Len(line) - k
             /\ \A i \in 1..Len(line) - k : WordsOf(From(line, k))[i] = Words(line[k + i])
  <2> DEFINE w == [i \in 1..Len(line) - k |-> Words(line[k + i])]
  <2>1. DOMAIN From(line, k) = 1..Len(line) - k /\ Len(line) - k \in Nat
    <3>1. Len(line) \in Nat
      BY LineCut
    <3> QED
      BY <1>1, <3>1
  <2>2. WordsOf(From(line, k)) = w
    BY <1>1, <2>1 DEF WordsOf
  <2>3. \A i \in 1..Len(line) - k : Words(line[k + i]) \in Seq(Word)
    <3>1. Len(line) \in Nat
      BY LineCut
    <3>2. \A i \in 1..Len(line) - k : k + i \in 1..Len(line)
      BY <3>1
    <3> QED
      BY <3>2, WordsTyped
  <2>4. w \in Seq(Seq(Word)) /\ Len(w) = Len(line) - k
    BY <2>1, <2>3
  <2> QED
    BY <2>2, <2>4
<1> Len(line) \in Nat
  BY LineCut
<1>3. Rest(line, n) \in Seq(Word)
  BY <1>2, FlattenAppend, EmptySeq DEF Rest
<1>4. CASE n = Len(line)
  <2>1. WordsOf(From(line, n)) = <<>>
    BY <1>2, <1>4, EmptySeq
  <2>2. FlattenSeq(<<>>) = <<>>
    BY DEF FlattenSeq
  <2> QED
    BY <1>3, <1>4, <2>1, <2>2 DEF Rest
<1>5. CASE n < Len(line)
  <2> DEFINE v == WordsOf(From(line, n))
             w == WordsOf(From(line, n + 1))
             x == Words(line[n + 1])
  <2>1. n \in Nat /\ Len(line) \in Nat /\ n + 1 \in 0..Len(line)
    BY <1>5
  <2>2. /\ v \in Seq(Seq(Word)) /\ Len(v) = Len(line) - n
        /\ \A i \in 1..Len(line) - n : v[i] = Words(line[n + i])
    BY <1>2
  <2>3. /\ w \in Seq(Seq(Word)) /\ Len(w) = Len(line) - (n + 1)
        /\ \A i \in 1..Len(line) - (n + 1) : w[i] = Words(line[n + 1 + i])
    BY <1>2, <2>1
  <2>4. x \in Seq(Word)
    <3>1. n + 1 \in 1..Len(line)
      BY <1>5, <2>1
    <3> QED
      BY <3>1, WordsTyped
  <2> HIDE DEF v, w, x
  <2>5. <<x>> \o w \in Seq(Seq(Word)) /\ Len(<<x>> \o w) = Len(v)
    <3>1. <<x>> \in Seq(Seq(Word)) /\ Len(<<x>>) = 1
      BY <2>4
    <3>2. <<x>> \o w \in Seq(Seq(Word)) /\ Len(<<x>> \o w) = 1 + Len(w)
      BY <2>3, <3>1, ConcatProperties
    <3>3. 1 + Len(w) = Len(v)
      BY <2>1, <2>2, <2>3
    <3> QED
      BY <3>2, <3>3
  <2>6. \A i \in 1..Len(v) : v[i] = (<<x>> \o w)[i]
    <3> SUFFICES ASSUME NEW i \in 1..Len(v) PROVE v[i] = (<<x>> \o w)[i]
      OBVIOUS
    <3>1. CASE i = 1
      BY <2>1, <2>2, <2>3, <2>4, <3>1 DEF x
    <3>2. CASE i # 1
      <4>1. i - 1 \in 1..Len(w) /\ i \in 1..Len(line) - n /\ n + 1 + (i - 1) = n + i
        BY <2>1, <2>2, <2>3, <3>2
      <4>2. (<<x>> \o w)[i] = w[i - 1]
        BY <2>3, <2>4, <4>1, SMTT(20)
      <4> QED
        BY <2>2, <2>3, <4>1, <4>2
    <3> QED
      BY <3>1, <3>2
  <2>7. v = <<x>> \o w
    BY <2>2, <2>5, <2>6, SeqEqual
  <2>8. FlattenSeq(v) = x \o FlattenSeq(w)
    BY <2>3, <2>4, <2>7, FlattenFirst
  <2> QED
    BY <1>3, <1>5, <2>8 DEF Rest, v, w, x
<1> QED
  BY <1>3, <1>4, <1>5

(* What the parser finds at the head of its words.                               *)
LEMMA RestHead ==
  ASSUME NEW line \in CommandLines, NEW n \in 0..Len(line), Rest(line, n) # <<>>
  PROVE  /\ n + 1 \in 1..Len(line)
         /\ line[n + 1][2] = "" =>
              /\ Head(Rest(line, n)) = line[n + 1][1]
              /\ line[n + 1][1] \in Known => ~ (Len(Rest(line, n)) > 1)
         /\ line[n + 1][2] # "" =>
              /\ line[n + 1][1] \in Fields
              /\ Len(Rest(line, n)) > 1
              /\ Head(Rest(line, n)) = OptionOf[line[n + 1][1]]
              /\ Rest(line, n)[2] = line[n + 1][2]
              /\ Tail(Tail(Rest(line, n))) = Rest(line, n + 1)
<1>1. n + 1 \in 1..Len(line) /\ n + 1 \in 0..Len(line) /\ n < Len(line)
  <2>1. Len(line) \in Nat
    BY LineCut
  <2>2. n # Len(line)
    BY RestStep
  <2> QED
    BY <2>1, <2>2
<1> DEFINE s == line[n + 1]
           r == Rest(line, n + 1)
<1>2. Rest(line, n) = Words(s) \o r /\ r \in Seq(Word)
  BY <1>1, RestStep
<1>3. /\ s[1] \in Word /\ s[2] \in Word
      /\ s[2] # "" => s[1] \in Fields /\ OptionOf[s[1]] \in Word
      /\ s[2] = "" /\ s[1] \in Known => n + 1 = Len(line)
  BY <1>1, LineCut, WordsTyped
<1>4. n + 1 = Len(line) => r = <<>>
  BY <1>1, RestStep
<1> HIDE DEF s, r
<1>5. CASE s[2] = ""
  <2> DEFINE w == s[1]
  <2>1. w \in Word /\ Rest(line, n) = <<w>> \o r
    BY <1>2, <1>3, <1>5 DEF Words
  <2> HIDE DEF w
  <2>2. Head(<<w>> \o r) = w
    BY <1>2, <2>1
  <2>3. r = <<>> => Len(<<w>> \o r) = 1
    BY <1>2, <2>1
  <2>4. w \in Known => ~ (Len(Rest(line, n)) > 1)
    <3>1. w \in Known => r = <<>>
      BY <1>3, <1>4, <1>5 DEF w
    <3> QED
      BY <2>1, <2>3, <3>1
  <2> QED
    BY <1>1, <1>5, <2>1, <2>2, <2>4 DEF s, w
<1>6. CASE s[2] # ""
  <2> DEFINE o == OptionOf[s[1]]
             v == s[2]
  <2>1. o \in Word /\ v \in Word /\ Rest(line, n) = <<o, v>> \o r
    BY <1>2, <1>3, <1>6 DEF Words
  <2> HIDE DEF o, v
  <2>2. /\ Len(<<o, v>> \o r) > 1 /\ Head(<<o, v>> \o r) = o /\ (<<o, v>> \o r)[2] = v
    BY <1>2, <2>1
  <2>3. Tail(Tail(<<o, v>> \o r)) = r
    <3> DEFINE u == <<o, v>> \o r
               t == Tail(u)
    <3>1. /\ u \in Seq(Word) /\ u # <<>> /\ Len(u) = Len(r) + 2
          /\ \A i \in 1..Len(r) : u[i + 2] = r[i]
      BY <1>2, <2>1
    <3> HIDE DEF u
    <3>2. /\ t \in Seq(Word) /\ t # <<>> /\ Len(t) = Len(r) + 1
          /\ \A i \in 1..Len(r) : t[i + 1] = r[i]
      <4>1. t \in Seq(Word) /\ Len(t) = Len(u) - 1 /\ \A i \in 1..Len(t) : t[i] = u[i + 1]
        BY <3>1, HeadTailProperties
      <4> HIDE DEF t
      <4>2. Len(r) \in Nat
        BY <1>2
      <4>3. \A i \in 1..Len(r) : i + 1 \in 1..Len(t) /\ i + 1 + 1 = i + 2
        BY <3>1, <4>1, <4>2
      <4>4. \A i \in 1..Len(r) : t[i + 1] = r[i]
        BY <3>1, <4>1, <4>3
      <4> QED
        BY <3>1, <4>1, <4>2, <4>4
    <3> HIDE DEF t
    <3>3. Tail(t) \in Seq(Word) /\ Len(Tail(t)) = Len(r) /\ \A i \in 1..Len(r) : Tail(t)[i] = r[i]
      BY <1>2, <3>2
    <3>4. Tail(t) = r
      BY <1>2, <3>3, SeqEqual
    <3> QED
      BY <3>4 DEF t, u
  <2> QED
    BY <1>1, <1>3, <1>6, <2>1, <2>2, <2>3 DEF s, r, o, v
<1> QED
  BY <1>5, <1>6

(* No words are left only behind the last setting.                               *)
LEMMA AllTaken ==
  ASSUME NEW line \in CommandLines, NEW n \in 0..Len(line), Rest(line, n) = <<>>
  PROVE  n = Len(line)
<1> Len(line) \in Nat
  BY LineCut
<1> SUFFICES ASSUME n < Len(line) PROVE FALSE
  OBVIOUS
<1>1. n + 1 \in 1..Len(line) /\ n + 1 \in 0..Len(line)
  OBVIOUS
<1>2. Words(line[n + 1]) \in Seq(Word) /\ Rest(line, n + 1) \in Seq(Word)
  BY <1>1, WordsTyped, RestStep
<1>3. Words(line[n + 1]) \o Rest(line, n + 1) = <<>>
  BY RestStep
<1>4. Words(line[n + 1]) = <<>>
  BY <1>2, <1>3, ConcatEqualIffEmpty
<1>5. \A a, b : <<a>> # <<>> /\ <<a, b>> # <<>>
  OBVIOUS
<1> QED
  BY <1>4, <1>5, Zenon DEF Words

(* The largest and the smallest of the positions that matter.                    *)
LEMMA ValueStep ==
  ASSUME NEW line, NEW n \in Nat, NEW f
  PROVE  /\ ValueAfter(line, 0, f) = Default[f]
         /\ ValueAfter(line, n + 1, f) = IF line[n + 1][1] = f THEN line[n + 1][2] ELSE ValueAfter(line, n, f)
<1> DEFINE At(k) == {i \in 1..k : line[i][1] = f}
<1>1. At(0) = {}
  OBVIOUS
<1>2. CASE line[n + 1][1] = f
  <2>1. n + 1 \in At(n + 1) /\ \A i \in At(n + 1) : i \in Int /\ n + 1 >= i
    BY <1>2
  <2>2. Max(At(n + 1)) = n + 1
    <3>1. /\ Max(At(n + 1)) \in At(n + 1)
          /\ \A y \in At(n + 1) : Max(At(n + 1)) >= y
      <4> HIDE DEF At
      <4> QED
        BY <2>1 DEF Max
    <3> HIDE DEF At
    <3> QED
      BY <2>1, <3>1
  <2> QED
    BY <1>1, <1>2, <2>1, <2>2 DEF ValueAfter
<1>3. CASE line[n + 1][1] # f
  <2>1. At(n + 1) = At(n)
    BY <1>3
  <2> QED
    BY <1>1, <1>3, <2>1 DEF ValueAfter
<1> QED
  BY <1>2, <1>3

LEMMA FirstOdd ==
  ASSUME NEW n \in Nat, n + 1 \in DOMAIN given, DOMAIN given \subseteq Nat \ {0},
         \A i \in 1..n : IsOption(given[i]), ~IsOption(given[n + 1])
  PROVE  Odd # {} /\ Min(Odd) = n + 1
<1>1. n + 1 \in Odd /\ \A i \in Odd : i \in Int /\ n + 1 <= i
  BY DEF Odd
<1>2. Min(Odd) \in Odd /\ \A y \in Odd : Min(Odd) <= y
  BY <1>1 DEF Min
<1> QED
  BY <1>1, <1>2

(* Inductive: while it parses, the process has taken some of the settings, all of *)
(* them options, and set what they say.                                          *)
ParsedUpTo(n) ==
  /\ \A i \in 1..n : IsOption(given[i])
  /\ args = Rest(given, n)
  /\ options = [f \in Fields |-> ValueAfter(given, n, f)]
ParseInv ==
  /\ given \in CommandLines
  /\ exit = "parsing" => pc = "new" /\ \E n \in 0..Len(given) : ParsedUpTo(n)
  /\ ParsedAsGiven

(* Quitting at the first setting that is not an option.                          *)
LEMMA QuitsAtOdd ==
  ASSUME ParseInv, NEW n \in 0..Len(given), ParsedUpTo(n), n + 1 \in 1..Len(given), ~IsOption(given[n + 1]),
         given' = given, pc' = "new",
         IF given[n + 1][1] \in Informs THEN exit' = "success" ELSE exit' = "usage"
  PROVE  ParseInv'
<1>1. given \in CommandLines /\ DOMAIN given = 1..Len(given) /\ Len(given) \in Nat
  BY LineCut DEF ParseInv
<1>2. Odd # {} /\ Min(Odd) = n + 1
  BY <1>1, FirstOdd DEF ParsedUpTo
<1>3. Odd' = Odd
  BY DEF Odd, IsOption
<1>4. ~Succeeded'
  BY DEF Succeeded
<1>5. ParsedAsGiven'
  <2>1. given[Min(Odd)] = given[n + 1]
    BY <1>2
  <2> QED
    BY <1>2, <1>3, <1>4, <2>1, Zenon DEF ParsedAsGiven
<1> QED
  BY <1>1, <1>5 DEF ParseInv

LEMMA ParseFlagKept == ASSUME ParseInv, ParseFlag PROVE ParseInv'
<1>1. given \in CommandLines /\ Len(given) \in Nat /\ DOMAIN given = 1..Len(given)
  BY LineCut DEF ParseInv
<1>2. pc = "new" /\ pc' = pc /\ given' = given
  BY DEF ParseInv, ParseFlag, Parsing, vars
<1>3. PICK n \in 0..Len(given) : ParsedUpTo(n)
  BY DEF ParseInv, ParseFlag, Parsing
<1>4. args = Rest(given, n) /\ args # <<>> /\ Head(args) \notin Known
  BY <1>3 DEF ParseFlag, ParsedUpTo, Known
<1>5. n + 1 \in 1..Len(given) /\ given[n + 1][2] = "" /\ Head(args) = given[n + 1][1]
  BY <1>1, <1>4, RestHead, Zenon DEF Known
<1>6. ~IsOption(given[n + 1])
  BY <1>5, OptionWords DEF IsOption
<1>7. exit' = IF given[n + 1][1] \in Informs THEN "success" ELSE "usage"
  BY <1>5 DEF ParseFlag, Quit
<1> QED
  BY <1>2, <1>3, <1>5, <1>6, <1>7, QuitsAtOdd

LEMMA ParseOptionKept == ASSUME ParseInv, NEW f \in Fields, ParseOption(f) PROVE ParseInv'
<1>1. given \in CommandLines /\ Len(given) \in Nat /\ DOMAIN given = 1..Len(given)
  BY LineCut DEF ParseInv
<1>2. exit = "parsing" /\ pc = "new" /\ pc' = pc /\ given' = given
  BY DEF ParseInv, ParseOption, Parsing, vars
<1>3. PICK n \in 0..Len(given) : ParsedUpTo(n)
  BY DEF ParseInv, ParseOption, Parsing
<1> DEFINE s == given[n + 1]
<1>4. args = Rest(given, n) /\ args # <<>> /\ Head(args) = OptionOf[f] /\ OptionOf[f] \in Known
  BY <1>3 DEF ParseOption, ParsedUpTo, Known
<1>5. n + 1 \in 1..Len(given)
  BY <1>1, <1>4, RestHead, Zenon
<1>6. CASE s[2] = ""
  <2>1. s[1] = OptionOf[f] /\ ~ (Len(args) > 1)
    BY <1>1, <1>4, <1>6, RestHead, Zenon
  <2>2. exit' = "usage"
    BY <2>1 DEF ParseOption, Quit
  <2>3. ~IsOption(s) /\ s[1] \notin Informs
    BY <1>6, <2>1, OptionWords DEF IsOption
  <2> QED
    BY <1>2, <1>3, <1>5, <2>2, <2>3, QuitsAtOdd
<1>7. CASE s[2] # ""
  <2>1. /\ s[1] \in Fields /\ Len(args) > 1 /\ Head(args) = OptionOf[s[1]]
        /\ args[2] = s[2] /\ Tail(Tail(args)) = Rest(given, n + 1)
    BY <1>1, <1>4, <1>7, RestHead, Zenon
  <2>2. s[1] = f /\ f \notin Informs
    BY <1>4, <2>1, OptionWords
  <2>3. CASE s[2] \in Accepted[f]
    <3>1. /\ options' = [options EXCEPT ![f] = s[2]]
          /\ args' = Rest(given, n + 1) /\ exit' = exit
      BY <2>1, <2>3 DEF ParseOption
    <3>2. IsOption(s)
      BY <2>2, <2>3 DEF IsOption
    <3>3. \A i \in 1..n + 1 : IsOption(given[i])
      <4>1. \A i \in 1..n + 1 : i \in 1..n \/ i = n + 1
        OBVIOUS
      <4> QED
        BY <1>3, <3>2, <4>1 DEF ParsedUpTo
    <3>4. options' = [h \in Fields |-> ValueAfter(given, n + 1, h)]
      <4>1. options = [h \in Fields |-> ValueAfter(given, n, h)]
        BY <1>3 DEF ParsedUpTo
      <4>2. \A h \in Fields : ValueAfter(given, n + 1, h) = IF h = f THEN s[2] ELSE ValueAfter(given, n, h)
        BY <2>2, ValueStep
      <4> QED
        BY <3>1, <4>1, <4>2
    <3>5. ParsedUpTo(n + 1)'
      BY <1>2, <3>1, <3>3, <3>4 DEF ParsedUpTo, IsOption
    <3>6. n + 1 \in 0..Len(given)
      BY <1>1, <1>5
    <3>7. exit' = "parsing"
      BY <1>2, <3>1
    <3>8. ParsedAsGiven'
      BY <3>7 DEF ParsedAsGiven, Succeeded
    <3> QED
      BY <1>1, <1>2, <3>5, <3>6, <3>7, <3>8 DEF ParseInv
  <2>4. CASE s[2] \notin Accepted[f]
    <3>1. exit' = "usage"
      BY <2>1, <2>4 DEF ParseOption, Quit
    <3>2. ~IsOption(s) /\ s[1] \notin Informs
      BY <2>2, <2>4 DEF IsOption
    <3> QED
      BY <1>2, <1>3, <1>5, <3>1, <3>2, QuitsAtOdd
  <2> QED
    BY <2>3, <2>4
<1> QED
  BY <1>6, <1>7

LEMMA RunKept == ASSUME ParseInv, Run PROVE ParseInv'
<1>1. given \in CommandLines /\ Len(given) \in Nat /\ DOMAIN given = 1..Len(given)
  BY LineCut DEF ParseInv
<1>2. /\ exit = "parsing" /\ pc = "new" /\ pc' = pc /\ given' = given /\ options' = options /\ args = <<>>
      /\ exit' = CASE options.backend = "ebpf"                    -> "ebpf"
                   [] options.events_file \in {"none", "script"}  -> "running"
                   [] OTHER                                       -> "usage"
  BY DEF ParseInv, Run
<1>3. PICK n \in 0..Len(given) : ParsedUpTo(n)
  BY <1>2 DEF ParseInv
<1>4. n = Len(given)
  BY <1>1, <1>2, <1>3, AllTaken DEF ParsedUpTo
<1>5. Odd = {} /\ Odd' = Odd
  BY <1>1, <1>2, <1>3, <1>4 DEF ParsedUpTo, Odd, IsOption
<1>6. \A f \in Fields : options[f] = LastGiven(f) /\ LastGiven(f)' = LastGiven(f)
  <2>1. \A f \in Fields : ValueAfter(given, n, f) = LastGiven(f)
    BY <1>1, <1>4 DEF ValueAfter, LastGiven
  <2>2. \A f \in Fields : LastGiven(f)' = LastGiven(f)
    BY <1>2 DEF LastGiven
  <2> QED
    BY <1>3, <2>1, <2>2 DEF ParsedUpTo
<1>7. exit' \in {"ebpf", "running", "usage"}
  BY <1>2
<1>8. exit' = "usage" => LastGiven("events_file") \notin {"none", "script"}
  <2>1. "events_file" \in Fields
    BY OptionWords
  <2>2. options.events_file = LastGiven("events_file")
    BY <1>6, <2>1
  <2> QED
    BY <1>2, <2>2
<1>9. ParsedAsGiven'
  <2>1. LastGiven("events_file")' = LastGiven("events_file")
    BY <1>6, OptionWords
  <2> QED
    BY <1>2, <1>5, <1>6, <1>7, <1>8, <2>1 DEF ParsedAsGiven
<1> QED
  BY <1>1, <1>2, <1>7, <1>9 DEF ParseInv

LEMMA ParseRestKept ==
  ASSUME ParseInv, Session \/ Client \/ UNCHANGED <<vars, processVars>>
  PROVE  ParseInv'
<1>1. given' = given /\ args' = args /\ options' = options
  BY DEF Session, Client, processVars
<1>2. /\ Odd' = Odd /\ \A f : LastGiven(f)' = LastGiven(f)
      /\ \A n : ParsedUpTo(n)' <=> ParsedUpTo(n)
  BY <1>1 DEF Odd, IsOption, LastGiven, ParsedUpTo
<1>3. CASE exit' = exit /\ pc' = pc
  BY <1>1, <1>2, <1>3 DEF ParseInv, ParsedAsGiven, Succeeded
<1>4. CASE Session
  <2>1. exit = "running" /\ (exit' = exit \/ (pc' = "done" /\ exit' \in {"success", "io_error"}))
    BY <1>4 DEF Session, ExitWith
  <2>2. Odd = {} /\ \A f \in Fields : options[f] = LastGiven(f)
    BY <2>1 DEF ParseInv, ParsedAsGiven
  <2>3. ParsedAsGiven'
    BY <1>1, <1>2, <2>1, <2>2 DEF ParsedAsGiven, Succeeded
  <2> QED
    BY <1>1, <2>1, <2>3 DEF ParseInv
<1> QED
  BY <1>3, <1>4 DEF Client, ClientSend, vars, processVars

LEMMA ParseInit == ASSUME ProcessInit PROVE ParseInv
<1>1. given \in CommandLines /\ Len(given) \in Nat
  BY LineCut DEF ProcessInit
<1>2. args = Rest(given, 0)
  <2>1. From(given, 0) = given
    <3>1. given \in Seq(Setting)
      BY <1>1, LineCut, Zenon
    <3>2. SubSeq(given, 1, Len(given)) = given
      BY <3>1, SubSeqFull
    <3>3. 0 + 1 = 1
      OBVIOUS
    <3> QED
      BY <3>2, <3>3 DEF From
  <2> QED
    BY <2>1 DEF ProcessInit, Rest, WordsOf
<1>3. options = [f \in Fields |-> ValueAfter(given, 0, f)]
  <2>1. Default = [f \in Fields |-> Default[f]]
    BY DEF Default, Fields, Accepted
  <2>2. \A f \in Fields : ValueAfter(given, 0, f) = Default[f]
    BY ValueStep
  <2> QED
    BY <2>1, <2>2, Zenon DEF ProcessInit
<1>4. ParsedUpTo(0)
  BY <1>2, <1>3 DEF ParsedUpTo
<1>5. ParsedAsGiven
  BY DEF ParsedAsGiven, ProcessInit, Succeeded
<1> QED
  BY <1>1, <1>4, <1>5 DEF ParseInv, ProcessInit, Init

(* main.rs:119-156: whatever a line says, the process runs only on options it     *)
(* accepts, with the value given last for each, and otherwise quits the way the   *)
(* first other setting tells it to.                                              *)
THEOREM ParsesAsGiven == ProcessSpec => []ParsedAsGiven
<1>1. ProcessInit => ParseInv
  BY ParseInit
<1>2. ParseInv /\ [ProcessNext]_<<vars, processVars>> => ParseInv'
  BY ParseFlagKept, ParseOptionKept, RunKept, ParseRestKept DEF ProcessNext
<1>3. ParseInv => ParsedAsGiven
  BY DEF ParseInv
<1> QED
  BY <1>1, <1>2, <1>3, PTL DEF ProcessSpec
================================================================================
