--------------------------- MODULE EbpfWindowProofs ----------------------------
(* End marks and windows of EbpfSession.  No end mark is lost or applied twice,  *)
(* and a scope takes effect at once, whatever the order of the marks.  With one  *)
(* call at a time (Overlap = FALSE) an end status answers the mark that asked    *)
(* for it, and an open window keeps the events captured in it.                   *)
EXTENDS EbpfSessionProofs, FiniteSetTheorems

--------------------------------------------------------------------------------
(* Every end mark is applied once.                                               *)

EndLinesOf(q) == {i \in DOMAIN q : q[i].msg = "end"}
MarksRead     == {m \in sent : m.op = "end" /\ ~Contains(stdin, m)}

(* Between two passes no end mark is in hand, so that taking the queue drops none. *)
EndsInv ==
  /\ IsFiniteSet(sent)
  /\ mpc \notin {"apply", "end"} => ends = <<>>
  /\ EveryEndOnce

(* The library's facts about finite sets, for the end lines of a queue.          *)
LEMMA EndLinesFinite ==
  ASSUME NEW q \in Seq(Line)
  PROVE  IsFiniteSet(EndLinesOf(q)) /\ Cardinality(EndLinesOf(q)) \in Nat
<1>1. EndLinesOf(q) \subseteq 1..Len(q) /\ Len(q) \in Nat
  BY DEF EndLinesOf
<1>2. IsFiniteSet(1..Len(q))
  BY <1>1, FS_Interval
<1>3. IsFiniteSet(EndLinesOf(q))
  BY <1>1, <1>2, FS_Subset
<1> QED
  BY <1>3, FS_CardinalityType

LEMMA EndLineCounts ==
  ASSUME NEW q \in Seq(Line), NEW l \in Line
  PROVE  Cardinality(EndLinesOf(Append(q, l))) = Cardinality(EndLinesOf(q)) + IF l.msg = "end" THEN 1 ELSE 0
<1> DEFINE r == Append(q, l)
           n == Len(q) + 1
<1>1. /\ Len(q) \in Nat /\ DOMAIN q = 1..Len(q) /\ DOMAIN r = 1..n
      /\ r[n] = l /\ \A i \in 1..Len(q) : r[i] = q[i]
  OBVIOUS
<1>2. n \notin EndLinesOf(q) /\ EndLinesOf(q) \subseteq 1..Len(q)
  BY <1>1 DEF EndLinesOf
<1>3. IsFiniteSet(EndLinesOf(q)) /\ Cardinality(EndLinesOf(q)) \in Nat
  BY EndLinesFinite
<1> HIDE DEF r
<1>4. CASE l.msg = "end"
  <2>1. EndLinesOf(r) = EndLinesOf(q) \cup {n}
    BY <1>1, <1>4 DEF EndLinesOf
  <2>2. Cardinality(EndLinesOf(q) \cup {n}) = Cardinality(EndLinesOf(q)) + 1
    BY <1>2, <1>3, FS_AddElement
  <2> QED
    BY <1>4, <2>1, <2>2 DEF r
<1>5. CASE l.msg # "end"
  <2>1. EndLinesOf(r) = EndLinesOf(q)
    BY <1>1, <1>5 DEF EndLinesOf
  <2> QED
    BY <1>3, <1>5, <2>1 DEF r
<1> QED
  BY <1>4, <1>5

(* The count behind EveryEndOnce, in natural numbers.                            *)
LEMMA EndCountTypes ==
  ASSUME TypeOK, IsFiniteSet(sent)
  PROVE  /\ EndLines \in Nat /\ Len(ends) \in Nat /\ Len(pending_ends) \in Nat
         /\ EndLines = Cardinality(EndLinesOf(stdout))
         /\ EndsRead = Cardinality(MarksRead) /\ IsFiniteSet(MarksRead) /\ EndsRead \in Nat
<1>1. IsFiniteSet(MarksRead) /\ Cardinality(MarksRead) \in Nat
  <2>1. MarksRead \subseteq sent
    BY DEF MarksRead
  <2> QED
    BY <2>1, FS_Subset, FS_CardinalityType
<1>2. stdout \in Seq(Line) /\ Len(ends) \in Nat /\ Len(pending_ends) \in Nat
  BY DEF TypeOK, SidecarTypeOK
<1>3. Cardinality(EndLinesOf(stdout)) \in Nat
  BY <1>2, EndLinesFinite
<1> QED
  BY <1>1, <1>2, <1>3 DEF EndLines, EndLinesOf, EndsRead, MarksRead

(* Reading a mark leaves every other one on stdin.                               *)
LEMMA ReadMark ==
  ASSUME TypeOK, MarksInOrder, stdin # <<>>, stdin' = Tail(stdin)
  PROVE  /\ \A x : Contains(stdin, x) <=> Contains(stdin', x) \/ x = Head(stdin)
         /\ Head(stdin) \in sent /\ Contains(stdin, Head(stdin)) /\ ~Contains(stdin', Head(stdin))
<1>0. stdin \in Seq(Control)
  BY DEF TypeOK, SidecarTypeOK
<1>1. \A x : Contains(stdin, x) <=> Contains(stdin', x) \/ x = Head(stdin)
  BY <1>0, TailContains
<1>2. Head(stdin) \in sent
  BY <1>0 DEF MarksInOrder
<1>3. /\ Len(stdin) \in Nat \ {0} /\ Len(stdin') = Len(stdin) - 1 /\ Head(stdin) = stdin[1]
      /\ \A i \in 1..Len(stdin') : stdin'[i] = stdin[i + 1] /\ i + 1 \in DOMAIN stdin
      /\ 1 \in DOMAIN stdin
  BY <1>0
<1>4. ~Contains(stdin', Head(stdin))
  BY <1>3 DEF MarksInOrder, Contains
<1> QED
  BY <1>1, <1>2, <1>4

(* Writing a mark reads none; reading an end mark queues it.                     *)
LEMMA MarksReadSteps ==
  ASSUME TypeOK, MarksInOrder
  PROVE  /\ \A m \in Messages : ClientSend(m) => MarksRead' = MarksRead
         /\ ControlThread /\ ~ReadEnd => MarksRead' = MarksRead
         /\ ControlThread /\ ReadEnd =>
              MarksRead' = MarksRead \cup {Head(stdin)} /\ Head(stdin) \notin MarksRead
         /\ UNCHANGED <<stdin, sent>> => MarksRead' = MarksRead
<1>0. stdin \in Seq(Control)
  BY DEF TypeOK, SidecarTypeOK
<1>1. ASSUME NEW m \in Messages, ClientSend(m) PROVE MarksRead' = MarksRead
  <2>1. m \notin sent /\ sent' = sent \cup {m} /\ stdin' = Append(stdin, m) /\ m \in Control
    BY <1>1, SessionAssumption DEF ClientSend
  <2>2. \A x : Contains(stdin', x) <=> Contains(stdin, x) \/ x = m
    BY <1>0, <2>1, AppendContains
  <2> QED
    BY <2>1, <2>2 DEF MarksRead
<1>3. ASSUME ControlThread, ~ReadEnd PROVE MarksRead' = MarksRead
  <2>1. CASE WriteStatus
    BY <1>3, <2>1 DEF ControlThread, WriteStatus, MarksRead
  <2>2. CASE ~WriteStatus
    <3>1. stdin # <<>> /\ stdin' = Tail(stdin) /\ sent' = sent /\ Head(stdin).op # "end"
      BY <1>3, <2>2 DEF ControlThread, ControlStep, ReadLine, ReadScope, ReadBegin, ReadIgnored, ReadShutdown
    <3> QED
      BY <3>1, ReadMark DEF MarksRead
  <2> QED
    BY <2>1, <2>2
<1>4. ASSUME ControlThread, ReadEnd
      PROVE  MarksRead' = MarksRead \cup {Head(stdin)} /\ Head(stdin) \notin MarksRead
  <2>1. stdin # <<>> /\ stdin' = Tail(stdin) /\ sent' = sent /\ Head(stdin).op = "end"
    BY <1>4 DEF ControlThread, ReadEnd, ReadLine
  <2> QED
    BY <2>1, ReadMark DEF MarksRead
<1> QED
  BY <1>1, <1>3, <1>4 DEF MarksRead

LEMMA EndsStep ==
  ASSUME TypeOK, TypeOK', InHand, LedgerInv, EndsInv, [Next]_vars
  PROVE  EndsInv'
<1>1. IsFiniteSet(sent')
  <2>1. sent' = sent \/ \E m \in Messages : sent' = sent \cup {m}
    BY DEF Next, vars, ClientSend, ControlThread, MainThread, Kernel, Capture, Commit, Regroup
  <2> QED
    BY <2>1, FS_AddElement DEF EndsInv
<1>2. mpc' \notin {"apply", "end"} => ends' = <<>>
  <2>1. CASE MainThread
    BY <2>1 DEF EndsInv, MainThread, MainStep, Goto, WriteReady, BeginPass, ExitLoop, NextRecord, KeepRecord,
                SkipRecord, WriteEvent, EndDrain, TakeEnds, ApplyEnd, WriteEnd, NextPass
  <2>2. CASE UNCHANGED mainVars
    BY <2>2 DEF EndsInv, mainVars
  <2> QED
    BY <2>1, <2>2 DEF Next, vars, ClientSend, ControlThread, ControlStep, ReadLine, ReadScope, ReadBegin,
       ReadEnd, ReadIgnored, ReadShutdown, WriteStatus, Kernel, Capture, Commit, Regroup
<1>3. /\ EndLines \in Nat /\ Len(ends) \in Nat /\ Len(pending_ends) \in Nat
      /\ EndLines = Cardinality(EndLinesOf(stdout)) /\ EndsRead = Cardinality(MarksRead)
      /\ IsFiniteSet(MarksRead) /\ EndsRead \in Nat
      /\ EndLines' = Cardinality(EndLinesOf(stdout')) /\ EndsRead' = Cardinality(MarksRead')
      /\ EndLines + Len(ends) + Len(pending_ends) = EndsRead
  <2>1. EndLines' = Cardinality(EndLinesOf(stdout')) /\ EndsRead' = Cardinality(MarksRead')
    BY DEF EndLines, EndLinesOf, EndsRead, MarksRead
  <2> QED
    BY <2>1, EndCountTypes DEF EndsInv, EveryEndOnce
<1>4. CASE UNCHANGED <<stdout, ends, pending_ends>> /\ MarksRead' = MarksRead
  BY <1>1, <1>2, <1>3, <1>4 DEF EndsInv, EveryEndOnce
<1>5. ASSUME NEW l \in Line, stdout' = Append(stdout, l), l.msg # "end",
             UNCHANGED <<ends, pending_ends>>, MarksRead' = MarksRead
      PROVE  EndsInv'
  <2>1. stdout \in Seq(Line)
    BY DEF TypeOK, SidecarTypeOK
  <2>2. Cardinality(EndLinesOf(stdout')) = Cardinality(EndLinesOf(stdout)) + 0
    BY <1>5, <2>1, EndLineCounts
  <2> QED
    BY <1>1, <1>2, <1>3, <1>5, <2>2 DEF EndsInv, EveryEndOnce
<1>6. CASE ControlThread /\ ReadEnd
  <2>1. Len(pending_ends') = Len(pending_ends) + 1 /\ UNCHANGED <<stdout, ends>>
    BY <1>6 DEF ReadEnd, ReadLine, mainVars, TypeOK, SidecarTypeOK
  <2>2. EndsRead' = EndsRead + 1
    <3>1. MarksRead' = MarksRead \cup {Head(stdin)} /\ Head(stdin) \notin MarksRead
      BY <1>6, MarksReadSteps DEF LedgerInv
    <3>2. Cardinality(MarksRead \cup {Head(stdin)}) = Cardinality(MarksRead) + 1
      BY <1>3, <3>1, FS_AddElement
    <3> QED
      BY <1>3, <3>1, <3>2
  <2> QED
    BY <1>1, <1>2, <1>3, <2>1, <2>2 DEF EndsInv, EveryEndOnce
<1>7. CASE ControlThread /\ ~ReadEnd
  <2>1. MarksRead' = MarksRead /\ UNCHANGED <<ends, pending_ends>>
    BY <1>7, MarksReadSteps DEF LedgerInv, ControlThread, ControlStep, ReadLine, ReadScope, ReadBegin,
       ReadIgnored, ReadShutdown, WriteStatus, state, mainVars
  <2>2. stdout' = stdout \/ (stdout' = Append(stdout, status) /\ status \in Line /\ status.msg # "end")
    BY <1>7 DEF ControlThread, ControlStep, ReadLine, ReadScope, ReadBegin, ReadIgnored, ReadShutdown,
       WriteStatus, Emit, TypeOK, SidecarTypeOK, LedgerInv, StatusKind, ReadyLine, ScopeLine, BeginLine, Status
  <2> QED
    BY <1>4, <1>5, <2>1, <2>2
<1>8. CASE MainThread
  <2> USE DEF MainThread
  <2>1. MarksRead' = MarksRead
    BY <1>8, MarksReadSteps DEF LedgerInv, MainStep, controlVars, WriteReady, BeginPass, ExitLoop, NextRecord,
       KeepRecord, SkipRecord, WriteEvent, EndDrain, TakeEnds, ApplyEnd, WriteEnd, NextPass
  <2>2. CASE WriteReady
    BY <1>5, <2>1, <2>2, LineTypes DEF WriteReady, Emit, state, ReadyLine, Status
  <2>3. CASE WriteEvent
    <3>1. Head(ring) \in Record
      BY <2>3, ReleaseTypes DEF WriteEvent, Goto, TypeOK
    <3>2. EventLine(snap.bucket, snap.call, Head(ring).tag) \in Line
      BY <3>1, LineTypes DEF Record, Snap, TypeOK, SidecarTypeOK
    <3>3. EventLine(snap.bucket, snap.call, Head(ring).tag).msg # "end"
      BY DEF EventLine
    <3> QED
      BY <1>5, <2>1, <2>3, <3>2, <3>3 DEF WriteEvent, Emit, state
  <2>4. CASE TakeEnds
    <3>1. Len(ends) = 0 /\ Len(pending_ends') = 0 /\ Len(ends') = Len(pending_ends) /\ stdout' = stdout
      BY <2>4 DEF TakeEnds, Goto, EndsInv
    <3> QED
      BY <1>1, <1>2, <1>3, <2>1, <3>1 DEF EndsInv, EveryEndOnce
  <2>5. CASE WriteEnd
    <3>1. Len(ends') = Len(ends) - 1 /\ pending_ends' = pending_ends
      BY <2>5, SeqTypes DEF WriteEnd, Goto, InHand, TypeOK, SidecarTypeOK, state
    <3>2. EndLine(ended) \in Line /\ EndLine(ended).msg = "end" /\ stdout' = Append(stdout, EndLine(ended))
      BY <2>5, LineTypes DEF WriteEnd, Emit, EndLine, Status, TypeOK, SidecarTypeOK
    <3>3. EndLines' = EndLines + 1
      BY <1>3, <3>2, EndLineCounts DEF TypeOK, SidecarTypeOK
    <3> QED
      BY <1>1, <1>2, <1>3, <2>1, <3>1, <3>3 DEF EndsInv, EveryEndOnce
  <2>6. CASE UNCHANGED <<stdout, ends, pending_ends>>
    BY <1>4, <2>1, <2>6
  <2> QED
    BY <1>8, <2>2, <2>3, <2>4, <2>5, <2>6 DEF MainStep, state, BeginPass, ExitLoop, NextRecord,
       KeepRecord, SkipRecord, EndDrain, ApplyEnd, NextPass
<1>9. CASE \E m \in Messages : ClientSend(m)
  BY <1>4, <1>9, MarksReadSteps DEF LedgerInv, ClientSend, state, mainVars
<1>10. CASE Kernel \/ UNCHANGED vars
  BY <1>4, <1>10, MarksReadSteps
     DEF LedgerInv, Kernel, Capture, Commit, Regroup, vars, controlVars, state, mainVars
<1> QED
  BY <1>6, <1>7, <1>8, <1>9, <1>10 DEF Next

(* No end mark is lost or applied twice between the control thread that queues   *)
(* it and the main loop that takes the queue, whatever the order of the marks.   *)
THEOREM NoEndLost == Spec => []EveryEndOnce
<1>1. Init => EndsInv
  <2> SUFFICES ASSUME Init PROVE EndsInv
    OBVIOUS
  <2>1. EndLinesOf(stdout) = {} /\ MarksRead = {} /\ Len(ends) = 0 /\ Len(pending_ends) = 0
        /\ sent = {} /\ ends = <<>>
    BY DEF Init, SidecarInit, EndLinesOf, MarksRead
  <2> QED
    BY <2>1, FS_EmptySet DEF EndsInv, EveryEndOnce, EndLines, EndsRead, EndLinesOf, MarksRead
<1>2. TypeOK /\ TypeOK' /\ InHand /\ LedgerInv /\ EndsInv /\ [Next]_vars => EndsInv'
  BY EndsStep
<1> QED
  BY <1>1, <1>2, TypeInvariant, LedgerInvariant, PTL DEF Spec, EndsInv

--------------------------------------------------------------------------------
(* A scope takes effect for all events but at most one.                          *)

(* A startup event behind a scope line is the only one: every record taken since  *)
(* the scope was read is attributed to a call or is ambient.                     *)
LateStartup(q) ==
  \E i, j \in DOMAIN q : i < j /\ q[i].msg = "scope" /\ q[j].msg = "event" /\ q[j].bucket = "startup"
HasScope(q) == \E i \in DOMAIN q : q[i].msg = "scope"
StartupInv ==
  /\ HasScope(stdout) \/ status.msg = "scope" => scoped
  /\ LateStartup(stdout) /\ mpc \in {"filter", "write"} => snap.bucket # "startup"
  /\ OneLateStartup

(* Writing a line after the others.                                              *)
LEMMA LateStartupAppend ==
  ASSUME NEW q \in Seq(Line), NEW l \in Line
  PROVE  /\ HasScope(Append(q, l)) <=> HasScope(q) \/ l.msg = "scope"
         /\ LateStartup(Append(q, l)) =>
              LateStartup(q) \/ (HasScope(q) /\ l.msg = "event" /\ l.bucket = "startup")
<1> DEFINE r == Append(q, l)
           n == Len(q) + 1
<1>1. /\ Len(q) \in Nat /\ DOMAIN q = 1..Len(q) /\ DOMAIN r = 1..n
      /\ r[n] = l /\ \A i \in 1..Len(q) : r[i] = q[i]
  OBVIOUS
<1> HIDE DEF r
<1>2. HasScope(r) <=> HasScope(q) \/ l.msg = "scope"
  BY <1>1 DEF HasScope
<1>3. LateStartup(r) => LateStartup(q) \/ (HasScope(q) /\ l.msg = "event" /\ l.bucket = "startup")
  BY <1>1 DEF LateStartup, HasScope
<1> QED
  BY <1>2, <1>3 DEF r

LEMMA AppendLateStartup ==
  ASSUME stdout \in Seq(Line), OneLateStartup, NEW l \in Line, stdout' = Append(stdout, l),
         LateStartup(stdout) /\ l.msg = "event" => l.bucket # "startup"
  PROVE  OneLateStartup'
<1>1. /\ Len(stdout) \in Nat /\ DOMAIN stdout = 1..Len(stdout) /\ DOMAIN stdout' = 1..(Len(stdout) + 1)
      /\ stdout'[Len(stdout) + 1] = l /\ \A i \in 1..Len(stdout) : stdout'[i] = stdout[i]
  OBVIOUS
<1>2. SUFFICES ASSUME NEW i \in DOMAIN stdout', NEW j \in DOMAIN stdout', NEW k \in DOMAIN stdout',
                      i < j, j < k, stdout'[i].msg = "scope", stdout'[j].msg = "event",
                      stdout'[k].msg = "event", stdout'[j].bucket = "startup", stdout'[k].bucket = "startup"
               PROVE  FALSE
  BY DEF OneLateStartup
<1>3. CASE k \in 1..Len(stdout)
  <2>1. i \in DOMAIN stdout /\ j \in DOMAIN stdout /\ k \in DOMAIN stdout
    BY <1>1, <1>2, <1>3
  <2>2. stdout'[i] = stdout[i] /\ stdout'[j] = stdout[j] /\ stdout'[k] = stdout[k]
    BY <1>1, <2>1
  <2> QED
    BY <1>2, <2>1, <2>2 DEF OneLateStartup
<1>4. CASE k = Len(stdout) + 1
  <2>1. i \in DOMAIN stdout /\ j \in DOMAIN stdout /\ stdout'[i] = stdout[i] /\ stdout'[j] = stdout[j]
    BY <1>1, <1>2, <1>4
  <2>2. LateStartup(stdout)
    BY <1>2, <2>1 DEF LateStartup
  <2> QED
    BY <1>1, <1>2, <1>4, <2>2
<1> QED
  BY <1>1, <1>3, <1>4

LEMMA StartupStep ==
  ASSUME TypeOK, InHand, StatusKind, StartupInv, [Next]_vars
  PROVE  StartupInv'
<1>0. stdout \in Seq(Line) /\ status \in Line /\ scoped \in BOOLEAN
  BY DEF TypeOK, SidecarTypeOK
<1>1. CASE UNCHANGED <<stdout, scoped, status, mpc, snap>>
  BY <1>1 DEF StartupInv, HasScope, LateStartup, OneLateStartup
<1>2. CASE ControlThread /\ WriteStatus
  <2>1. stdout' = Append(stdout, status) /\ status' = ReadyLine /\ UNCHANGED <<scoped, mpc, snap>>
    BY <1>2 DEF WriteStatus, Emit, state, mainVars
  <2>2. ReadyLine.msg = "ready" /\ status.msg # "event"
    BY DEF StatusKind, ReadyLine, ScopeLine, BeginLine, Status
  <2>3. OneLateStartup'
    BY <1>0, <2>1, <2>2, AppendLateStartup DEF StartupInv
  <2>4. (HasScope(stdout') => scoped) /\ (LateStartup(stdout') => LateStartup(stdout))
    BY <1>0, <2>1, <2>2, LateStartupAppend DEF StartupInv
  <2> QED
    BY <2>1, <2>2, <2>3, <2>4 DEF StartupInv
<1>3. CASE ControlThread /\ ReadSomething
  <2>1. UNCHANGED <<stdout, mpc, snap>>
    BY <1>3 DEF ReadSomething, ReadScope, ReadBegin, ReadEnd, ReadIgnored, ReadShutdown, ReadLine, mainVars
  <2>2. /\ scoped => scoped'
        /\ status'.msg = "scope" => status.msg = "scope" \/ scoped'
    BY <1>3 DEF ReadSomething, ReadScope, ReadBegin, ReadEnd, ReadIgnored, ReadShutdown, state,
                BeginLine, Status
  <2> QED
    BY <2>1, <2>2 DEF StartupInv, HasScope, LateStartup, OneLateStartup
<1>4. CASE MainThread
  <2>1. UNCHANGED <<scoped, status>>
    BY <1>4 DEF MainThread, MainStep, controlVars, state, WriteReady, BeginPass, ExitLoop, NextRecord,
       KeepRecord, SkipRecord, WriteEvent, EndDrain, TakeEnds, ApplyEnd, WriteEnd, NextPass
  <2>2. ASSUME NEW l \in Line, stdout' = Append(stdout, l), mpc' \notin {"filter", "write"},
               l.msg # "scope", LateStartup(stdout) /\ l.msg = "event" => l.bucket # "startup"
        PROVE  StartupInv'
    <3>1. OneLateStartup'
      BY <1>0, <2>2, AppendLateStartup DEF StartupInv
    <3>2. HasScope(stdout') => HasScope(stdout)
      BY <1>0, <2>2, LateStartupAppend
    <3> QED
      BY <2>1, <2>2, <3>1, <3>2 DEF StartupInv
  <2>3. CASE WriteReady
    BY <2>2, <2>3, LineTypes DEF WriteReady, Emit, Goto, ReadyLine, Status
  <2>4. CASE WriteEvent
    <3>1. Head(ring) \in Record
      BY <2>4, ReleaseTypes DEF WriteEvent, Goto, TypeOK
    <3>2. PICK l \in Line : l = EventLine(snap.bucket, snap.call, Head(ring).tag)
      BY <3>1, LineTypes DEF Record, Snap, TypeOK, SidecarTypeOK
    <3>3. l.msg = "event" /\ l.bucket = snap.bucket
      BY <3>2 DEF EventLine
    <3>4. stdout' = Append(stdout, l) /\ mpc = "write" /\ mpc' = "drain"
      BY <2>4, <3>2 DEF WriteEvent, Emit, Goto
    <3>5. LateStartup(stdout) => snap.bucket # "startup"
      BY <3>4 DEF StartupInv
    <3> QED
      BY <2>2, <3>3, <3>4, <3>5
  <2>5. CASE WriteEnd
    <3>1. PICK l \in Line : l = EndLine(ended)
      BY LineTypes DEF TypeOK, SidecarTypeOK
    <3>2. l.msg = "end"
      BY <3>1 DEF EndLine, Status
    <3> QED
      BY <2>2, <2>5, <3>1, <3>2 DEF WriteEnd, Emit, Goto
  <2>6. CASE NextRecord
    <3>1. stdout' = stdout /\ snap'.bucket = Bucket
      BY <2>6 DEF NextRecord
    <3>2. LateStartup(stdout) => scoped
      BY DEF StartupInv, LateStartup, HasScope
    <3> QED
      BY <2>1, <3>1, <3>2 DEF StartupInv, Bucket, HasScope, LateStartup, OneLateStartup
  <2>7. CASE stdout' = stdout /\ (mpc' \in {"filter", "write"} => mpc \in {"filter", "write"} /\ snap' = snap)
    BY <2>1, <2>7 DEF StartupInv, HasScope, LateStartup, OneLateStartup
  <2> QED
    BY <1>4, <2>3, <2>4, <2>5, <2>6, <2>7 DEF MainThread, MainStep, Goto, BeginPass, ExitLoop,
       KeepRecord, SkipRecord, EndDrain, TakeEnds, ApplyEnd, NextPass
<1>5. CASE (\E m \in Messages : ClientSend(m)) \/ Kernel \/ UNCHANGED vars
  BY <1>1, <1>5 DEF ClientSend, Kernel, Capture, Commit, Regroup, vars, controlVars, state, mainVars
<1> QED
  BY <1>2, <1>3, <1>4, <1>5 DEF Next, ControlThread, ControlStep, ReadSomething

(* A scope takes effect for all events but at most one, the record the main loop  *)
(* held when the scope was read, whatever the order of the marks.                 *)
THEOREM LateStartupOnce == Spec => []OneLateStartup
<1>1. Init => StartupInv
  BY DEF Init, SidecarInit, StartupInv, HasScope, LateStartup, OneLateStartup, ReadyLine, Status
<1>2. TypeOK /\ InHand /\ LedgerInv /\ StartupInv /\ [Next]_vars => StartupInv'
  BY StartupStep DEF LedgerInv
<1> QED
  BY <1>1, <1>2, TypeInvariant, LedgerInvariant, PTL DEF Spec, StartupInv

--------------------------------------------------------------------------------
(* One call at a time.                                                           *)

(* What the client's discipline makes of the marks: a call that is ended was      *)
(* confirmed, one that is confirmed was begun, one that is answered was ended.    *)
SerialMarks ==
  /\ \A m \in sent : m.op \in {"begin", "end"} => m.arg # NoCall
  /\ \A c \in Calls : End(c) \in sent => Confirmed(c)
  /\ \A c \in MaybeCall : status = BeginLine(c) \/ Confirmed(c) => c \in BegunCalls
  /\ \A c \in Calls : Answered(c) => End(c) \in sent

(* Two calls that were begun and are not answered are the same call.             *)
OneAtATime ==
  \A c, d \in Calls : Begin(c) \in sent /\ Begin(d) \in sent /\ ~Answered(c) /\ ~Answered(d) => c = d

(* An end mark in the sidecar asks for the call that is open; there is one end    *)
(* mark at most, on stdin, queued or in hand.                                    *)
Asked(q) == \A i \in DOMAIN q : q[i] \in Calls /\ End(q[i]) \in sent /\ ~Answered(q[i])
OneEnd ==
  /\ Asked(ends) /\ Asked(pending_ends) /\ Len(ends) + Len(pending_ends) <= 1
  /\ \A c \in Calls : Contains(stdin, End(c)) => ends = <<>> /\ pending_ends = <<>> /\ ~Answered(c)

(* A call that was begun is active until its end mark is applied.                *)
HeldUntilEnd == \A c \in BegunCalls : ~Answered(c) /\ mpc # "end" => active_call = c

SerialInv == SerialMarks /\ OneAtATime /\ OneEnd /\ HeldUntilEnd /\ EndNamesItsMark

LEMMA WrittenLine ==
  ASSUME TypeOK, NEW l \in Line, stdout' = Append(stdout, l)
  PROVE  \A c : /\ Confirmed(c)' <=> Confirmed(c) \/ l = BeginLine(c)
                /\ Answered(c)' <=> Answered(c) \/ l = EndLine(c)
<1>1. \A x : Contains(stdout', x) <=> Contains(stdout, x) \/ x = l
  BY AppendContains DEF TypeOK, SidecarTypeOK
<1> QED
  BY <1>1 DEF Confirmed, Answered

(* The client writes the begin mark of a call when all others are answered, the   *)
(* end mark of a call when that call is confirmed.                               *)
LEMMA SendKeepsSerial ==
  ASSUME TypeOK, LedgerInv, SerialInv, Overlap = FALSE, NEW m \in Messages, ClientSend(m)
  PROVE  SerialInv'
<1>1. /\ m \in Control /\ m \notin sent /\ sent' = sent \cup {m} /\ stdin' = Append(stdin, m)
      /\ Serial(m)
      /\ UNCHANGED <<stdout, status, active_call, pending_ends, ends, ended, mpc>>
  BY SessionAssumption DEF ClientSend, state, mainVars
<1>2. \A c : (Confirmed(c)' <=> Confirmed(c)) /\ (Answered(c)' <=> Answered(c))
  BY <1>1 DEF Confirmed, Answered
<1>3. \A x : Contains(stdin', x) <=> Contains(stdin, x) \/ x = m
  BY <1>1, AppendContains DEF TypeOK, SidecarTypeOK
<1>4. BegunCalls' = BegunCalls
  BY <1>1, <1>3, MarksDiffer DEF BegunCalls
<1>5. m.op \in {"begin", "end"} => m.arg \in Calls /\ m.arg # NoCall
  <2>1. CASE m.op = "begin"
    BY <1>1, <2>1, ControlTypes DEF Serial, MaybeCall
  <2>2. CASE m.op = "end"
    <3>1. m.arg \in MaybeCall /\ Confirmed(m.arg)
      BY <1>1, <2>2, ControlTypes DEF Serial
    <3>2. m.arg \in BegunCalls
      BY <3>1 DEF SerialInv, SerialMarks
    <3> QED
      BY <3>2, ProtocolAssumption DEF BegunCalls
  <2> QED
    BY <2>1, <2>2
<1>6. m.op = "end" => /\ m = End(m.arg) /\ m.arg \in BegunCalls /\ ~Answered(m.arg)
                      /\ Confirmed(m.arg)
  <2> SUFFICES ASSUME m.op = "end"
               PROVE  m = End(m.arg) /\ m.arg \in BegunCalls /\ ~Answered(m.arg) /\ Confirmed(m.arg)
    OBVIOUS
  <2>1. m = End(m.arg) /\ Confirmed(m.arg) /\ m.arg \in Calls /\ m.arg \in MaybeCall
    BY <1>1, <1>5, MarksDiffer DEF Serial, MaybeCall
  <2>2. m.arg \in BegunCalls
    BY <2>1 DEF SerialInv, SerialMarks
  <2>3. ~Answered(m.arg)
    <3>1. End(m.arg) \notin sent
      BY <1>1, <2>1
    <3> QED
      BY <2>1, <3>1 DEF SerialInv, SerialMarks
  <2> QED
    BY <2>1, <2>2, <2>3
<1>7. SerialMarks'
  <2>1. ASSUME NEW k \in sent', k.op \in {"begin", "end"} PROVE k.arg # NoCall
    BY <1>1, <1>5, <2>1 DEF SerialInv, SerialMarks
  <2>2. ASSUME NEW c \in Calls, End(c) \in sent' PROVE Confirmed(c)
    BY <1>1, <1>6, <2>2 DEF SerialInv, SerialMarks, End
  <2>3. /\ \A c \in MaybeCall : status = BeginLine(c) \/ Confirmed(c) => c \in BegunCalls
        /\ \A c \in Calls : Answered(c) => End(c) \in sent'
    BY <1>1 DEF SerialInv, SerialMarks
  <2> QED
    BY <1>1, <1>2, <1>4, <2>1, <2>2, <2>3 DEF SerialMarks
<1>8. OneAtATime'
  BY <1>1, <1>2, MarksDiffer DEF SerialInv, OneAtATime, Serial, Begin
<1>9. OneEnd'
  <2>1. Asked(ends)' /\ Asked(pending_ends)' /\ Len(ends') + Len(pending_ends') <= 1
    BY <1>1, <1>2 DEF SerialInv, OneEnd, Asked
  <2>2. ASSUME NEW c \in Calls, Contains(stdin', End(c))
        PROVE  ends = <<>> /\ pending_ends = <<>> /\ ~Answered(c)
    <3>1. CASE Contains(stdin, End(c))
      BY <3>1 DEF SerialInv, OneEnd
    <3>2. CASE End(c) = m
      <4>1. m.op = "end" /\ m.arg = c /\ c \in BegunCalls /\ ~Answered(c)
        BY <1>6, <3>2 DEF End
      <4>2. ASSUME NEW d \in Calls, End(d) \in sent, ~Answered(d) PROVE FALSE
        <5>1. Begin(d) \in sent /\ Begin(c) \in sent
          BY <4>1, <4>2 DEF SerialInv, SerialMarks, BegunCalls, MaybeCall
        <5>2. d = c
          BY <4>1, <4>2, <5>1 DEF SerialInv, OneAtATime
        <5> QED
          BY <1>1, <3>2, <4>2, <5>2
      <4>3. ends \in Seq(MaybeCall) /\ pending_ends \in Seq(MaybeCall)
        BY DEF TypeOK, SidecarTypeOK
      <4>4. ends = <<>> /\ pending_ends = <<>>
        BY <4>2, <4>3 DEF SerialInv, OneEnd, Asked
      <4> QED
        BY <4>1, <4>4
    <3> QED
      BY <1>3, <2>2, <3>1, <3>2
  <2> QED
    BY <1>1, <1>2, <2>1, <2>2 DEF OneEnd
<1> QED
  BY <1>1, <1>2, <1>4, <1>7, <1>8, <1>9 DEF SerialInv, HeldUntilEnd, EndNamesItsMark

(* A begin mark that is read is of the only open call, an end mark too.          *)
LEMMA ReadKeepsSerial ==
  ASSUME TypeOK, LedgerInv, SerialInv, ControlThread, ReadSomething
  PROVE  SerialInv'
<1>1. /\ stdin # <<>> /\ stdin' = Tail(stdin)
      /\ UNCHANGED <<sent, stdout, ends, ended, mpc>>
      /\ Head(stdin) \in Control
  BY DEF ControlThread, ReadSomething, ReadScope, ReadBegin, ReadEnd, ReadIgnored, ReadShutdown, ReadLine,
         mainVars, TypeOK, SidecarTypeOK
<1>2. \A c : (Confirmed(c)' <=> Confirmed(c)) /\ (Answered(c)' <=> Answered(c))
  BY <1>1 DEF Confirmed, Answered
<1>3. /\ \A x : Contains(stdin, x) <=> Contains(stdin', x) \/ x = Head(stdin)
      /\ Head(stdin) \in sent /\ Contains(stdin, Head(stdin)) /\ ~Contains(stdin', Head(stdin))
  BY <1>1, ReadMark DEF LedgerInv
<1>4. BegunCalls \subseteq BegunCalls'
  BY <1>1, <1>3 DEF BegunCalls
<1>5. OneAtATime' /\ EndNamesItsMark'
  BY <1>1, <1>2 DEF SerialInv, OneAtATime, EndNamesItsMark
<1>6. CASE ReadBegin
  <2>1. PICK c \in Calls : Head(stdin) = Begin(c)
    <3>1. Head(stdin).op = "begin"
      BY <1>6 DEF ReadBegin, ReadLine
    <3> QED
      BY <1>1, <1>3, <3>1, ControlTypes, MarksDiffer DEF SerialInv, SerialMarks, MaybeCall
  <2>2. active_call' = c /\ status' = BeginLine(c) /\ pending_ends' = pending_ends
    BY <1>6, <2>1 DEF ReadBegin, Begin
  <2>3. BegunCalls' = BegunCalls \cup {c}
    BY <1>1, <1>3, <2>1, MarksDiffer DEF BegunCalls
  <2>4. SerialMarks'
    BY <1>1, <1>2, <2>2, <2>3, LinesDiffer DEF SerialInv, SerialMarks
  <2>5. OneEnd'
    BY <1>1, <1>2, <1>3, <2>2 DEF SerialInv, OneEnd, Asked
  <2>6. HeldUntilEnd'
    <3>1. c \in Calls /\ Begin(c) \in sent
      BY <1>3, <2>1
    <3>2. ASSUME NEW d \in BegunCalls', ~Answered(d), ~Answered(c) PROVE d = c
      BY <1>1, <3>1, <3>2 DEF BegunCalls, SerialInv, OneAtATime
    <3>3. ASSUME Answered(c) PROVE FALSE
      <4>1. c \in BegunCalls
        BY <3>1, <3>3 DEF SerialInv, SerialMarks, MaybeCall
      <4> QED
        BY <1>3, <2>1, <4>1 DEF BegunCalls
    <3> QED
      BY <1>1, <1>2, <2>2, <3>2, <3>3 DEF HeldUntilEnd
  <2> QED
    BY <1>5, <2>4, <2>5, <2>6 DEF SerialInv
<1>7. CASE ReadEnd
  <2>1. PICK c \in Calls : Head(stdin) = End(c)
    <3>1. Head(stdin).op = "end"
      BY <1>7 DEF ReadEnd, ReadLine
    <3> QED
      BY <1>1, <1>3, <3>1, ControlTypes, MarksDiffer DEF SerialInv, SerialMarks, MaybeCall
  <2>2. UNCHANGED <<active_call, status>> /\ pending_ends' = Append(pending_ends, c)
    BY <1>7, <2>1 DEF ReadEnd, End
  <2>3. BegunCalls' = BegunCalls
    BY <1>1, <1>3, <2>1, MarksDiffer DEF BegunCalls
  <2>4. SerialMarks' /\ HeldUntilEnd'
    BY <1>1, <1>2, <2>2, <2>3 DEF SerialInv, SerialMarks, HeldUntilEnd
  <2>5. ends = <<>> /\ pending_ends = <<>> /\ ~Answered(c) /\ End(c) \in sent
    BY <1>3, <2>1 DEF SerialInv, OneEnd
  <2>6. /\ pending_ends' = <<c>> /\ Len(pending_ends') = 1 /\ Len(ends') = 0
        /\ DOMAIN pending_ends' = {1} /\ pending_ends'[1] = c /\ DOMAIN ends' = {}
    BY <1>1, <2>2, <2>5
  <2>7. ASSUME NEW d \in Calls, Contains(stdin', End(d)) PROVE FALSE
    <3>1. Contains(stdin, End(d)) /\ d # c
      BY <1>3, <2>1, <2>7
    <3>2. End(d) \in sent /\ ~Answered(d)
      BY <3>1 DEF SerialInv, OneEnd, LedgerInv, MarksInOrder, Contains
    <3>3. Begin(c) \in sent /\ Begin(d) \in sent
      BY <2>5, <3>2 DEF SerialInv, SerialMarks, BegunCalls, MaybeCall
    <3> QED
      BY <2>5, <3>1, <3>2, <3>3 DEF SerialInv, OneAtATime
  <2>8. OneEnd'
    BY <1>1, <1>2, <2>5, <2>6, <2>7 DEF OneEnd, Asked
  <2> QED
    BY <1>5, <2>4, <2>8 DEF SerialInv
<1>8. CASE ReadScope \/ ReadIgnored \/ ReadShutdown
  <2>1. /\ UNCHANGED <<active_call, pending_ends>> /\ (status' = status \/ status' = ScopeLine)
        /\ Head(stdin).op \notin {"begin", "end"}
    BY <1>8 DEF ReadScope, ReadIgnored, ReadShutdown, ReadLine, state
  <2>2. BegunCalls' = BegunCalls
    BY <1>1, <1>3, <2>1 DEF BegunCalls, Begin
  <2>3. SerialMarks' /\ HeldUntilEnd'
    BY <1>1, <1>2, <2>1, <2>2, LinesDiffer DEF SerialInv, SerialMarks, HeldUntilEnd
  <2>4. OneEnd'
    BY <1>1, <1>2, <1>3, <2>1 DEF SerialInv, OneEnd, Asked
  <2> QED
    BY <1>5, <2>3, <2>4 DEF SerialInv
<1> QED
  BY <1>6, <1>7, <1>8 DEF ReadSomething

(* Confirming or answering a call.                                               *)
LEMMA StatusKeepsSerial ==
  ASSUME TypeOK, StatusKind, SerialInv, ControlThread, WriteStatus
  PROVE  SerialInv'
<1>1. /\ stdout' = Append(stdout, status) /\ status' = ReadyLine /\ status \in Line
      /\ UNCHANGED <<sent, stdin, active_call, pending_ends, ends, ended, mpc>>
  BY DEF ControlThread, WriteStatus, Emit, state, mainVars, TypeOK, SidecarTypeOK
<1>2. \A c : /\ Confirmed(c)' <=> Confirmed(c) \/ status = BeginLine(c)
             /\ Answered(c)' <=> Answered(c)
  <2>1. \A c : status # EndLine(c)
    BY LinesDiffer DEF StatusKind
  <2> QED
    BY <1>1, <2>1, WrittenLine
<1>3. BegunCalls' = BegunCalls
  BY <1>1 DEF BegunCalls
<1>4. SerialMarks'
  BY <1>1, <1>2, <1>3, LinesDiffer DEF SerialInv, SerialMarks
<1>5. OneAtATime' /\ OneEnd' /\ HeldUntilEnd' /\ EndNamesItsMark'
  BY <1>1, <1>2, <1>3 DEF SerialInv, OneAtATime, OneEnd, Asked, HeldUntilEnd, EndNamesItsMark
<1> QED
  BY <1>4, <1>5 DEF SerialInv

(* The end mark that is applied is of the active call, and the end status that is *)
(* written answers the last call that was open.                                  *)
LEMMA MainKeepsSerial ==
  ASSUME TypeOK, InHand, LedgerInv, SerialInv, MainThread
  PROVE  SerialInv'
<1>1. UNCHANGED <<sent, stdin, status>> /\ BegunCalls' = BegunCalls
  <2>1. UNCHANGED <<sent, stdin, status>>
    BY DEF MainThread, MainStep, controlVars, WriteReady, BeginPass, ExitLoop, NextRecord, KeepRecord,
           SkipRecord, WriteEvent, EndDrain, TakeEnds, ApplyEnd, WriteEnd, NextPass
  <2> QED
    BY <2>1 DEF BegunCalls
<1>0. ends \in Seq(MaybeCall) /\ pending_ends \in Seq(MaybeCall)
  BY DEF TypeOK, SidecarTypeOK
<1>2. ASSUME \A c : (Confirmed(c)' <=> Confirmed(c)) /\ (Answered(c)' <=> Answered(c)),
             UNCHANGED <<active_call, pending_ends, ends>>, mpc # "end", mpc' # "end"
      PROVE  SerialInv'
  BY <1>1, <1>2 DEF SerialInv, SerialMarks, OneAtATime, OneEnd, Asked, HeldUntilEnd, EndNamesItsMark
<1>3. stdout' = stdout => \A c : (Confirmed(c)' <=> Confirmed(c)) /\ (Answered(c)' <=> Answered(c))
  BY DEF Confirmed, Answered
<1>4. CASE WriteReady \/ WriteEvent
  <2>1. \E l \in Line : stdout' = Append(stdout, l) /\ l.msg \in {"ready", "event"}
    <3>1. CASE WriteReady
      BY <3>1, LineTypes, LinesDiffer DEF WriteReady, Emit
    <3>2. CASE WriteEvent
      <4>1. Head(ring) \in Record
        BY <3>2, ReleaseTypes DEF WriteEvent, Goto, TypeOK
      <4>2. EventLine(snap.bucket, snap.call, Head(ring).tag) \in Line
        BY <4>1, LineTypes DEF Record, Snap, TypeOK, SidecarTypeOK
      <4> QED
        BY <3>2, <4>2 DEF WriteEvent, Emit, EventLine
    <3> QED
      BY <1>4, <3>1, <3>2
  <2>2. \A c : (Confirmed(c)' <=> Confirmed(c)) /\ (Answered(c)' <=> Answered(c))
    BY <2>1, WrittenLine, LinesDiffer
  <2> QED
    BY <1>2, <1>4, <2>2 DEF WriteReady, WriteEvent, Goto, state
<1>5. CASE BeginPass \/ ExitLoop \/ NextRecord \/ KeepRecord \/ SkipRecord \/ EndDrain \/ NextPass
  BY <1>2, <1>3, <1>5 DEF BeginPass, ExitLoop, NextRecord, KeepRecord, SkipRecord, EndDrain, NextPass, Goto, state
<1>6. CASE TakeEnds
  <2>1. ends' = pending_ends /\ pending_ends' = <<>> /\ UNCHANGED <<stdout, active_call>>
        /\ mpc # "end" /\ mpc' # "end"
    BY <1>6 DEF TakeEnds, Goto
  <2>2. Len(pending_ends) <= 1
    BY <1>0 DEF SerialInv, OneEnd
  <2>3. OneEnd'
    BY <1>1, <1>3, <2>1, <2>2 DEF SerialInv, OneEnd, Asked
  <2> QED
    BY <1>1, <1>3, <2>1, <2>3 DEF SerialInv, SerialMarks, OneAtATime, HeldUntilEnd, EndNamesItsMark
<1>7. CASE ApplyEnd
  <2>1. UNCHANGED <<stdout, ends, pending_ends>> /\ ends # <<>> /\ mpc = "apply" /\ mpc' = "end"
        /\ ended' = IF active_call # NoCall THEN active_call ELSE Head(ends)
    BY <1>7 DEF ApplyEnd, Goto
  <2>2. PICK c \in Calls : c = Head(ends) /\ End(c) \in sent /\ ~Answered(c)
    BY <1>0, <2>1 DEF SerialInv, OneEnd, Asked
  <2>3. c \in BegunCalls
    BY <2>2 DEF SerialInv, SerialMarks, MaybeCall
  <2>4. active_call = c
    BY <2>1, <2>2, <2>3 DEF SerialInv, HeldUntilEnd
  <2>5. EndNamesItsMark' /\ HeldUntilEnd'
    BY <2>1, <2>2, <2>4 DEF EndNamesItsMark, HeldUntilEnd
  <2> QED
    BY <1>1, <1>3, <2>1, <2>5 DEF SerialInv, SerialMarks, OneAtATime, OneEnd, Asked
<1>8. CASE WriteEnd
  <2>1. /\ stdout' = Append(stdout, EndLine(ended)) /\ ends' = Tail(ends) /\ ends # <<>> /\ mpc = "end"
        /\ mpc' = "apply" /\ UNCHANGED <<active_call, pending_ends>> /\ EndLine(ended) \in Line
    BY <1>8, LineTypes DEF WriteEnd, Emit, Goto, state, InHand, TypeOK, SidecarTypeOK
  <2>2. PICK c \in Calls : c = ended /\ End(c) \in sent /\ ~Answered(c)
    BY <1>0, <2>1 DEF SerialInv, OneEnd, Asked, EndNamesItsMark
  <2>3. c \in BegunCalls /\ Begin(c) \in sent
    BY <2>2 DEF SerialInv, SerialMarks, MaybeCall, BegunCalls
  <2>4. \A d : (Confirmed(d)' <=> Confirmed(d)) /\ (Answered(d)' <=> Answered(d) \/ d = c)
    BY <2>1, <2>2, WrittenLine, LinesDiffer
  <2>5. ends' = <<>> /\ pending_ends' = <<>>
    BY <1>0, <2>1 DEF SerialInv, OneEnd
  <2>6. \A d \in Calls : ~Contains(stdin, End(d))
    BY <2>1 DEF SerialInv, OneEnd
  <2>7. SerialMarks' /\ OneAtATime' /\ EndNamesItsMark'
    BY <1>1, <2>1, <2>2, <2>4 DEF SerialInv, SerialMarks, OneAtATime, EndNamesItsMark
  <2>8. OneEnd'
    BY <1>1, <2>5, <2>6 DEF OneEnd, Asked
  <2>9. HeldUntilEnd'
    BY <1>1, <2>2, <2>3, <2>4 DEF SerialInv, OneAtATime, HeldUntilEnd, BegunCalls
  <2> QED
    BY <2>7, <2>8, <2>9 DEF SerialInv
<1> QED
  BY <1>4, <1>5, <1>6, <1>7, <1>8 DEF MainThread, MainStep

LEMMA SerialInvariant ==
  ASSUME Overlap = FALSE
  PROVE  Spec => []SerialInv
<1>1. Init => SerialInv
  <2> SUFFICES ASSUME Init PROVE SerialInv
    OBVIOUS
  <2>1. /\ stdin = <<>> /\ stdout = <<>> /\ sent = {} /\ ends = <<>> /\ pending_ends = <<>>
        /\ status = ReadyLine /\ mpc = "start"
    BY DEF Init, SidecarInit
  <2>2. \A c : ~Confirmed(c) /\ ~Answered(c) /\ status # BeginLine(c) /\ ~Contains(stdin, End(c))
    BY <2>1, LinesDiffer DEF Confirmed, Answered, Contains
  <2> QED
    BY <2>1, <2>2 DEF SerialInv, SerialMarks, OneAtATime, OneEnd, Asked, HeldUntilEnd, EndNamesItsMark, BegunCalls
<1>2. TypeOK /\ InHand /\ LedgerInv /\ SerialInv /\ [Next]_vars => SerialInv'
  <2> SUFFICES ASSUME TypeOK, InHand, LedgerInv, SerialInv, [Next]_vars PROVE SerialInv'
    OBVIOUS
  <2>1. CASE \E m \in Messages : ClientSend(m)
    BY <2>1, SendKeepsSerial
  <2>2. CASE ControlThread
    BY <2>2, ReadKeepsSerial, StatusKeepsSerial DEF LedgerInv, ControlThread, ControlStep, ReadSomething
  <2>3. CASE MainThread
    BY <2>3, MainKeepsSerial
  <2>4. CASE Kernel \/ UNCHANGED vars
    <3>1. UNCHANGED <<sent, stdin, stdout, status, active_call, pending_ends, ends, ended, mpc>>
      BY <2>4 DEF Kernel, Capture, Commit, Regroup, vars, controlVars, state, mainVars
    <3> QED
      BY <3>1 DEF SerialInv, SerialMarks, OneAtATime, OneEnd, Asked, HeldUntilEnd, EndNamesItsMark,
                  BegunCalls, Confirmed, Answered
  <2> QED
    BY <2>1, <2>2, <2>3, <2>4 DEF Next
<1> QED
  BY <1>1, <1>2, TypeInvariant, LedgerInvariant, PTL DEF Spec

(* With one call at a time the end status answers the mark that asked for it.    *)
THEOREM EndIsOfItsMark ==
  ASSUME Overlap = FALSE
  PROVE  Spec => []EndNamesItsMark
BY SerialInvariant, PTL DEF SerialInv

--------------------------------------------------------------------------------
(* The window of a call.                                                         *)

(* A tag holds no call before its begin status is out, and the call of the record *)
(* at hand is the one whose window it was captured in.                           *)
TagsConfirmed(q) == \A i \in DOMAIN q : \A c \in q[i].tag.open : Confirmed(c)
WindowInv ==
  /\ TagsConfirmed(ring) /\ TagsConfirmed(stdout)
  /\ mpc \in {"filter", "write"} =>
       Head(ring).ready /\ \A c \in OpenCalls \cap Head(ring).tag.open : snap.call = c
  /\ OpenWindowKept

(* A line is written after the others.                                           *)
LEMMA TagsAppend ==
  ASSUME NEW q \in Seq(Line), NEW l \in Line
  PROVE  /\ DOMAIN Append(q, l) = 1..(Len(q) + 1) /\ Len(q) \in Nat /\ DOMAIN q = 1..Len(q)
         /\ Append(q, l)[Len(q) + 1] = l /\ \A i \in DOMAIN q : Append(q, l)[i] = q[i]
OBVIOUS

(* A line that is written neither confirms a call nor reports an event captured   *)
(* in the window of another.                                                     *)
LEMMA LineKeepsWindow ==
  ASSUME TypeOK, WindowInv, NEW l \in Line, stdout' = Append(stdout, l), sent' = sent,
         \A c : Confirmed(c)' <=> Confirmed(c),
         \A c \in l.tag.open : Confirmed(c),
         l.msg = "event" => \A c \in OpenCalls \cap l.tag.open : l.call = c
  PROVE  TagsConfirmed(stdout)' /\ OpenWindowKept' /\ OpenCalls' = OpenCalls
<1>1. /\ DOMAIN stdout' = 1..(Len(stdout) + 1) /\ Len(stdout) \in Nat /\ DOMAIN stdout = 1..Len(stdout)
      /\ stdout'[Len(stdout) + 1] = l /\ \A i \in DOMAIN stdout : stdout'[i] = stdout[i]
  BY TagsAppend DEF TypeOK, SidecarTypeOK
<1>2. OpenCalls' = OpenCalls
  BY DEF OpenCalls
<1>3. TagsConfirmed(stdout)'
  BY <1>1 DEF WindowInv, TagsConfirmed
<1>4. OpenWindowKept'
  BY <1>1, <1>2 DEF WindowInv, OpenWindowKept
<1> QED
  BY <1>2, <1>3, <1>4

(* A begin status opens a window in which nothing was captured yet.              *)
LEMMA StatusKeepsWindow ==
  ASSUME TypeOK, InHand, StatusKind, WindowInv, ControlThread, WriteStatus
  PROVE  WindowInv'
<1>1. /\ stdout' = Append(stdout, status) /\ status \in Line
      /\ UNCHANGED <<sent, ring, mpc, snap>>
  BY DEF ControlThread, WriteStatus, Emit, state, mainVars, TypeOK, SidecarTypeOK
<1>2. status.tag.open = {} /\ status.msg # "event"
  BY DEF StatusKind, ReadyLine, ScopeLine, BeginLine, Status, NoTag
<1>3. \A c : Confirmed(c)' <=> Confirmed(c) \/ status = BeginLine(c)
  BY <1>1, WrittenLine
<1>4. /\ DOMAIN stdout' = 1..(Len(stdout) + 1) /\ Len(stdout) \in Nat /\ DOMAIN stdout = 1..Len(stdout)
      /\ stdout'[Len(stdout) + 1] = status /\ \A i \in DOMAIN stdout : stdout'[i] = stdout[i]
  BY <1>1, TagsAppend DEF TypeOK, SidecarTypeOK
<1>5. \A c : Confirmed(c) => (c \in OpenCalls' <=> c \in OpenCalls)
  BY <1>1, <1>3 DEF OpenCalls
<1>6. TagsConfirmed(ring)' /\ TagsConfirmed(stdout)'
  BY <1>1, <1>2, <1>3, <1>4 DEF WindowInv, TagsConfirmed
<1>7. mpc' \in {"filter", "write"} =>
        Head(ring').ready /\ \A c \in OpenCalls' \cap Head(ring').tag.open : snap'.call = c
  <2> SUFFICES ASSUME mpc \in {"filter", "write"}
               PROVE  Head(ring).ready /\ \A c \in OpenCalls' \cap Head(ring).tag.open : snap.call = c
    BY <1>1
  <2>1. 1 \in DOMAIN ring /\ Head(ring) = ring[1]
    BY DEF InHand, TypeOK, SidecarTypeOK, KernelTypeOK
  <2>2. \A c \in Head(ring).tag.open : Confirmed(c)
    BY <2>1 DEF WindowInv, TagsConfirmed
  <2> QED
    BY <1>5, <2>2 DEF WindowInv
<1>8. OpenWindowKept'
  <2> SUFFICES ASSUME NEW i \in DOMAIN stdout', NEW c \in OpenCalls', stdout'[i].msg = "event",
                      c \in stdout'[i].tag.open
               PROVE  stdout'[i].call = c
    BY DEF OpenWindowKept
  <2>1. i \in DOMAIN stdout /\ stdout'[i] = stdout[i]
    BY <1>2, <1>4
  <2>2. c \in OpenCalls
    BY <1>5, <2>1 DEF WindowInv, TagsConfirmed
  <2> QED
    BY <2>1, <2>2 DEF WindowInv, OpenWindowKept
<1> QED
  BY <1>6, <1>7, <1>8 DEF WindowInv

(* The record that is taken gets the call in whose window it was captured.       *)
LEMMA MainKeepsWindow ==
  ASSUME TypeOK, InHand, SerialInv, WindowInv, MainThread
  PROVE  WindowInv'
<1>0. sent' = sent /\ ring \in Seq(Record)
  BY DEF MainThread, TypeOK, SidecarTypeOK, KernelTypeOK
<1>1. ASSUME ring' = ring \/ (ring # <<>> /\ ring' = Tail(ring)), \A c : Confirmed(c)' <=> Confirmed(c)
      PROVE  TagsConfirmed(ring)'
  <2>1. CASE ring' = ring
    BY <1>1, <2>1 DEF WindowInv, TagsConfirmed
  <2>2. CASE ring # <<>> /\ ring' = Tail(ring)
    <3>1. \A i \in DOMAIN ring' : i + 1 \in DOMAIN ring /\ ring'[i] = ring[i + 1]
      BY <1>0, <2>2
    <3> QED
      BY <1>1, <3>1 DEF WindowInv, TagsConfirmed
  <2> QED
    BY <1>1, <2>1, <2>2
<1>2. stdout' = stdout => /\ \A c : Confirmed(c)' <=> Confirmed(c)
                          /\ TagsConfirmed(stdout)' /\ OpenWindowKept' /\ OpenCalls' = OpenCalls
  BY <1>0 DEF WindowInv, TagsConfirmed, OpenWindowKept, OpenCalls, Confirmed
<1>3. CASE WriteReady
  <2>1. stdout' = Append(stdout, ReadyLine) /\ mpc' = "top" /\ ring' = ring
    BY <1>3 DEF WriteReady, Emit, Goto
  <2>2. ReadyLine.tag.open = {} /\ ReadyLine.msg = "ready" /\ ReadyLine \in Line
    BY LineTypes DEF ReadyLine, Status, NoTag
  <2>3. \A c : Confirmed(c)' <=> Confirmed(c)
    BY <2>1, <2>2, WrittenLine, LinesDiffer
  <2>4. TagsConfirmed(stdout)' /\ OpenWindowKept'
    BY <1>0, <2>1, <2>2, <2>3, LineKeepsWindow
  <2> QED
    BY <1>1, <2>1, <2>3, <2>4 DEF WindowInv
<1>4. CASE WriteEnd
  <2>1. /\ stdout' = Append(stdout, EndLine(ended)) /\ mpc' = "apply" /\ ring' = ring
        /\ EndLine(ended) \in Line
    BY <1>4, LineTypes DEF WriteEnd, Emit, Goto, TypeOK, SidecarTypeOK
  <2>2. EndLine(ended).tag.open = {} /\ EndLine(ended).msg = "end"
    BY DEF EndLine, Status, NoTag
  <2>3. \A c : Confirmed(c)' <=> Confirmed(c)
    BY <2>1, <2>2, WrittenLine, LinesDiffer
  <2>4. TagsConfirmed(stdout)' /\ OpenWindowKept'
    BY <1>0, <2>1, <2>2, <2>3, LineKeepsWindow
  <2> QED
    BY <1>1, <2>1, <2>3, <2>4 DEF WindowInv
<1>5. CASE WriteEvent
  <2>1. mpc = "write" /\ mpc' = "drain" /\ ring # <<>> /\ ring' = Tail(ring)
    BY <1>5 DEF WriteEvent, Goto, Release, InHand
  <2>2. Head(ring) \in Record /\ 1 \in DOMAIN ring /\ Head(ring) = ring[1]
    BY <1>0, <2>1
  <2>3. PICK l \in Line : l = EventLine(snap.bucket, snap.call, Head(ring).tag)
    BY <2>2, LineTypes DEF Record, Snap, TypeOK, SidecarTypeOK
  <2>4. stdout' = Append(stdout, l)
    BY <1>5, <2>3 DEF WriteEvent, Emit
  <2>5. l.msg = "event" /\ l.call = snap.call /\ l.tag = Head(ring).tag
    BY <2>3 DEF EventLine
  <2>6. \A c : Confirmed(c)' <=> Confirmed(c)
    BY <2>4, <2>5, WrittenLine, LinesDiffer
  <2>7. \A c \in l.tag.open : Confirmed(c)
    BY <2>2, <2>5 DEF WindowInv, TagsConfirmed
  <2>8. \A c \in OpenCalls \cap l.tag.open : l.call = c
    BY <2>1, <2>5 DEF WindowInv
  <2>9. TagsConfirmed(stdout)' /\ OpenWindowKept'
    BY <1>0, <2>4, <2>6, <2>7, <2>8, LineKeepsWindow
  <2> QED
    BY <1>1, <2>1, <2>6, <2>9 DEF WindowInv
<1>6. CASE NextRecord
  <2>1. /\ UNCHANGED <<stdout, ring>> /\ mpc = "drain" /\ ring # <<>> /\ Head(ring).ready
        /\ snap'.call = active_call
    BY <1>6 DEF NextRecord, Goto, HasNext
  <2>2. \A c \in OpenCalls : active_call = c
    <3> SUFFICES ASSUME NEW c \in OpenCalls PROVE active_call = c
      OBVIOUS
    <3>1. c \in BegunCalls /\ ~Answered(c)
      BY DEF OpenCalls, SerialInv, SerialMarks, MaybeCall
    <3> QED
      BY <2>1, <3>1 DEF SerialInv, HeldUntilEnd
  <2> QED
    BY <1>1, <1>2, <2>1, <2>2 DEF WindowInv
<1>7. CASE KeepRecord
  <2>1. UNCHANGED <<stdout, ring, snap>> /\ mpc = "filter"
    BY <1>7 DEF KeepRecord, Goto
  <2> QED
    BY <1>1, <1>2, <2>1 DEF WindowInv
<1>8. CASE SkipRecord
  <2>1. stdout' = stdout /\ mpc' = "drain" /\ ring # <<>> /\ ring' = Tail(ring)
    BY <1>8 DEF SkipRecord, Goto, Release, InHand
  <2> QED
    BY <1>1, <1>2, <2>1 DEF WindowInv
<1>9. CASE BeginPass \/ ExitLoop \/ EndDrain \/ TakeEnds \/ ApplyEnd \/ NextPass
  <2>1. UNCHANGED <<stdout, ring>> /\ mpc' \notin {"filter", "write"}
    BY <1>9 DEF BeginPass, ExitLoop, EndDrain, TakeEnds, ApplyEnd, NextPass, Goto
  <2> QED
    BY <1>1, <1>2, <2>1 DEF WindowInv
<1> QED
  BY <1>3, <1>4, <1>5, <1>6, <1>7, <1>8, <1>9 DEF MainThread, MainStep

(* A record that is reserved or submitted is tagged with calls confirmed by then, *)
(* and the record at hand is submitted already.                                  *)
LEMMA KernelKeepsWindow ==
  ASSUME TypeOK, InHand, WindowInv, Kernel
  PROVE  WindowInv'
<1>0. UNCHANGED <<sent, stdout, mpc, snap>> /\ ring \in Seq(Record)
  BY DEF Kernel, Capture, Commit, Regroup, mainVars, TypeOK, SidecarTypeOK, KernelTypeOK
<1>1. /\ \A c : Confirmed(c)' <=> Confirmed(c)
      /\ TagsConfirmed(stdout)' /\ OpenWindowKept' /\ OpenCalls' = OpenCalls
  BY <1>0 DEF WindowInv, TagsConfirmed, OpenWindowKept, OpenCalls, Confirmed
<1>2. Now \in Tag /\ \A c \in Now.open : Confirmed(c)
  BY DEF Now, Tag, OpenCalls, Edge
<1>3. ASSUME TagsConfirmed(ring)', mpc \in {"filter", "write"} => ring'[1] = ring[1] /\ ring' # <<>>
      PROVE  WindowInv'
  BY <1>0, <1>1, <1>3 DEF WindowInv, InHand
<1>4. CASE \E s \in Syscalls : Capture(s[1], s[2])
  <2>1. PICK p \in Procs, u \in BOOLEAN : Reserve(p, u, Now)
    BY <1>4, SessionAssumption DEF Capture
  <2>2. /\ Len(ring') = Len(ring) + 1 /\ ring' # <<>> /\ DOMAIN ring' = 1..Len(ring')
        /\ \A i \in 1..Len(ring) : ring'[i] = ring[i]
        /\ ring'[Len(ring) + 1].tag = Now /\ Len(ring) \in Nat /\ DOMAIN ring = 1..Len(ring)
    <3>1. /\ KernelTypeOK' /\ Len(ring') = Len(ring) + 1 /\ ring' # <<>>
          /\ \A i \in 1..Len(ring) : ring'[i] = ring[i]
          /\ ring'[Len(ring) + 1] = [pid |-> p, usable |-> u, ready |-> FALSE, tag |-> Now]
      BY <1>2, <2>1, ReserveTypes DEF TypeOK, SidecarTypeOK
    <3> QED
      BY <1>0, <3>1 DEF KernelTypeOK
  <2>3. TagsConfirmed(ring)'
    BY <1>1, <1>2, <2>2 DEF WindowInv, TagsConfirmed
  <2>4. mpc \in {"filter", "write"} => 1 \in 1..Len(ring)
    BY <1>0 DEF InHand
  <2> QED
    BY <1>3, <2>2, <2>3, <2>4
<1>5. CASE \E i \in DOMAIN ring : Commit(i)
  <2>1. PICK i \in DOMAIN ring : Submit(i, Now) /\ ~ring[i].ready
    BY <1>5 DEF Commit, Submit
  <2>2. /\ DOMAIN ring' = DOMAIN ring /\ ring' # <<>>
        /\ \A j \in DOMAIN ring \ {i} : ring'[j] = ring[j]
        /\ ring'[i].tag.open \subseteq ring[i].tag.open
    <3>1. /\ DOMAIN ring' = DOMAIN ring /\ ring' # <<>>
          /\ \A j \in DOMAIN ring \ {i} : ring'[j] = ring[j]
          /\ ring'[i] = [ring[i] EXCEPT !.ready = TRUE, !.tag = Throughout(ring[i].tag, Now)]
      BY <1>2, <2>1, SubmitTypes DEF TypeOK, SidecarTypeOK
    <3>2. ring[i] \in Record
      BY <1>0
    <3>3. ring'[i].tag = Throughout(ring[i].tag, Now)
      BY <3>1, <3>2 DEF Record
    <3> QED
      BY <3>1, <3>3 DEF Throughout
  <2>3. TagsConfirmed(ring)'
    BY <1>1, <2>2 DEF WindowInv, TagsConfirmed
  <2>4. mpc \in {"filter", "write"} => 1 \in DOMAIN ring /\ 1 # i
    BY <1>0, <2>1 DEF InHand, WindowInv
  <2> QED
    BY <1>3, <2>2, <2>3, <2>4
<1>6. CASE \E p \in Movers, g \in MaybeGroup : Regroup(p, g)
  <2>1. ring' = ring
    BY <1>6 DEF Regroup
  <2> QED
    BY <1>0, <1>1, <2>1 DEF WindowInv, TagsConfirmed
<1> QED
  BY <1>4, <1>5, <1>6 DEF Kernel

(* With one call at a time, an event captured between the begin status and the    *)
(* end mark of a call is reported with that call, until the end mark is written.  *)
THEOREM WindowKept ==
  ASSUME Overlap = FALSE
  PROVE  Spec => []OpenWindowKept
<1>1. Init => WindowInv
  <2> SUFFICES ASSUME Init PROVE WindowInv
    OBVIOUS
  <2>1. ring = <<>> /\ stdout = <<>> /\ mpc = "start"
    BY DEF Init, SidecarInit, KernelInit
  <2> QED
    BY <2>1 DEF WindowInv, TagsConfirmed, OpenWindowKept
<1>2. TypeOK /\ InHand /\ LedgerInv /\ SerialInv /\ WindowInv /\ [Next]_vars => WindowInv'
  <2> SUFFICES ASSUME TypeOK, InHand, LedgerInv, SerialInv, WindowInv, [Next]_vars PROVE WindowInv'
    OBVIOUS
  <2>1. ASSUME UNCHANGED <<stdout, ring, mpc, snap>>, sent \subseteq sent' PROVE WindowInv'
    <3>1. /\ \A c : Confirmed(c)' <=> Confirmed(c)
          /\ OpenCalls' \subseteq OpenCalls
      BY <2>1 DEF OpenCalls, Confirmed
    <3> QED
      BY <2>1, <3>1 DEF WindowInv, TagsConfirmed, OpenWindowKept
  <2>2. CASE (\E m \in Messages : ClientSend(m)) \/ UNCHANGED vars \/ (ControlThread /\ ~WriteStatus)
    <3>1. UNCHANGED <<stdout, ring, mpc, snap>> /\ sent \subseteq sent'
      BY <2>2 DEF ClientSend, vars, controlVars, state, mainVars, ControlThread, ControlStep, ReadScope,
                  ReadBegin, ReadEnd, ReadIgnored, ReadShutdown, ReadLine
    <3> QED
      BY <2>1, <3>1
  <2>3. CASE ControlThread /\ WriteStatus
    BY <2>3, StatusKeepsWindow DEF LedgerInv
  <2> QED
    BY <2>2, <2>3, MainKeepsWindow, KernelKeepsWindow DEF Next
<1> QED
  BY <1>1, <1>2, TypeInvariant, LedgerInvariant, SerialInvariant, PTL DEF Spec, WindowInv
================================================================================
