------------------------------ MODULE ProbeProofs ------------------------------
(* Theorems about the whole probe, for every set of calls, processes and groups, *)
(* every ring capacity and batch, and however many faults and restarts: a wait   *)
(* may time out, the sidecar crash, the reader thread die, the monitor be stopped *)
(* and started again at any moment.                                              *)
EXTENDS ProbeSystem, EbpfSidecarProofs

--------------------------------------------------------------------------------
(* Types.                                                                        *)

(* What the fuzzer writes are control messages, and what is open now is a tag.   *)
LEMMA MessageTypes ==
  /\ \A c \in Calls : Begin(c) \in Control /\ End(c) \in Control
  /\ \A g \in Scopes : Scope(g) \in Control
  /\ Shutdown \in Control
BY SystemAssumption DEF Control, MaybeCall

LEMMA NowType == mine \subseteq Calls => Now \in Tag
BY DEF Now, Tag, OpenCalls, Busy

(* Writing a control message, whether or not somebody is there to read it.       *)
LEMMA WriteTypes ==
  ASSUME SidecarTypeOK, InHand, StatusKind, NEW m \in Control, Write(m),
         UNCHANGED <<shutdown, cpc, status, stdout, state, mainVars, ring, processes>>
  PROVE  SidecarTypeOK' /\ InHand' /\ StatusKind'
<1>1. stdin' \in Seq(Control)
  <2>1. stdin \in Seq(Control) /\ (stdin' = Append(stdin, m) \/ stdin' = stdin)
    BY DEF Write, SidecarTypeOK
  <2> QED
    BY <2>1
<1>2. KernelTypeOK' /\ InHand' /\ StatusKind'
  BY DEF SidecarTypeOK, KernelTypeOK, InHand, StatusKind, mainVars
<1> QED
  BY <1>1, <1>2 DEF SidecarTypeOK, KernelTypeOK, InHand, StatusKind, state, mainVars, processes

(* The sidecar's variables unchanged.                                            *)
LEMMA SameTypes ==
  ASSUME SidecarTypeOK, InHand, StatusKind, UNCHANGED sidecarVars
  PROVE  SidecarTypeOK' /\ InHand' /\ StatusKind'
BY DEF SidecarTypeOK, KernelTypeOK, InHand, StatusKind, sidecarVars, controlVars, state, mainVars, processes

(* Reading or discarding lines of stdout.                                        *)
LEMMA TakeTypes ==
  ASSUME SidecarTypeOK, InHand, StatusKind, stdout' \in Seq(Line),
         UNCHANGED <<controlVars, state, mainVars, ring, processes>>
  PROVE  SidecarTypeOK' /\ InHand' /\ StatusKind'
BY DEF SidecarTypeOK, KernelTypeOK, InHand, StatusKind, controlVars, state, mainVars, processes

(* A sidecar that is gone is typed like one that has not started.                *)
LEMMA GoneTypes ==
  ASSUME SidecarTypeOK, SidecarGone
  PROVE  SidecarTypeOK' /\ InHand' /\ StatusKind'
<1>1. KernelTypeOK' /\ InHand'
  BY RingCapAssumption DEF SidecarGone, KernelTypeOK, InHand
<1>2. snap' \in Snap /\ pgid_cache' \in [Procs -> MaybeGroup \cup {Unread}]
  BY DEF SidecarGone, NoSnap, Snap, Buckets, MaybeCall, MaybeGroup, EmptyCache
<1>3. status' \in Line /\ drained' \in 0..DrainBatch /\ StatusKind'
  BY LineTypes, BatchAssumption DEF SidecarGone, StatusKind
<1>4. seen' \in [Procs -> SUBSET MaybeGroup] /\ pgrp' \in [Procs -> MaybeGroup]
  BY DEF SidecarGone, SidecarTypeOK
<1>5. /\ stdin' \in Seq(Control) /\ stdout' \in Seq(Line)
      /\ pending_ends' \in Seq(MaybeCall) /\ ends' \in Seq(MaybeCall)
  BY DEF SidecarGone, SidecarTypeOK
<1>6. active_call' \in MaybeCall /\ ended' \in MaybeCall /\ scope_pgid' \in MaybeGroup
  BY DEF SidecarGone, MaybeCall, MaybeGroup
<1>7. /\ scoped' \in BOOLEAN /\ shutdown' \in BOOLEAN /\ owed' \in Nat
      /\ cpc' \in {"read", "status", "done"}
      /\ mpc' \in {"start", "top", "drain", "filter", "write", "take", "apply", "end", "done"}
  BY DEF SidecarGone
<1> QED
  BY <1>1, <1>2, <1>3, <1>4, <1>5, <1>6, <1>7 DEF SidecarTypeOK

(* The monitor's own steps.                                                      *)
LEMMA DeliverTypes ==
  ASSUME MonitorTypeOK, NEW l \in Line, Deliver(l)
  PROVE  MonitorTypeOK'
<1>1. begin_signals' \in [Calls -> Signals] /\ end_signals' \in [Calls -> Signals]
  BY DEF MonitorTypeOK, Deliver, Wake, Signals, Line, MaybeCall
<1>2. events_by_call' \in [Calls -> Seq(Line)] /\ ambient_events' \in Seq(Line)
  <2>1. \A d \in Calls : Append(events_by_call[d], l) \in Seq(Line)
    BY DEF MonitorTypeOK
  <2>2. l.call # NoCall => l.call \in Calls
    BY DEF Line, MaybeCall
  <2>3. CASE l.call = NoCall
    <3>1. events_by_call' = events_by_call /\ ambient_events' = Append(ambient_events, l)
      BY <2>3 DEF Deliver
    <3> QED
      BY <3>1 DEF MonitorTypeOK
  <2>4. CASE l.call # NoCall
    <3>1. events_by_call' = [events_by_call EXCEPT ![l.call] = Append(events_by_call[l.call], l)]
      BY <2>4 DEF Deliver
    <3>2. ambient_events' = ambient_events
      BY <2>4 DEF Deliver
    <3> QED
      BY <2>1, <2>2, <2>4, <3>1, <3>2 DEF MonitorTypeOK
  <2> QED
    BY <2>3, <2>4
<1>3. dropped' \in Nat
  BY DEF MonitorTypeOK, Deliver
<1> QED
  BY <1>1, <1>2, <1>3 DEF MonitorTypeOK, Deliver

LEMMA CallerTypes ==
  ASSUME MonitorTypeOK, NEW c \in Calls,
         \/ \E alive \in BOOLEAN : BeginCall(c, alive) \/ EndCall(c, alive)
         \/ \E timeout \in BOOLEAN : BeginReturns(c, timeout) \/ EndReturns(c, timeout)
  PROVE  MonitorTypeOK'
<1> USE DEF MonitorTypeOK, Signals, Phases, collected
<1>1. CASE \E alive \in BOOLEAN : BeginCall(c, alive)
  BY <1>1 DEF BeginCall, Sending
<1>2. CASE \E alive \in BOOLEAN : EndCall(c, alive)
  BY <1>2 DEF EndCall, Sending
<1>3. CASE \E timeout \in BOOLEAN : BeginReturns(c, timeout)
  BY <1>3 DEF BeginReturns
<1>4. CASE \E timeout \in BOOLEAN : EndReturns(c, timeout)
  <2> DEFINE s == [events    |-> events_by_call[c], truncated |-> dropped > 0,
                   answered  |-> end_signals[c] = "set"]
  <2>1. s \in Summary
    BY DEF Summary
  <2>2. summary' = [summary EXCEPT ![c] = s]
    BY <1>4 DEF EndReturns
  <2> HIDE DEF s
  <2>3. summary' \in [Calls -> Summary \cup {NoSummary}]
    BY <2>1, <2>2
  <2>4. events_by_call' \in [Calls -> Seq(Line)]
    BY <1>4 DEF EndReturns
  <2> QED
    BY <1>4, <2>3, <2>4 DEF EndReturns
<1> QED
  BY <1>1, <1>2, <1>3, <1>4

(* Every step keeps the types.                                                   *)
TypeInv == TypeOK /\ InHand /\ StatusKind
LEMMA FuzzerKeepsTypes ==
  ASSUME TypeInv,
         \/ \E c \in Calls : FuzzerBegins(c) \/ FuzzerEnds(c) \/ CallReturns(c) \/ CallTimesOut(c)
         \/ \E g \in Scopes : FuzzerScopes(g)
  PROVE  TypeInv'
<1> USE DEF TypeInv, TypeOK
<1>1. Alive \in BOOLEAN
  BY DEF Alive
<1>2. ASSUME NEW c \in Calls, FuzzerBegins(c) \/ FuzzerEnds(c) PROVE TypeInv'
  <2>1. MonitorTypeOK'
    BY <1>1, <1>2, CallerTypes DEF FuzzerBegins, FuzzerEnds
  <2>2. SidecarTypeOK' /\ InHand' /\ StatusKind'
    BY <1>2, MessageTypes, WriteTypes DEF FuzzerBegins, FuzzerEnds, StdinOnly
  <2> QED
    BY <1>2, <2>1, <2>2 DEF FuzzerBegins, FuzzerEnds, StdinOnly, history
<1>3. ASSUME NEW c \in Calls, CallReturns(c) \/ CallTimesOut(c) PROVE TypeInv'
  <2>1. MonitorTypeOK'
    BY <1>3, CallerTypes DEF CallReturns, CallTimesOut
  <2>2. SidecarTypeOK' /\ InHand' /\ StatusKind'
    BY <1>3, SameTypes DEF CallReturns, CallTimesOut
  <2>3. /\ UNCHANGED <<scopes, mine, captures, lost, starts, reported>>
        /\ faults' = faults \/ (faults < MaxFaults /\ faults' = faults + 1)
    BY <1>3 DEF CallReturns, CallTimesOut, Fault, history
  <2> QED
    BY <2>1, <2>2, <2>3, SystemAssumption
<1>4. ASSUME NEW g \in Scopes, FuzzerScopes(g) PROVE TypeInv'
  <2>1. SidecarTypeOK' /\ InHand' /\ StatusKind'
    BY <1>4, MessageTypes, WriteTypes DEF FuzzerScopes, StdinOnly
  <2> QED
    BY <1>4, <2>1 DEF FuzzerScopes, StdinOnly, history, MonitorTypeOK, monitorVars, collected
<1> QED
  BY <1>2, <1>3, <1>4

LEMMA MonitorKeepsTypes ==
  ASSUME TypeInv, ReadStdout \/ RawFileFull \/ Stop \/ Restart
  PROVE  TypeInv'
<1> USE DEF TypeInv, TypeOK
<1>1. ASSUME TakeLine PROVE SidecarTypeOK' /\ InHand' /\ StatusKind' /\ Head(stdout) \in Line
  <2>1. stdout' \in Seq(Line) /\ Head(stdout) \in Line
    BY <1>1 DEF TakeLine, SidecarTypeOK
  <2> QED
    BY <1>1, <2>1, TakeTypes DEF TakeLine
<1>2. CASE ReadStdout
  BY <1>1, <1>2, DeliverTypes DEF ReadStdout, TakeLine
<1>3. CASE RawFileFull
  BY <1>1, <1>3, SystemAssumption DEF RawFileFull, TakeLine, Fault, ReaderDies, MonitorTypeOK, collected
<1>4. CASE Stop
  <2>1. CASE StopBegins /\ Write(Shutdown) /\ UNCHANGED <<scopes, mine>> /\ StdinOnly
    <3>1. SidecarTypeOK' /\ InHand' /\ StatusKind'
      BY <2>1, MessageTypes, WriteTypes DEF StdinOnly
    <3> QED
      BY <2>1, <3>1 DEF StopBegins, Callers, StdinOnly, history, MonitorTypeOK, collected
  <2>2. CASE StopKills /\ SidecarGone /\ UNCHANGED <<scopes, mine, history>>
    BY <2>2, GoneTypes DEF StopKills, Callers, history, MonitorTypeOK, collected
  <2>3. CASE /\ IF stdout = <<>> \/ reader = "ended" THEN UNCHANGED faults ELSE Fault
             /\ StopEnds /\ stdout' = <<>>
             /\ UNCHANGED <<controlVars, state, mainVars, ring, processes, scopes, mine, captures, lost,
                            starts, reported>>
    <3>1. SidecarTypeOK' /\ InHand' /\ StatusKind'
      BY <2>3, TakeTypes
    <3>2. faults' \in 0..MaxFaults
      BY <2>3, SystemAssumption DEF Fault
    <3> QED
      BY <2>3, <3>1, <3>2 DEF StopEnds, Callers, MonitorTypeOK, collected
  <2> QED
    BY <1>4, <2>1, <2>2, <2>3 DEF Stop
<1>5. CASE Restart
  <2>1. SidecarTypeOK' /\ InHand' /\ StatusKind'
    BY <1>5 DEF Restart, SidecarTypeOK, KernelTypeOK, InHand, StatusKind, controlVars, state, processes
  <2> QED
    BY <1>5, <2>1, SystemAssumption DEF Restart, Start, Callers, MonitorTypeOK, collected
<1> QED
  BY <1>2, <1>3, <1>4, <1>5

LEMMA SidecarKeepsTypes ==
  ASSUME TypeInv,
         \/ Control_ \/ Main_ \/ SidecarCrashes
         \/ \E p \in Procs : Capture(p)
         \/ \E i \in DOMAIN ring : Commit(i)
  PROVE  TypeInv'
<1> USE DEF TypeInv, TypeOK
<1>0. ASSUME UNCHANGED monitorVars PROVE MonitorTypeOK'
  BY <1>0 DEF MonitorTypeOK, monitorVars, collected
<1>1. CASE Control_
  <2>1. StatusKind'
    BY <1>1, ControlTypes DEF Control_, ControlStep, ReadScope, ReadBegin, ReadEnd, ReadIgnored,
       ReadShutdown, ReadLine, WriteStatus, StatusKind, SidecarTypeOK
  <2> QED
    BY <1>0, <1>1, <2>1, ControlKeepsTypes, StepKeepsInHand DEF Control_, history
<1>2. CASE Main_
  <2>1. SidecarTypeOK' /\ InHand' /\ StatusKind'
    <3>1. status' = status
      BY <1>2 DEF Main_, MainStep, controlVars, WriteReady, BeginPass, ExitLoop, NextRecord, KeepRecord,
         SkipRecord, WriteEvent, EndDrain, TakeEnds, ApplyEnd, WriteEnd, NextPass
    <3> QED
      BY <1>2, <3>1, MainKeepsTypes, StepKeepsInHand DEF Main_, StatusKind
  <2>2. reported' \in [Calls -> Nat]
    <3>1. snap.call \in Calls \cup {NoCall}
      BY DEF SidecarTypeOK, Snap, MaybeCall
    <3> QED
      BY <1>2, <3>1 DEF Main_, Report
  <2> QED
    BY <1>0, <1>2, <2>1, <2>2 DEF Main_
<1>3. CASE SidecarCrashes
  BY <1>0, <1>3, GoneTypes, SystemAssumption DEF SidecarCrashes, Fault
<1>4. ASSUME NEW p \in Procs, Capture(p) PROVE TypeInv'
  <2>1. KernelTypeOK' /\ (ring # <<>> => ring' # <<>>)
    <3>1. CASE Reserve(p, TRUE, Now)
      BY <3>1, NowType, ReserveTypes DEF SidecarTypeOK
    <3>2. CASE ReserveFails
      BY <3>2 DEF ReserveFails, SidecarTypeOK, KernelTypeOK
    <3> QED
      BY <1>4, <3>1, <3>2 DEF Capture
  <2>2. captures' \in 0..MaxCaptures /\ lost' \subseteq Calls
    <3>1. captures < MaxCaptures /\ captures' = captures + 1
      BY <1>4 DEF Capture
    <3>2. lost' = lost \/ lost' = lost \cup OpenCalls
      BY <1>4 DEF Capture
    <3> QED
      BY <3>1, <3>2, SystemAssumption DEF OpenCalls
  <2> QED
    BY <1>0, <1>4, <2>1, <2>2
       DEF Capture, Unmoved, SidecarTypeOK, InHand, StatusKind, controlVars, state, mainVars, processes
<1>5. ASSUME NEW i \in DOMAIN ring, Commit(i) PROVE TypeInv'
  <2>1. KernelTypeOK' /\ ring' # <<>>
    BY <1>5, NowType, SubmitTypes DEF Commit, SidecarTypeOK
  <2> QED
    BY <1>0, <1>5, <2>1
       DEF Commit, Unmoved, SidecarTypeOK, InHand, StatusKind, controlVars, state, mainVars, processes
<1> QED
  BY <1>1, <1>2, <1>3, <1>4, <1>5

LEMMA TypeInvariant == Spec => []TypeInv
<1>1. Init => TypeInv
  <2> SUFFICES ASSUME Init PROVE TypeInv
    OBVIOUS
  <2>1. SidecarTypeOK /\ InHand /\ StatusKind
    <3>1. pgrp \in [Procs -> MaybeGroup]
      BY DEF Init, MaybeGroup
    <3> QED
      BY <3>1, InitTypes DEF Init
  <2>2. MonitorTypeOK
    BY DEF Init, MonitorInit, MonitorTypeOK, Signals, Phases
  <2> QED
    BY <2>1, <2>2, SystemAssumption DEF Init, TypeInv, TypeOK
<1>2. TypeInv /\ [Next]_vars => TypeInv'
  <2> SUFFICES ASSUME TypeInv, [Next]_vars PROVE TypeInv'
    OBVIOUS
  <2>1. CASE UNCHANGED vars
    BY <2>1, SameTypes DEF TypeInv, TypeOK, MonitorTypeOK, vars, monitorVars, collected, history
  <2> QED
    BY <2>1, FuzzerKeepsTypes, MonitorKeepsTypes, SidecarKeepsTypes DEF Next
<1> QED
  BY <1>1, <1>2, PTL DEF Spec

(* TypeOK holds of the whole probe: every component of its state has its type,   *)
(* whatever crashes, times out or is started again.                              *)
THEOREM ProbeTypes == Spec => []TypeOK
BY TypeInvariant, PTL DEF TypeInv

--------------------------------------------------------------------------------
(* The book: KeepsBook.                                                          *)

(* No call has a summary before end_call returned it.                            *)
SummaryInv == \A c \in Calls : pc[c] # "done" => summary[c] = NoSummary

Handed   == [c \in Calls |-> IF summary[c] = NoSummary THEN NoSummary ELSE summary[c].events]
BookVars == <<events_by_call, ambient_events, Handed>>

(* What the monitor collected changes only where the reader puts a line aside and *)
(* where end_call returns, and a call whose end_call returned stays done.        *)
LEMMA MonitorSteps ==
  ASSUME TypeInv, Next
  PROVE  \/ UNCHANGED <<events_by_call, ambient_events, summary>> /\ \A c \in Calls : pc[c] = "done" => pc'[c] = "done"
         \/ ReadStdout
         \/ \E c \in Calls, timeout \in BOOLEAN : EndReturns(c, timeout)
<1> USE DEF monitorVars, collected, TypeInv, TypeOK, MonitorTypeOK
<1>1. ASSUME NEW c \in Calls, FuzzerBegins(c) \/ FuzzerEnds(c)
      PROVE  UNCHANGED <<events_by_call, ambient_events, summary>> /\ \A d \in Calls : pc[d] = "done" => pc'[d] = "done"
  BY <1>1 DEF FuzzerBegins, FuzzerEnds, BeginCall, EndCall, Sending
<1>2. ASSUME NEW c \in Calls, CallReturns(c) \/ CallTimesOut(c)
      PROVE  \/ /\ UNCHANGED <<events_by_call, ambient_events, summary>>
                /\ \A d \in Calls : pc[d] = "done" => pc'[d] = "done"
             \/ \E timeout \in BOOLEAN : EndReturns(c, timeout)
  BY <1>2 DEF CallReturns, CallTimesOut, BeginReturns
<1>3. ASSUME NEW g \in Scopes, FuzzerScopes(g)
      PROVE  UNCHANGED <<events_by_call, ambient_events, summary, pc>>
  BY <1>3 DEF FuzzerScopes
<1>4. ASSUME RawFileFull \/ Stop \/ Restart
      PROVE  UNCHANGED <<events_by_call, ambient_events, summary, pc>>
  BY <1>4 DEF RawFileFull, ReaderDies, Stop, StopBegins, StopKills, StopEnds, Restart, Start, Callers
<1>5. ASSUME \/ Control_ \/ Main_ \/ SidecarCrashes
             \/ \E p \in Procs : Capture(p)
             \/ \E i \in DOMAIN ring : Commit(i)
      PROVE  UNCHANGED <<events_by_call, ambient_events, summary, pc>>
  BY <1>5 DEF Control_, Main_, SidecarCrashes, Capture, Commit, Unmoved
<1> QED
  BY <1>1, <1>2, <1>3, <1>4, <1>5 DEF Next

LEMMA SummaryKept ==
  ASSUME TypeInv, SummaryInv, [Next]_vars
  PROVE  SummaryInv'
<1> USE DEF SummaryInv, TypeInv, TypeOK, MonitorTypeOK
<1>1. CASE UNCHANGED vars
  BY <1>1 DEF vars, monitorVars
<1>2. CASE ReadStdout
  BY <1>2 DEF ReadStdout, Deliver
<1>3. ASSUME NEW c \in Calls, NEW timeout \in BOOLEAN, EndReturns(c, timeout) PROVE SummaryInv'
  BY <1>3 DEF EndReturns
<1>4. CASE UNCHANGED summary /\ \A c \in Calls : pc[c] = "done" => pc'[c] = "done"
  BY <1>4
<1> QED
  BY <1>1, <1>2, <1>3, <1>4, MonitorSteps

(* A line appended is a page that grows by one.                                  *)
LEMMA AppendGrows ==
  ASSUME NEW q \in Seq(Line), NEW l \in Line
  PROVE  Book!GrowsByOne(q, Append(q, l))
BY DEF Book!GrowsByOne, Book!Front

(* The reader files a line under its call, or as ambient.                        *)
LEMMA DeliverFiles ==
  ASSUME MonitorTypeOK, NEW l \in Line, Deliver(l)
  PROVE  [Book!BookNext]_BookVars
<1>1. Handed' = Handed
  BY DEF Deliver, Handed
<1>2. CASE l.call = NoCall
  <2>1. ambient_events' = Append(ambient_events, l) /\ events_by_call' = events_by_call
    BY <1>2 DEF Deliver
  <2>2. Book!GrowsByOne(ambient_events, ambient_events')
    BY <2>1, AppendGrows DEF MonitorTypeOK
  <2>3. Book!FileAmbient
    BY <1>1, <2>1, <2>2 DEF Book!FileAmbient, Handed
  <2> QED
    BY <2>3 DEF Book!BookNext
<1>3. CASE l.call # NoCall
  <2>1. PICK c \in Calls : c = l.call
    BY <1>3 DEF Line, MaybeCall
  <2>2. /\ events_by_call' = [events_by_call EXCEPT ![c] = Append(events_by_call[c], l)]
        /\ ambient_events' = ambient_events
    BY <1>3, <2>1 DEF Deliver
  <2>3. events_by_call[c] \in Seq(Line) /\ events_by_call'[c] = Append(events_by_call[c], l)
    BY <2>2 DEF MonitorTypeOK
  <2>4. Book!GrowsByOne(events_by_call[c], events_by_call'[c])
    BY <2>3, AppendGrows
  <2>5. Book!File(c)
    BY <1>1, <2>2, <2>3, <2>4 DEF Book!File, Handed
  <2> QED
    BY <2>5 DEF Book!BookNext
<1> QED
  BY <1>2, <1>3

(* end_call hands over all that was filed for its call.                          *)
LEMMA EndHandsOver ==
  ASSUME MonitorTypeOK, SummaryInv, NEW c \in Calls, NEW timeout \in BOOLEAN, EndReturns(c, timeout)
  PROVE  Book!BookNext
<1> DEFINE s == [events    |-> events_by_call[c], truncated |-> dropped > 0,
                 answered  |-> end_signals[c] = "set"]
<1>1. s \in Summary /\ s # NoSummary /\ s.events = events_by_call[c]
  <2>1. s \in Summary
    BY DEF MonitorTypeOK, Summary
  <2>2. s.events = events_by_call[c]
    OBVIOUS
  <2> HIDE DEF s
  <2> QED
    BY <2>1, <2>2, SummaryAssumption
<1>2. summary' = [summary EXCEPT ![c] = s] /\ summary[c] = NoSummary
  BY DEF EndReturns, SummaryInv
<1> HIDE DEF s
<1>3. Handed[c] = NoSummary
  BY <1>2 DEF Handed
<1>4. Handed' = [Handed EXCEPT ![c] = events_by_call[c]]
  BY <1>1, <1>2 DEF Handed, MonitorTypeOK
<1>5. /\ events_by_call' = [events_by_call EXCEPT ![c] = <<>>]
      /\ ambient_events' = ambient_events
  BY DEF EndReturns
<1>6. Book!HandOver(c)
  BY <1>3, <1>4, <1>5 DEF Book!HandOver, Handed
<1> QED
  BY <1>6 DEF Book!BookNext

(* The monitor is a book: every line it reads is filed once, in order, and the    *)
(* summary of a call is all that was filed for it.  Crashes, timeouts and         *)
(* restarts of the sidecar included.                                             *)
THEOREM KeepsTheBook == Spec => KeepsBook
<1>1. Init => Book!BookInit /\ SummaryInv
  BY DEF Init, MonitorInit, Book!BookInit, SummaryInv
<1>2. TypeInv /\ SummaryInv /\ [Next]_vars => [Book!BookNext]_BookVars
  <2> SUFFICES ASSUME TypeInv, SummaryInv, [Next]_vars PROVE [Book!BookNext]_BookVars
    OBVIOUS
  <2>1. CASE UNCHANGED <<events_by_call, ambient_events, summary>>
    BY <2>1 DEF BookVars, Handed
  <2>2. CASE ReadStdout
    <3>1. Head(stdout) \in Line
      BY <2>2 DEF ReadStdout, TakeLine, TypeInv, TypeOK, SidecarTypeOK
    <3> QED
      BY <2>2, <3>1, DeliverFiles DEF ReadStdout, TypeInv, TypeOK
  <2>3. ASSUME NEW c \in Calls, NEW timeout \in BOOLEAN, EndReturns(c, timeout)
        PROVE  [Book!BookNext]_BookVars
    BY <2>3, EndHandsOver DEF TypeInv, TypeOK
  <2> QED
    BY <2>1, <2>2, <2>3, MonitorSteps DEF vars, monitorVars, collected
<1>3. TypeInv /\ SummaryInv /\ [Next]_vars => SummaryInv'
  BY SummaryKept
<1> QED
  BY <1>1, <1>2, <1>3, TypeInvariant, PTL DEF Spec, KeepsBook, Book!BookSpec, BookVars, Handed
================================================================================
