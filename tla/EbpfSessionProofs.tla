-------------------------- MODULE EbpfSessionProofs ----------------------------
(* Theorems about the eBPF backend in the session of EbpfSession, for every set  *)
(* of calls, processes and groups, every ring capacity, every batch size that is *)
(* not below it and every bound on the events.                                   *)
EXTENDS EbpfSession, EbpfSidecarProofs

(* The inductive invariant behind PassCoversItsStart: the records a pass owes    *)
(* are the submitted ones at the head of the ring, and what the pass has taken   *)
(* plus what it owes never exceeds a full ring (one more while a record is at    *)
(* hand, which is counted as taken and not released yet).                        *)
OwedIsReady == owed <= Len(ring) /\ \A i \in 1..owed : ring[i].ready
OwedFits ==
  owed > 0 => \/ mpc = "drain" /\ drained + owed <= RingCap
              \/ mpc \in {"filter", "write"} /\ drained + owed <= RingCap + 1
PassInv == OwedIsReady /\ InHand /\ OwedFits

--------------------------------------------------------------------------------
(* Type correctness.                                                             *)

(* What is open now is a tag.                                                    *)
LEMMA NowType == Now \in Tag
BY DEF Now, Tag, OpenCalls, Edge

(* Types hold together with InHand, without which Head and Tail would not be     *)
(* defined where the main loop uses them.                                        *)
LEMMA TypeInvariant == Spec => [](TypeOK /\ InHand)
<1>1. Init => TypeOK /\ InHand
  BY InitTypes DEF Init, TypeOK
<1>2. TypeOK /\ InHand /\ [Next]_vars => TypeOK' /\ InHand'
  <2> SUFFICES ASSUME TypeOK, InHand, [Next]_vars
               PROVE  SidecarTypeOK' /\ InHand' /\ sent' \subseteq Messages
    BY DEF TypeOK
  <2>1. CASE \E m \in Messages : ClientSend(m)
    <3>1. PICK m \in Messages : ClientSend(m)
      BY <2>1
    <3>2. m \in Control
      BY SessionAssumption
    <3>3. stdin' \in Seq(Control) /\ sent' \subseteq Messages
      BY <3>1, <3>2 DEF ClientSend, TypeOK, SidecarTypeOK
    <3> QED
      BY <3>1, <3>3
         DEF ClientSend, TypeOK, SidecarTypeOK, KernelTypeOK, InHand, state, mainVars, processes
  <2>2. CASE ControlThread
    BY <2>2, ControlKeepsTypes, StepKeepsInHand DEF ControlThread, TypeOK
  <2>3. CASE MainThread
    BY <2>3, MainKeepsTypes, StepKeepsInHand DEF MainThread, TypeOK
  <2>4. CASE Kernel
    <3>1. CASE \E s \in Syscalls : Capture(s[1], s[2])
      <4>1. KernelTypeOK' /\ ring' # <<>>
        BY <3>1, NowType, ReserveTypes, SessionAssumption DEF Capture, TypeOK, SidecarTypeOK
      <4> QED
        BY <3>1, <4>1 DEF Capture, TypeOK, SidecarTypeOK, InHand, controlVars, state, mainVars, processes
    <3>2. CASE \E i \in DOMAIN ring : Commit(i)
      <4>1. KernelTypeOK' /\ ring' # <<>>
        BY <3>2, NowType, SubmitTypes DEF Commit, TypeOK, SidecarTypeOK
      <4> QED
        BY <3>2, <4>1 DEF Commit, TypeOK, SidecarTypeOK, InHand, controlVars, state, mainVars, processes
    <3>3. CASE \E p \in Movers, g \in MaybeGroup : Regroup(p, g)
      <4>1. seen' \in [Procs -> SUBSET MaybeGroup] /\ pgrp' \in [Procs -> MaybeGroup]
        BY <3>3, SessionAssumption DEF Regroup, TypeOK, SidecarTypeOK
      <4> QED
        BY <3>3, <4>1
           DEF Regroup, TypeOK, SidecarTypeOK, KernelTypeOK, InHand, controlVars, state, mainVars, processes
    <3> QED
      BY <2>4, <3>1, <3>2, <3>3 DEF Kernel
  <2>5. CASE UNCHANGED vars
    BY <2>5 DEF vars, TypeOK, InHand, SidecarTypeOK, KernelTypeOK, controlVars, state, mainVars, processes
  <2> QED
    BY <2>1, <2>2, <2>3, <2>4, <2>5 DEF Next
<1> QED
  BY <1>1, <1>2, PTL DEF Spec

(* TypeOK holds: every state component of the sidecar has its type.              *)
THEOREM TypeCorrect == Spec => []TypeOK
BY TypeInvariant, PTL

--------------------------------------------------------------------------------
(* A pass takes what it found: PassCoversItsStart.                               *)

(* Releasing the record at hand pays one owed record.                            *)
LEMMA ReleasePays ==
  ASSUME SidecarTypeOK, InHand, PassInv, mpc \in {"filter", "write"}, Release,
         drained' = drained, mpc' \in {"drain"}
  PROVE  OwedIsReady' /\ OwedFits'
<1>1. ring # <<>> /\ ring \in Seq(Record) /\ owed \in Nat
  BY DEF InHand, SidecarTypeOK, KernelTypeOK
<1>2. Len(ring') = Len(ring) - 1 /\ \A i \in 1..Len(ring') : ring'[i] = ring[i + 1]
  BY <1>1 DEF Release
<1>3. CASE owed = 0
  BY <1>1, <1>2, <1>3 DEF Release, OwedIsReady, OwedFits
<1>4. CASE owed > 0
  <2>1. owed' = owed - 1
    BY <1>4 DEF Release
  <2>2. OwedIsReady'
    BY <1>1, <1>2, <1>4, <2>1 DEF PassInv, OwedIsReady
  <2>3. OwedFits'
    BY <1>1, <1>4, <2>1, RingCapAssumption, BatchAssumption DEF PassInv, OwedFits, SidecarTypeOK
  <2> QED
    BY <2>2, <2>3
<1> QED
  BY <1>1, <1>3, <1>4

(* A pass that owes records neither finds the ring empty nor reaches the batch   *)
(* limit, because a full ring fits a batch.                                      *)
LEMMA DrainOwesNothing ==
  ASSUME SidecarTypeOK, PassInv, EndDrain
  PROVE  owed = 0
<1> SUFFICES ASSUME owed > 0 PROVE FALSE
  BY DEF SidecarTypeOK
<1>1. owed \in Nat /\ drained \in Nat /\ mpc = "drain"
  BY BatchAssumption DEF SidecarTypeOK, EndDrain, Goto
<1>2. HasNext
  BY <1>1 DEF PassInv, OwedIsReady, HasNext, SidecarTypeOK, KernelTypeOK
<1>3. drained = DrainBatch
  BY <1>2 DEF EndDrain
<1> QED
  BY <1>1, <1>3, RingCapAssumption, BatchAssumption DEF PassInv, OwedFits

(* Every step of the main loop keeps the pass invariant.                         *)
LEMMA MainKeepsPass ==
  ASSUME SidecarTypeOK, InHand, PassInv, MainStep
  PROVE  OwedIsReady' /\ OwedFits'
<1> USE DEF PassInv, Goto
<1>1. CASE WriteReady
  BY <1>1 DEF WriteReady, OwedIsReady, OwedFits
<1>2. CASE BeginPass
  <2>1. owed' \in 0..Len(ring) /\ Len(ring) <= RingCap /\ \A i \in 1..owed' : ring[i].ready
    BY <1>2 DEF BeginPass, IsReadyPrefix, SidecarTypeOK, KernelTypeOK
  <2> QED
    BY <1>2, <2>1, RingCapAssumption DEF BeginPass, OwedIsReady, OwedFits, SidecarTypeOK, KernelTypeOK
<1>3. CASE ExitLoop
  BY <1>3 DEF ExitLoop, OwedIsReady, OwedFits
<1>4. CASE NextRecord
  BY <1>4, RingCapAssumption, BatchAssumption DEF NextRecord, OwedIsReady, OwedFits, SidecarTypeOK
<1>5. CASE KeepRecord
  BY <1>5 DEF KeepRecord, OwedIsReady, OwedFits
<1>6. CASE SkipRecord
  BY <1>6, ReleasePays DEF SkipRecord
<1>7. CASE WriteEvent
  BY <1>7, ReleasePays DEF WriteEvent
<1>8. CASE EndDrain
  BY <1>8, DrainOwesNothing DEF EndDrain, OwedIsReady, OwedFits
<1>9. CASE TakeEnds
  BY <1>9 DEF TakeEnds, OwedIsReady, OwedFits
<1>10. CASE ApplyEnd
  BY <1>10 DEF ApplyEnd, OwedIsReady, OwedFits
<1>11. CASE WriteEnd
  BY <1>11 DEF WriteEnd, OwedIsReady, OwedFits
<1>12. CASE NextPass
  BY <1>12 DEF NextPass, OwedIsReady, OwedFits
<1> QED
  BY <1>1, <1>2, <1>3, <1>4, <1>5, <1>6, <1>7, <1>8, <1>9, <1>10, <1>11, <1>12 DEF MainStep

(* When a pass of the main loop reaches the end marks, the records it found in   *)
(* the ring are out: the promise of the DRAIN_BATCH comment (ebpf.rs:144-148).   *)
THEOREM PassCovers == Spec => []PassCoversItsStart
<1>1. Init => PassInv
  BY DEF Init, SidecarInit, PassInv, InHand, OwedIsReady, OwedFits
<1>2. TypeOK /\ InHand /\ TypeOK' /\ InHand' /\ PassInv /\ [Next]_vars => PassInv'
  <2> SUFFICES ASSUME TypeOK, InHand, InHand', PassInv, [Next]_vars
               PROVE  OwedIsReady' /\ OwedFits'
    BY DEF PassInv
  <2>1. CASE \E m \in Messages : ClientSend(m)
    BY <2>1 DEF ClientSend, mainVars, PassInv, OwedIsReady, OwedFits
  <2>2. CASE ControlThread
    BY <2>2 DEF ControlThread, ControlStep, ReadLine, ReadScope, ReadBegin, ReadEnd, ReadIgnored,
                ReadShutdown, WriteStatus, mainVars, PassInv, OwedIsReady, OwedFits
  <2>3. CASE MainThread
    BY <2>3, MainKeepsPass DEF MainThread, TypeOK
  <2>4. CASE Kernel
    <3>1. CASE \E s \in Syscalls : Capture(s[1], s[2])
      <4>1. /\ Len(ring') = Len(ring) + 1 /\ owed' = owed /\ owed \in Nat
            /\ \A i \in 1..Len(ring) : ring'[i] = ring[i]
        BY <3>1 DEF Capture, Reserve, mainVars, TypeOK, SidecarTypeOK, KernelTypeOK
      <4>2. Len(ring) \in Nat
        BY DEF TypeOK, SidecarTypeOK, KernelTypeOK
      <4>3. OwedIsReady'
        BY <4>1, <4>2 DEF PassInv, OwedIsReady
      <4> QED
        BY <3>1, <4>3 DEF Capture, mainVars, PassInv, OwedFits
    <3>2. CASE \E i \in DOMAIN ring : Commit(i)
      <4>1. /\ Len(ring') = Len(ring) /\ owed' = owed /\ owed \in Nat
            /\ \A i \in 1..Len(ring) : ring[i].ready => ring'[i].ready
        BY <3>2 DEF Commit, Submit, mainVars, TypeOK, SidecarTypeOK, KernelTypeOK, Record
      <4> QED
        BY <3>2, <4>1 DEF Commit, mainVars, PassInv, OwedIsReady, OwedFits, TypeOK, SidecarTypeOK, KernelTypeOK
    <3>3. CASE \E p \in Movers, g \in MaybeGroup : Regroup(p, g)
      BY <3>3 DEF Regroup, mainVars, PassInv, OwedIsReady, OwedFits
    <3> QED
      BY <2>4, <3>1, <3>2, <3>3 DEF Kernel
  <2>5. CASE UNCHANGED vars
    BY <2>5 DEF vars, mainVars, PassInv, OwedIsReady, OwedFits
  <2> QED
    BY <2>1, <2>2, <2>3, <2>4, <2>5 DEF Next
<1>3. TypeOK /\ PassInv => PassCoversItsStart
  BY DEF PassInv, OwedFits, PassCoversItsStart, TypeOK, SidecarTypeOK
<1> QED
  BY <1>1, <1>2, <1>3, TypeInvariant, PTL DEF Spec

--------------------------------------------------------------------------------
(* A filter decision is not older than its pass: FilteredByThisPass.  During a   *)
(* drain the cache holds groups its processes had in this pass, and the record   *)
(* about to be written passed the filter with the group the cache now holds.     *)
CacheFresh ==
  mpc \in {"drain", "filter", "write"} =>
    \A p \in Procs : pgrp[p] \in seen[p] /\ pgid_cache[p] \in seen[p] \cup {Unread}
KeptByCache == mpc = "write" /\ snap.scoped => pgid_cache[Head(ring).pid] = snap.scope
CacheInv == CacheFresh /\ KeptByCache

(* A look-up adds to the cache nothing but a group of this pass.                 *)
LEMMA LookUpFresh ==
  ASSUME SidecarTypeOK, CacheFresh, mpc = "filter", NEW p \in Procs, LookUp(p)
  PROVE  /\ \A q \in Procs : pgid_cache'[q] \in seen[q] \cup {Unread}
         /\ snap.scoped => pgid_cache'[p] = Pgid(p)
BY DEF SidecarTypeOK, CacheFresh, LookUp, Pgid

(* Every step of the main loop keeps the cache invariant.                        *)
LEMMA MainKeepsCache ==
  ASSUME SidecarTypeOK, InHand, CacheInv, MainStep
  PROVE  CacheInv'
<1> USE DEF CacheInv, Goto, processes
<1>1. CASE WriteReady \/ ExitLoop \/ EndDrain \/ TakeEnds \/ ApplyEnd \/ WriteEnd \/ NextPass
  BY <1>1 DEF WriteReady, ExitLoop, EndDrain, TakeEnds, ApplyEnd, WriteEnd, NextPass, CacheFresh, KeptByCache
<1>2. CASE BeginPass
  BY <1>2 DEF BeginPass, EmptyCache, CacheFresh, KeptByCache
<1>3. CASE NextRecord
  BY <1>3 DEF NextRecord, CacheFresh, KeptByCache
<1>4. CASE KeepRecord
  <2>1. Head(ring).pid \in Procs /\ LookUp(Head(ring).pid) /\ InScope(Head(ring).pid)
    BY <1>4, ReleaseTypes DEF KeepRecord, Record
  <2>2. /\ \A q \in Procs : pgid_cache'[q] \in seen[q] \cup {Unread}
        /\ snap.scoped => pgid_cache'[Head(ring).pid] = snap.scope
    BY <1>4, <2>1, LookUpFresh DEF KeepRecord, InScope
  <2> QED
    BY <1>4, <2>2 DEF KeepRecord, CacheFresh, KeptByCache
<1>5. CASE SkipRecord
  <2>1. Head(ring).pid \in Procs /\ LookUp(Head(ring).pid)
    BY <1>5, ReleaseTypes DEF SkipRecord, Record
  <2>2. \A q \in Procs : pgid_cache'[q] \in seen[q] \cup {Unread}
    BY <1>5, <2>1, LookUpFresh DEF SkipRecord
  <2> QED
    BY <1>5, <2>2 DEF SkipRecord, CacheFresh, KeptByCache
<1>6. CASE WriteEvent
  BY <1>6 DEF WriteEvent, CacheFresh, KeptByCache
<1> QED
  BY <1>1, <1>2, <1>3, <1>4, <1>5, <1>6 DEF MainStep

(* An event written while a scope is set is of a process that was in that scope  *)
(* at some moment of the pass (the cache of ebpf.rs:148-149, the filter of       *)
(* ebpf.rs:178-184), however processes exit, appear or change group.             *)
THEOREM FilterIsFresh == Spec => []FilteredByThisPass
<1>1. Init => CacheInv
  BY DEF Init, SidecarInit, CacheInv, CacheFresh, KeptByCache
<1>2. TypeOK /\ InHand /\ CacheInv /\ [Next]_vars => CacheInv'
  <2> SUFFICES ASSUME TypeOK, InHand, CacheInv, [Next]_vars
               PROVE  CacheInv'
    OBVIOUS
  <2> USE DEF CacheInv, CacheFresh, KeptByCache, mainVars, processes
  <2>1. CASE \E m \in Messages : ClientSend(m)
    BY <2>1 DEF ClientSend
  <2>2. CASE ControlThread
    BY <2>2 DEF ControlThread, ControlStep, ReadLine, ReadScope, ReadBegin, ReadEnd, ReadIgnored,
                ReadShutdown, WriteStatus
  <2>3. CASE MainThread
    BY <2>3, MainKeepsCache DEF MainThread, TypeOK
  <2>4. CASE Kernel
    <3>1. CASE \E s \in Syscalls : Capture(s[1], s[2])
      <4>1. ring # <<>> => Head(ring') = Head(ring)
        BY <3>1 DEF Capture, Reserve, TypeOK, SidecarTypeOK, KernelTypeOK
      <4> QED
        BY <3>1, <4>1 DEF Capture, InHand
    <3>2. CASE \E i \in DOMAIN ring : Commit(i)
      <4>1. PICK i \in DOMAIN ring : Commit(i)
        BY <3>2
      <4>2. ring \in Seq(Record)
        BY DEF TypeOK, SidecarTypeOK, KernelTypeOK
      <4>3. ring' = [ring EXCEPT ![i] = [ring[i] EXCEPT !.ready = TRUE, !.tag = Throughout(ring[i].tag, Now)]]
        BY <4>1, <4>2 DEF Commit, Submit
      <4>4. ASSUME ring # <<>> PROVE ring'[1].pid = ring[1].pid
        <5>1. 1 \in DOMAIN ring /\ ring[1] \in Record
          BY <4>2, <4>4
        <5> QED
          BY <4>3, <5>1 DEF Record
      <4>5. ring # <<>> => Head(ring').pid = Head(ring).pid
        BY <4>4
      <4> QED
        BY <4>1, <4>5 DEF Commit, InHand
    <3>3. CASE \E p \in Movers, g \in MaybeGroup : Regroup(p, g)
      BY <3>3 DEF Regroup, TypeOK, SidecarTypeOK
    <3> QED
      BY <2>4, <3>1, <3>2, <3>3 DEF Kernel
  <2>5. CASE UNCHANGED vars
    BY <2>5 DEF vars
  <2> QED
    BY <2>1, <2>2, <2>3, <2>4, <2>5 DEF Next
<1>3. TypeOK /\ InHand /\ CacheInv => FilteredByThisPass
  <2> SUFFICES ASSUME TypeOK, InHand, CacheInv, mpc = "write", snap.scoped
               PROVE  snap.scope \in seen[Head(ring).pid]
    BY DEF FilteredByThisPass
  <2>1. Head(ring).pid \in Procs
    BY ReleaseTypes DEF TypeOK, Record
  <2>2. snap.scope \in MaybeGroup
    BY DEF TypeOK, SidecarTypeOK, Snap
  <2> QED
    BY <2>1, <2>2, BatchAssumption DEF CacheInv, CacheFresh, KeptByCache
<1> QED
  BY <1>1, <1>2, <1>3, TypeInvariant, PTL DEF Spec

--------------------------------------------------------------------------------
(* The end status of a call is the last word on it, whatever the order of the    *)
(* marks.  The inductive invariant follows a call id from its begin mark on stdin *)
(* to its end status on stdout.  On it rests the refinement of CallLedger.       *)

(* A mark is written once, an end mark behind the begin mark of its call.        *)
MarksInOrder ==
  /\ \A i \in DOMAIN stdin : stdin[i] \in sent
  /\ \A i, j \in DOMAIN stdin : stdin[i] = stdin[j] => i = j
  /\ \A c \in Calls : \A i \in DOMAIN stdin :
       stdin[i] = End(c) =>
         Begin(c) \in sent /\ \A j \in DOMAIN stdin : stdin[j] = Begin(c) => j < i

(* What the sidecar holds was begun, and a call some end status named is not held *)
(* any more where an event could pick it up.                                     *)
ClosedCalls == EndedIn(stdout)
LedgerInv ==
  /\ MarksInOrder /\ StatusKind
  /\ HoldsOnly(BegunCalls) /\ ClosedCalls \subseteq BegunCalls /\ LetGo(ClosedCalls)
  /\ NoEventAfterEnd

--------------------------------------------------------------------------------
(* Marks on stdin.                                                               *)

(* Writing a mark keeps the order, and a call that was begun stays begun.        *)
LEMMA SendKeepsMarks ==
  ASSUME TypeOK, MarksInOrder, NEW m \in Messages, ClientSend(m)
  PROVE  MarksInOrder' /\ BegunCalls \subseteq BegunCalls'
<1>1. /\ stdin \in Seq(Control) /\ Len(stdin) \in Nat /\ Len(stdin') = Len(stdin) + 1
      /\ stdin'[Len(stdin) + 1] = m /\ \A i \in 1..Len(stdin) : stdin'[i] = stdin[i]
      /\ DOMAIN stdin = 1..Len(stdin) /\ DOMAIN stdin' = 1..(Len(stdin) + 1)
  BY SessionAssumption DEF TypeOK, SidecarTypeOK, ClientSend
<1>2. m \notin sent /\ sent' = sent \cup {m}
  BY DEF ClientSend
<1>3. \A i \in DOMAIN stdin' : stdin'[i] \in sent'
  BY <1>1, <1>2 DEF MarksInOrder
<1>4. \A i, j \in DOMAIN stdin' : stdin'[i] = stdin'[j] => i = j
  BY <1>1, <1>2 DEF MarksInOrder
<1>5. ASSUME NEW c \in Calls, NEW i \in DOMAIN stdin', stdin'[i] = End(c)
      PROVE  Begin(c) \in sent' /\ \A j \in DOMAIN stdin' : stdin'[j] = Begin(c) => j < i
  <2>1. CASE i \in 1..Len(stdin)
    BY <1>1, <1>2, <1>5, <2>1 DEF MarksInOrder
  <2>2. CASE i = Len(stdin) + 1
    <3>1. m = End(c) /\ c # NoCall
      BY <1>1, <1>5, <2>2, ProtocolAssumption
    <3>2. Begin(c) \in sent
      BY <3>1 DEF ClientSend, End
    <3>3. Begin(c) # m
      BY <3>1, MarksDiffer
    <3> QED
      BY <1>1, <1>2, <2>2, <3>2, <3>3
  <2> QED
    BY <1>1, <1>5, <2>1, <2>2
<1>6. BegunCalls \subseteq BegunCalls'
  BY <1>1, <1>2 DEF BegunCalls, Contains
<1> QED
  BY <1>3, <1>4, <1>5, <1>6 DEF MarksInOrder

(* Reading a line keeps the order; a begin mark that is read begins its call,    *)
(* which was not begun before, and an end mark that is read is of a begun call.  *)
LEMMA ReadKeepsMarks ==
  ASSUME TypeOK, MarksInOrder, stdin # <<>>, stdin' = Tail(stdin), sent' = sent
  PROVE  /\ MarksInOrder' /\ BegunCalls \subseteq BegunCalls'
         /\ Head(stdin).op = "begin" /\ Head(stdin).arg # NoCall =>
              Head(stdin).arg \in BegunCalls' \ BegunCalls
         /\ Head(stdin).op = "end" => Head(stdin).arg \in BegunCalls' \cup {NoCall}
<1>1. /\ stdin \in Seq(Control) /\ Len(stdin) \in Nat \ {0} /\ Len(stdin') = Len(stdin) - 1
      /\ \A i \in 1..Len(stdin') : stdin'[i] = stdin[i + 1] /\ i + 1 \in 1..Len(stdin)
      /\ DOMAIN stdin = 1..Len(stdin) /\ DOMAIN stdin' = 1..Len(stdin')
      /\ Head(stdin) = stdin[1] /\ Head(stdin) \in Control
  BY DEF TypeOK, SidecarTypeOK
<1>2. \A i \in DOMAIN stdin' : stdin'[i] \in sent'
  BY <1>1 DEF MarksInOrder
<1>3. \A i, j \in DOMAIN stdin' : stdin'[i] = stdin'[j] => i = j
  BY <1>1 DEF MarksInOrder
<1>4. ASSUME NEW c \in Calls, NEW i \in DOMAIN stdin', stdin'[i] = End(c)
      PROVE  Begin(c) \in sent' /\ \A j \in DOMAIN stdin' : stdin'[j] = Begin(c) => j < i
  BY <1>1, <1>4 DEF MarksInOrder
<1>5. BegunCalls \subseteq BegunCalls'
  BY <1>1 DEF BegunCalls, Contains
<1>6. ASSUME Head(stdin).op = "begin", Head(stdin).arg # NoCall
      PROVE  Head(stdin).arg \in BegunCalls' \ BegunCalls
  <2> DEFINE c == Head(stdin).arg
  <2>1. c \in Calls /\ stdin[1] = Begin(c)
    BY <1>1, <1>6, ControlTypes, MarksDiffer DEF MaybeCall
  <2>2. \A i \in 1..Len(stdin') : stdin'[i] # Begin(c)
    BY <1>1, <2>1 DEF MarksInOrder
  <2> QED
    BY <1>1, <2>1, <2>2 DEF BegunCalls, Contains, MarksInOrder
<1>7. ASSUME Head(stdin).op = "end", Head(stdin).arg # NoCall
      PROVE  Head(stdin).arg \in BegunCalls'
  <2> DEFINE c == Head(stdin).arg
  <2>1. c \in Calls /\ stdin[1] = End(c)
    BY <1>1, <1>7, ControlTypes, MarksDiffer DEF MaybeCall
  <2>2. Begin(c) \in sent /\ \A j \in 1..Len(stdin) : stdin[j] # Begin(c)
    BY <1>1, <2>1 DEF MarksInOrder
  <2> QED
    BY <1>1, <2>1, <2>2 DEF BegunCalls, Contains
<1> QED
  BY <1>2, <1>3, <1>4, <1>5, <1>6, <1>7 DEF MarksInOrder

(* Every step but the client's leaves the marks written alone, and the main loop *)
(* and the kernel leave the marks read alone.                                     *)
LEMMA LedgerStep ==
  ASSUME TypeOK, InHand, LedgerInv, Next
  PROVE  LedgerInv' /\ BegunCalls \subseteq BegunCalls'
<1> USE DEF TypeOK, SidecarTypeOK
<1>0. /\ NoCall \notin ClosedCalls /\ ClosedCalls \subseteq BegunCalls /\ Orderly(stdout)
      /\ ended \in BegunCalls \cup {NoCall}
  BY ProtocolAssumption DEF ClosedCalls, EndedIn, LedgerInv, NoEventAfterEnd, Orderly, HoldsOnly
<1>a. PICK B : B = BegunCalls
  OBVIOUS
<1>b. PICK D : D = ClosedCalls
  OBVIOUS
<1>c. HoldsOnly(B) /\ LetGo(D) /\ D \subseteq B /\ NoCall \notin D
  BY <1>0, <1>a, <1>b DEF LedgerInv
<1>1. CASE \E m \in Messages : ClientSend(m)
  <2>1. PICK m \in Messages : ClientSend(m)
    BY <1>1
  <2>2. MarksInOrder' /\ BegunCalls \subseteq BegunCalls'
    BY <2>1, SendKeepsMarks DEF LedgerInv
  <2>3. UNCHANGED <<stdout, active_call, pending_ends, status, mpc, snap, ends, ended>>
    BY <2>1 DEF ClientSend, state, mainVars
  <2> QED
    BY <2>2, <2>3 DEF LedgerInv, HoldsOnly, LetGo, ClosedCalls, EndedIn, StatusKind, NoEventAfterEnd
<1>2. CASE ControlThread /\ ReadSomething
  <2>1. stdin # <<>> /\ stdin' = Tail(stdin) /\ sent' = sent /\ StatusKind
    BY <1>2 DEF ControlThread, ReadSomething, ReadScope, ReadBegin, ReadEnd, ReadIgnored, ReadShutdown,
                ReadLine, LedgerInv
  <2>2. PICK B2 : B2 = BegunCalls'
    OBVIOUS
  <2>3. /\ MarksInOrder' /\ B \subseteq B2
        /\ Head(stdin).op = "begin" /\ Head(stdin).arg # NoCall => Head(stdin).arg \in B2 \ B
        /\ Head(stdin).op = "end" => Head(stdin).arg \in B2 \cup {NoCall}
    BY <2>1, <2>2, <1>a, ReadKeepsMarks DEF LedgerInv
  <2>4. HoldsOnly(B2)' /\ LetGo(D)' /\ StatusKind' /\ stdout' = stdout
    BY <1>2, <1>c, <2>1, <2>3, ReadHolds
  <2>5. HoldsOnly(BegunCalls)' /\ LetGo(ClosedCalls)' /\ ClosedCalls' = ClosedCalls
    BY <1>b, <2>2, <2>4 DEF HoldsOnly, LetGo, ClosedCalls
  <2> QED
    BY <1>0, <1>a, <2>2, <2>3, <2>4, <2>5 DEF LedgerInv, NoEventAfterEnd
<1>3. CASE (ControlThread /\ WriteStatus) \/ MainThread
  <2>1. /\ HoldsOnly(B)' /\ WritesOnly(D) /\ StatusKind' /\ UNCHANGED <<stdin, sent>>
        \/ /\ HoldsOnly(B)' /\ LetGo(D)' /\ StatusKind' /\ UNCHANGED <<stdin, sent>>
           /\ stdout' = Append(stdout, status) /\ status \in Line /\ status.msg \notin {"end", "event"}
    <3>1. CASE ControlThread /\ WriteStatus
      BY <1>c, <3>1, StatusHolds DEF LedgerInv, ControlThread
    <3>2. CASE MainThread
      BY <1>c, <3>2, MainHolds DEF LedgerInv, MainThread, StatusKind
    <3> QED
      BY <1>3, <3>1, <3>2
  <2>2. MarksInOrder' /\ BegunCalls' = BegunCalls /\ StatusKind'
    BY <2>1 DEF MarksInOrder, BegunCalls, LedgerInv
  <2>3. HoldsOnly(BegunCalls)'
    BY <1>a, <2>1, <2>2 DEF HoldsOnly
  <2>4. ClosedCalls' \subseteq BegunCalls /\ LetGo(ClosedCalls)' /\ Orderly(stdout)'
    <3>1. CASE stdout' = stdout /\ LetGo(D)'
      BY <1>0, <1>b, <3>1 DEF ClosedCalls, LetGo
    <3>2. ASSUME NEW l \in Line, stdout' = Append(stdout, l), l.msg # "end", LetGo(D)',
                 l.msg = "event" => l.call \notin ClosedCalls
          PROVE  ClosedCalls' \subseteq BegunCalls /\ LetGo(ClosedCalls)' /\ Orderly(stdout)'
      <4>1. ClosedCalls' = ClosedCalls /\ Orderly(stdout)'
        BY <1>0, <3>2, EndedByEndLines, LineKeepsOrder DEF ClosedCalls
      <4> QED
        BY <1>0, <1>b, <3>2, <4>1 DEF LetGo
    <3>3. ASSUME NEW c \in MaybeCall, c = ended, stdout' = Append(stdout, EndLine(c)),
                 LetGo(D \cup ({c} \ {NoCall}))'
          PROVE  ClosedCalls' \subseteq BegunCalls /\ LetGo(ClosedCalls)' /\ Orderly(stdout)'
      <4>1. EndLine(c) \in Line /\ EndLine(c).msg = "end" /\ EndLine(c).call = c
        BY LineTypes DEF EndLine, Status
      <4>2. ClosedCalls' = ClosedCalls \cup (Calls \cap {c}) /\ Orderly(stdout)'
        BY <1>0, <3>3, <4>1, EndedByEndLines, LineKeepsOrder DEF ClosedCalls
      <4>3. Calls \cap {c} = {c} \ {NoCall}
        BY ProtocolAssumption DEF MaybeCall
      <4> QED
        BY <1>0, <1>b, <3>3, <4>2, <4>3 DEF LetGo
    <3> QED
      BY <1>b, <1>c, <2>1, <3>1, <3>2, <3>3 DEF WritesOnly, LetGo, ReadyLine, Status
  <2> QED
    BY <2>2, <2>3, <2>4 DEF LedgerInv, NoEventAfterEnd, Orderly
<1>4. CASE Kernel
  <2>1. UNCHANGED <<stdin, sent, stdout, active_call, pending_ends, status, mpc, snap, ends, ended>>
    BY <1>4 DEF Kernel, Capture, Commit, Regroup, controlVars, state, mainVars
  <2> QED
    BY <2>1 DEF LedgerInv, MarksInOrder, BegunCalls, HoldsOnly, LetGo, ClosedCalls, EndedIn, StatusKind,
                NoEventAfterEnd
<1> QED
  BY <1>1, <1>2, <1>3, <1>4 DEF Next, ControlThread, ControlStep, ReadSomething

(* LedgerInv is inductive on top of the types.                                   *)
LEMMA LedgerInvariant == Spec => []LedgerInv
<1>1. Init => LedgerInv
  <2> SUFFICES ASSUME Init PROVE LedgerInv
    OBVIOUS
  <2>1. StatusKind
    BY DEF Init, SidecarInit, StatusKind
  <2>2. MarksInOrder /\ ClosedCalls = {} /\ NoEventAfterEnd
    BY DEF Init, SidecarInit, MarksInOrder, ClosedCalls, EndedIn, NoEventAfterEnd
  <2>3. HoldsOnly(BegunCalls) /\ LetGo({})
    BY DEF Init, SidecarInit, NoSnap, HoldsOnly, LetGo
  <2> QED
    BY <2>1, <2>2, <2>3 DEF LedgerInv
<1>2. TypeOK /\ InHand /\ LedgerInv /\ [Next]_vars => LedgerInv'
  <2>1. TypeOK /\ LedgerInv /\ UNCHANGED vars => LedgerInv'
    BY DEF vars, controlVars, state, mainVars, LedgerInv, MarksInOrder, HoldsOnly, LetGo, BegunCalls,
           ClosedCalls, EndedIn, StatusKind, NoEventAfterEnd
  <2> QED
    BY <2>1, LedgerStep
<1> QED
  BY <1>1, <1>2, TypeInvariant, PTL DEF Spec

(* No event line after the end status of a call names that call: what end_call   *)
(* of the monitor relies on when it returns its summary (monitor.py:147-149).    *)
THEOREM EndIsFinal == Spec => []NoEventAfterEnd
BY LedgerInvariant, PTL DEF LedgerInv

--------------------------------------------------------------------------------
(* The eBPF backend implements the call ledger: each step maps to a step of      *)
(* CallLedger or changes nothing there.                                          *)

LedgerLog  == [i \in DOMAIN stdout |-> Untagged(stdout[i])]
LedgerVars == <<LedgerLog, BegunCalls \ AnsweredCalls, AnsweredCalls>>

(* The record at hand is attributed to a call exactly when its bucket says so.   *)
SnapCoherent == snap.bucket = "call" <=> snap.call # NoCall

--------------------------------------------------------------------------------
(* An appended line is appended to the ledger without its tag.                   *)
LEMMA LogAppends ==
  ASSUME stdout \in Seq(Line), NEW l \in Line, stdout' = Append(stdout, l)
  PROVE  /\ LedgerLog' = Append(LedgerLog, Untagged(l))
         /\ AnsweredCalls' = AnsweredCalls \cup {c \in Calls : l = EndLine(c)}
<1>1. /\ Len(stdout) \in Nat /\ DOMAIN stdout = 1..Len(stdout)
      /\ DOMAIN stdout' = 1..(Len(stdout) + 1) /\ Len(stdout') = Len(stdout) + 1
      /\ stdout'[Len(stdout) + 1] = l /\ \A i \in 1..Len(stdout) : stdout'[i] = stdout[i]
  OBVIOUS
<1>2. LedgerLog' = Append(LedgerLog, Untagged(l))
  <2>1. LedgerLog \in Seq({Untagged(m) : m \in Line}) /\ Len(LedgerLog) = Len(stdout)
    BY <1>1 DEF LedgerLog
  <2> QED
    BY <1>1, <2>1 DEF LedgerLog
<1>3. \A c \in Calls : Answered(c)' <=> Answered(c) \/ l = EndLine(c)
  BY <1>1 DEF Answered, Contains
<1> QED
  BY <1>2, <1>3 DEF AnsweredCalls

(* Answered calls are closed calls.                                              *)
LEMMA AnsweredAreClosed ==
  ASSUME stdout \in Seq(Line)
  PROVE  AnsweredCalls \subseteq ClosedCalls
BY DEF AnsweredCalls, Answered, Contains, ClosedCalls, EndedIn, EndLine, Status

(* Reading a begin mark opens its call; no other step changes which calls were   *)
(* begun.                                                                        *)
LEMMA BegunExactly ==
  ASSUME TypeOK, LedgerInv, Next
  PROVE  \/ BegunCalls' = BegunCalls
         \/ /\ ControlThread /\ UNCHANGED stdout
            /\ \E c \in Calls \ BegunCalls : BegunCalls' = BegunCalls \cup {c}
<1> USE DEF TypeOK, SidecarTypeOK
<1>1. CASE \E m \in Messages : ClientSend(m)
  <2>1. PICK m \in Messages : ClientSend(m)
    BY <1>1
  <2>2. /\ Len(stdin) \in Nat /\ Len(stdin') = Len(stdin) + 1 /\ stdin'[Len(stdin) + 1] = m
        /\ \A i \in 1..Len(stdin) : stdin'[i] = stdin[i]
        /\ sent' = sent \cup {m} /\ m \notin sent
    BY <2>1, SessionAssumption DEF ClientSend
  <2>3. \A c \in Calls : c \in BegunCalls' <=> c \in BegunCalls
    <3> SUFFICES ASSUME NEW c \in Calls PROVE c \in BegunCalls' <=> c \in BegunCalls
      OBVIOUS
    <3>1. c \in BegunCalls => c \in BegunCalls'
      BY <2>1, SendKeepsMarks DEF LedgerInv
    <3>2. ASSUME c \in BegunCalls' PROVE c \in BegunCalls
      <4>1. Begin(c) \in sent' /\ \A i \in 1..Len(stdin') : stdin'[i] # Begin(c)
        BY <3>2 DEF BegunCalls, Contains
      <4>2. Begin(c) # m /\ \A i \in 1..Len(stdin) : stdin[i] # Begin(c)
        BY <2>2, <4>1
      <4> QED
        BY <2>2, <4>1, <4>2 DEF BegunCalls, Contains
    <3> QED
      BY <3>1, <3>2
  <2> QED
    BY <2>3 DEF BegunCalls
<1>2. CASE ControlThread
  <2>1. CASE stdin' = stdin
    BY <1>2, <2>1 DEF ControlThread, BegunCalls
  <2>2. CASE stdin' = Tail(stdin) /\ stdin # <<>> /\ stdout' = stdout
    <3>1. /\ Len(stdin) \in Nat \ {0} /\ Len(stdin') = Len(stdin) - 1 /\ Head(stdin) = stdin[1]
          /\ \A i \in 1..Len(stdin') : stdin'[i] = stdin[i + 1] /\ i + 1 \in 1..Len(stdin)
          /\ \A i \in 1..Len(stdin) : i = 1 \/ i - 1 \in 1..Len(stdin')
      BY <2>2
    <3>2. sent' = sent
      BY <1>2 DEF ControlThread
    <3>3. \A c \in Calls : c \in BegunCalls' => c \in BegunCalls \/ stdin[1] = Begin(c)
      <4> SUFFICES ASSUME NEW c \in Calls, c \in BegunCalls', stdin[1] # Begin(c)
                   PROVE  c \in BegunCalls
        OBVIOUS
      <4>1. \A i \in 1..Len(stdin') : stdin'[i] # Begin(c)
        BY DEF BegunCalls, Contains
      <4>2. ASSUME NEW i \in 1..Len(stdin) PROVE stdin[i] # Begin(c)
        <5>1. CASE i = 1
          BY <5>1
        <5>2. CASE i - 1 \in 1..Len(stdin')
          <6>1. stdin'[i - 1] = stdin[(i - 1) + 1] /\ (i - 1) + 1 = i
            BY <3>1, <5>2
          <6> QED
            BY <4>1, <5>2, <6>1
        <5> QED
          BY <3>1, <5>1, <5>2
      <4> QED
        BY <3>2, <4>2 DEF BegunCalls, Contains
    <3>4. BegunCalls \subseteq BegunCalls'
      BY <2>2, <3>2, ReadKeepsMarks DEF LedgerInv
    <3>5. CASE BegunCalls' # BegunCalls
      <4>1. PICK c \in Calls : c \in BegunCalls' \ BegunCalls
        BY <3>4, <3>5 DEF BegunCalls
      <4>2. stdin[1] = Begin(c)
        BY <3>3, <4>1
      <4>3. BegunCalls' = BegunCalls \cup {c}
        <5>1. \A d \in BegunCalls' : d \in BegunCalls \cup {c}
          <6> SUFFICES ASSUME NEW d \in BegunCalls', d \notin BegunCalls PROVE d = c
            OBVIOUS
          <6>1. d \in Calls
            BY DEF BegunCalls
          <6> QED
            BY <3>3, <4>2, <6>1, MarksDiffer
        <5> QED
          BY <3>4, <4>1, <5>1
      <4> QED
        BY <1>2, <2>2, <4>1, <4>3
    <3> QED
      BY <3>5
  <2> QED
    BY <1>2, <2>1, <2>2 DEF ControlThread, ControlStep, ReadLine, ReadScope, ReadBegin, ReadEnd,
       ReadIgnored, ReadShutdown, WriteStatus
<1>3. CASE MainThread
  BY <1>3 DEF MainThread, MainStep, BegunCalls, controlVars, WriteReady, BeginPass, ExitLoop, NextRecord,
     KeepRecord, SkipRecord, WriteEvent, EndDrain, TakeEnds, ApplyEnd, WriteEnd, NextPass
<1>4. CASE Kernel
  BY <1>4 DEF Kernel, Capture, Commit, Regroup, controlVars, BegunCalls
<1> QED
  BY <1>1, <1>2, <1>3, <1>4 DEF Next

--------------------------------------------------------------------------------
(* SnapCoherent is kept: NextRecord reads the bucket and the call under one lock.*)
LEMMA SnapKept ==
  ASSUME TypeOK, SnapCoherent, [Next]_vars
  PROVE  SnapCoherent'
<1>1. CASE UNCHANGED snap
  BY <1>1 DEF SnapCoherent
<1>2. CASE NextRecord
  BY <1>2 DEF NextRecord, Bucket, SnapCoherent
<1>3. CASE Release
  BY <1>3 DEF Release, NoSnap, SnapCoherent
<1> QED
  BY <1>1, <1>2, <1>3 DEF Next, vars, mainVars, ClientSend, Kernel, Capture, Commit, Regroup, ControlThread,
     ControlStep, ReadLine, ReadScope, ReadBegin, ReadEnd, ReadIgnored, ReadShutdown, WriteStatus,
     MainThread, MainStep, WriteReady, BeginPass, ExitLoop, KeepRecord, SkipRecord, WriteEvent, EndDrain,
     TakeEnds, ApplyEnd, WriteEnd, NextPass

(* A step that writes nothing opens a call or is a stuttering step of the ledger.*)
LEMMA SilentStep ==
  ASSUME TypeOK, LedgerInv, Next, UNCHANGED stdout
  PROVE  [Ledger!LedgerNext]_LedgerVars
<1>1. LedgerLog' = LedgerLog /\ AnsweredCalls' = AnsweredCalls
  BY DEF LedgerLog, AnsweredCalls, Answered
<1>2. CASE BegunCalls' = BegunCalls
  BY <1>1, <1>2 DEF LedgerVars
<1>3. CASE \E c \in Calls \ BegunCalls : BegunCalls' = BegunCalls \cup {c}
  <2>1. PICK c \in Calls \ BegunCalls : BegunCalls' = BegunCalls \cup {c}
    BY <1>3
  <2>2. c \notin AnsweredCalls
    BY <2>1, AnsweredAreClosed DEF TypeOK, SidecarTypeOK, LedgerInv
  <2>3. Ledger!Open(c)
    BY <1>1, <2>1, <2>2 DEF Ledger!Open, LedgerLog
  <2> QED
    BY <2>1, <2>3 DEF Ledger!LedgerNext
<1> QED
  BY <1>2, <1>3, BegunExactly

(* A status line other than an end status is a note or a confirmation.           *)
LEMMA StatusStep ==
  ASSUME TypeOK, NEW l \in Line, stdout' = Append(stdout, l), BegunCalls' = BegunCalls,
         l \in {ReadyLine, ScopeLine} \cup {BeginLine(c) : c \in MaybeCall}
  PROVE  Ledger!LedgerNext
<1>1. LedgerLog' = Append(LedgerLog, Untagged(l)) /\ AnsweredCalls' = AnsweredCalls
  <2>1. \A c \in Calls : l # EndLine(c)
    BY DEF ReadyLine, ScopeLine, BeginLine, EndLine, Status
  <2> QED
    BY <2>1, LogAppends DEF TypeOK, SidecarTypeOK
<1>2. CASE l \in {ReadyLine, ScopeLine}
  <2>1. \/ Untagged(l) = [msg |-> "ready", bucket |-> "startup", call |-> NoCall]
        \/ Untagged(l) = [msg |-> "scope", bucket |-> "ambient", call |-> NoCall]
    BY <1>2 DEF Untagged, ReadyLine, ScopeLine, Status
  <2>2. UNCHANGED <<BegunCalls \ AnsweredCalls, AnsweredCalls>>
    BY <1>1
  <2>3. Ledger!Note
    BY <1>1, <2>1, <2>2 DEF Ledger!Note, Ledger!Write, LedgerLog
  <2> QED
    BY <2>3 DEF Ledger!LedgerNext
<1>3. CASE l \in {BeginLine(c) : c \in MaybeCall}
  <2>1. PICK c \in MaybeCall : l = BeginLine(c)
    BY <1>3
  <2>2. Ledger!Confirm(c)
    BY <1>1, <2>1 DEF Ledger!Confirm, Ledger!Write, LedgerLog, Untagged, BeginLine, Status
  <2> QED
    BY <2>2 DEF Ledger!LedgerNext, Ledger!MaybeCall, MaybeCall
<1> QED
  BY <1>2, <1>3

(* An event line reports to an open call, or outside any.                        *)
LEMMA EventStep ==
  ASSUME TypeOK, InHand, LedgerInv, SnapCoherent, WriteEvent, BegunCalls' = BegunCalls
  PROVE  Ledger!LedgerNext
<1> DEFINE l == EventLine(snap.bucket, snap.call, Head(ring).tag)
<1>1. l \in Line /\ snap \in Snap
  <2>1. Head(ring) \in Record
    BY ReleaseTypes DEF TypeOK, WriteEvent, Goto
  <2> QED
    BY <2>1, LineTypes DEF TypeOK, SidecarTypeOK, Record, Snap
<1>2. stdout' = Append(stdout, l) /\ \A c \in Calls : l # EndLine(c)
  BY DEF WriteEvent, Emit, EventLine, EndLine, Status
<1>3. LedgerLog' = Append(LedgerLog, Untagged(l)) /\ AnsweredCalls' = AnsweredCalls
  BY <1>1, <1>2, LogAppends DEF TypeOK, SidecarTypeOK
<1>4. Untagged(l) = [msg |-> "event", bucket |-> snap.bucket, call |-> snap.call]
  BY DEF Untagged, EventLine
<1>5. CASE snap.call = NoCall
  <2>1. snap.bucket \in {"startup", "ambient"}
    BY <1>1, <1>5 DEF SnapCoherent, Snap, Buckets
  <2>2. Ledger!ReportOutside
    BY <1>3, <1>4, <1>5, <2>1 DEF Ledger!ReportOutside, Ledger!Write, LedgerLog
  <2> QED
    BY <2>2 DEF Ledger!LedgerNext
<1>6. CASE snap.call # NoCall
  <2>1. snap.call \in BegunCalls \ AnsweredCalls
    BY <1>6, AnsweredAreClosed DEF TypeOK, SidecarTypeOK, LedgerInv, HoldsOnly, LetGo
  <2>2. Ledger!Report(snap.call) /\ snap.call \in Calls
    BY <1>3, <1>4, <1>6, <2>1 DEF Ledger!Report, Ledger!Write, LedgerLog, SnapCoherent, BegunCalls
  <2> QED
    BY <2>2 DEF Ledger!LedgerNext
<1> QED
  BY <1>5, <1>6

(* An end status closes the call it names.                                       *)
LEMMA EndStep ==
  ASSUME TypeOK, LedgerInv, WriteEnd, BegunCalls' = BegunCalls
  PROVE  Ledger!LedgerNext
<1>1. stdout' = Append(stdout, EndLine(ended)) /\ ended \in MaybeCall /\ EndLine(ended) \in Line
  BY LineTypes DEF WriteEnd, Emit, TypeOK, SidecarTypeOK
<1>2. \A c \in Calls : EndLine(ended) = EndLine(c) <=> c = ended
  BY DEF EndLine, Status
<1>3. /\ LedgerLog' = Append(LedgerLog, Untagged(EndLine(ended)))
      /\ AnsweredCalls' = AnsweredCalls \cup ({ended} \ {NoCall})
  BY <1>1, <1>2, LogAppends, ProtocolAssumption DEF TypeOK, SidecarTypeOK, MaybeCall
<1>4. Untagged(EndLine(ended)) = [msg |-> "end", bucket |-> "call", call |-> ended]
  BY DEF Untagged, EndLine, Status
<1>5. (BegunCalls \ AnsweredCalls)' = (BegunCalls \ AnsweredCalls) \ {ended}
  BY <1>3, ProtocolAssumption DEF BegunCalls
<1>6. Ledger!Close(ended)
  BY <1>3, <1>4, <1>5 DEF Ledger!Close, Ledger!Write, LedgerLog
<1> QED
  BY <1>1, <1>6 DEF Ledger!LedgerNext, Ledger!MaybeCall, MaybeCall

(* The eBPF backend keeps the ledger: a call is opened once, its events come     *)
(* while it is open and are in the bucket "call", and an end status closes it.   *)
THEOREM KeepsTheLedger == Spec => KeepsLedger
<1>1. Init => Ledger!LedgerInit /\ SnapCoherent
  BY DEF Init, SidecarInit, NoSnap, SnapCoherent, Ledger!LedgerInit, BegunCalls, AnsweredCalls, Answered, Contains
<1>2. TypeOK /\ InHand /\ LedgerInv /\ SnapCoherent /\ [Next]_vars => [Ledger!LedgerNext]_LedgerVars
  <2> SUFFICES ASSUME TypeOK, InHand, LedgerInv, SnapCoherent, [Next]_vars
               PROVE  [Ledger!LedgerNext]_LedgerVars
    OBVIOUS
  <2>1. CASE UNCHANGED vars
    BY <2>1 DEF vars, controlVars, LedgerVars, LedgerLog, BegunCalls, AnsweredCalls, Answered
  <2>2. CASE Next /\ UNCHANGED stdout
    BY <2>2, SilentStep
  <2>3. CASE Next /\ stdout' # stdout
    <3>1. BegunCalls' = BegunCalls
      BY <2>3, BegunExactly
    <3>2. WriteStatus \/ WriteReady \/ WriteEvent \/ WriteEnd
      BY <2>3 DEF Next, ClientSend, Kernel, Capture, Commit, Regroup, ControlThread, ControlStep, ReadLine,
         ReadScope, ReadBegin, ReadEnd, ReadIgnored, ReadShutdown, MainThread, MainStep, BeginPass, ExitLoop,
         NextRecord, KeepRecord, SkipRecord, EndDrain, TakeEnds, ApplyEnd, NextPass
    <3>3. CASE WriteStatus
      BY <3>1, <3>3, StatusStep DEF WriteStatus, Emit, TypeOK, SidecarTypeOK, LedgerInv, StatusKind
    <3>4. CASE WriteReady
      BY <3>1, <3>4, LineTypes, StatusStep DEF WriteReady, Emit
    <3>5. CASE WriteEvent
      BY <3>1, <3>5, EventStep
    <3>6. CASE WriteEnd
      BY <3>1, <3>6, EndStep
    <3> QED
      BY <3>2, <3>3, <3>4, <3>5, <3>6
  <2> QED
    BY <2>1, <2>2, <2>3
<1>3. TypeOK /\ SnapCoherent /\ [Next]_vars => SnapCoherent'
  BY SnapKept
<1> QED
  BY <1>1, <1>2, <1>3, TypeInvariant, LedgerInvariant, PTL
     DEF Spec, KeepsLedger, Ledger!LedgerSpec, LedgerVars, LedgerLog
================================================================================
