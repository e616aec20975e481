--------------------------- MODULE EbpfSidecarProofs ---------------------------
(* Lemmas about the steps of the eBPF backend's two threads, whoever writes its  *)
(* stdin and whoever reads its stdout: types, and which calls the sidecar holds. *)
(* The proofs about a session and about the whole probe rest on them.            *)
EXTENDS EbpfSidecar, TLAPS

(* Where the main loop uses Head and Tail, there is a record or an end mark.     *)
InHand ==
  /\ mpc \in {"filter", "write"} => ring # <<>>
  /\ mpc = "end" => ends # <<>>

(* The control thread writes status lines other than "end".                      *)
StatusKind == status \in {ReadyLine, ScopeLine} \cup {BeginLine(c) : c \in MaybeCall}

(* The sidecar holds no call but those of B, where an event or an end status     *)
(* could pick it up.                                                             *)
HoldsOnly(B) ==
  /\ active_call \in B \cup {NoCall} /\ snap.call \in B \cup {NoCall} /\ ended \in B \cup {NoCall}
  /\ \A i \in DOMAIN pending_ends : pending_ends[i] \in B \cup {NoCall}
  /\ \A i \in DOMAIN ends : ends[i] \in B \cup {NoCall}

(* No event can be attributed to a call of D any more, nor to the call whose end *)
(* status is about to be written.                                                *)
LetGo(D) ==
  /\ active_call \notin D /\ snap.call \notin D
  /\ mpc \notin {"filter", "write"} => snap.call = NoCall
  /\ mpc = "end" /\ ended # NoCall => active_call # ended

--------------------------------------------------------------------------------
(* Types.                                                                        *)

(* What the history tags hold.                                                   *)
LEMMA TagsThroughout == NoTag \in Tag /\ \A s, t \in Tag : Throughout(s, t) \in Tag
<1>1. NoTag \in Tag
  BY DEF NoTag, Tag
<1>2. \A s, t \in Tag : Throughout(s, t) \in Tag
  BY DEF Throughout, Tag
<1> QED
  BY <1>1, <1>2

(* The lines the sidecar writes are lines of the protocol.                       *)
LEMMA LineTypes ==
  /\ ReadyLine \in Line /\ ScopeLine \in Line
  /\ \A c \in MaybeCall : BeginLine(c) \in Line /\ EndLine(c) \in Line
  /\ \A b \in Buckets, c \in MaybeCall, t \in Tag : EventLine(b, c, t) \in Line
BY TagsThroughout DEF ReadyLine, ScopeLine, BeginLine, EndLine, EventLine, Status, Line, Buckets, MaybeCall

(* What a control message carries.                                               *)
LEMMA ControlTypes ==
  ASSUME NEW m \in Control
  PROVE  /\ m.op = "scope" => m.arg \in Groups
         /\ m.op \in {"begin", "end"} => m.arg \in MaybeCall
BY DEF Control, Scope, Begin, End, Shutdown, Ignored, MaybeCall

(* Appending to a typed sequence and dropping its head.                          *)
LEMMA SeqTypes ==
  ASSUME NEW S, NEW q \in Seq(S)
  PROVE  /\ \A e \in S : Append(q, e) \in Seq(S)
         /\ q # <<>> => Head(q) \in S /\ Tail(q) \in Seq(S) /\ Len(Tail(q)) = Len(q) - 1
OBVIOUS

(* Reading one control line keeps the types, whichever the line is.              *)
LEMMA ControlKeepsTypes ==
  ASSUME SidecarTypeOK, ControlStep
  PROVE  SidecarTypeOK'
<1> USE ControlTypes, LineTypes DEF SidecarTypeOK, KernelTypeOK, mainVars, processes, ReadLine
<1>1. CASE ReadScope
  BY <1>1 DEF ReadScope, MaybeGroup
<1>2. CASE ReadBegin
  BY <1>2 DEF ReadBegin
<1>3. CASE ReadEnd
  BY <1>3 DEF ReadEnd
<1>4. CASE ReadIgnored
  BY <1>4 DEF ReadIgnored, state
<1>5. CASE ReadShutdown
  BY <1>5 DEF ReadShutdown, state
<1>6. CASE WriteStatus
  BY <1>6 DEF WriteStatus, Emit, state
<1> QED
  BY <1>1, <1>2, <1>3, <1>4, <1>5, <1>6 DEF ControlStep

(* The record at hand and what looking up its process and releasing it do.       *)
LEMMA LookUpTypes ==
  ASSUME SidecarTypeOK, NEW p \in Procs, LookUp(p)
  PROVE  pgid_cache' \in [Procs -> MaybeGroup \cup {Unread}]
BY DEF SidecarTypeOK, LookUp, Pgid

LEMMA ReleaseTypes ==
  ASSUME SidecarTypeOK, InHand, mpc \in {"filter", "write"}
  PROVE  /\ Head(ring) \in Record
         /\ Release => KernelTypeOK' /\ owed' \in Nat /\ snap' \in Snap
<1>1. ring # <<>> /\ ring \in Seq(Record)
  BY DEF InHand, SidecarTypeOK, KernelTypeOK
<1>2. ASSUME Release PROVE KernelTypeOK'
  BY <1>1, <1>2, RingCapAssumption DEF Release, SidecarTypeOK, KernelTypeOK
<1>3. ASSUME Release PROVE owed' \in Nat
  BY <1>3 DEF Release, SidecarTypeOK
<1>4. ASSUME Release PROVE snap' \in Snap
  BY <1>4 DEF Release, NoSnap, Snap, Buckets, MaybeCall, MaybeGroup
<1> QED
  BY <1>1, <1>2, <1>3, <1>4

(* So does every step of the main loop.                                          *)
LEMMA MainKeepsTypes ==
  ASSUME SidecarTypeOK, InHand, MainStep
  PROVE  SidecarTypeOK'
<1> USE LineTypes DEF SidecarTypeOK, KernelTypeOK, controlVars, state, processes, Goto
<1>1. CASE WriteReady
  BY <1>1 DEF WriteReady, Emit
<1>2. CASE BeginPass
  BY <1>2, BatchAssumption DEF BeginPass, EmptyCache
<1>3. CASE ExitLoop
  BY <1>3 DEF ExitLoop
<1>4. CASE NextRecord
  BY <1>4, BatchAssumption DEF NextRecord, Bucket, Buckets, Snap
<1>5. CASE KeepRecord
  <2>1. Head(ring).pid \in Procs /\ LookUp(Head(ring).pid)
    BY <1>5, ReleaseTypes DEF KeepRecord, Record
  <2>2. pgid_cache' \in [Procs -> MaybeGroup \cup {Unread}]
    BY <2>1, LookUpTypes
  <2> QED
    BY <1>5, <2>2 DEF KeepRecord
<1>6. CASE SkipRecord
  <2>1. Head(ring).pid \in Procs /\ LookUp(Head(ring).pid)
    BY <1>6, ReleaseTypes DEF SkipRecord, Record
  <2>2. pgid_cache' \in [Procs -> MaybeGroup \cup {Unread}]
    BY <2>1, LookUpTypes
  <2> QED
    BY <1>6, <2>2, ReleaseTypes DEF SkipRecord
<1>7. CASE WriteEvent
  <2>1. Head(ring) \in Record
    BY <1>7, ReleaseTypes DEF WriteEvent
  <2>2. EventLine(snap.bucket, snap.call, Head(ring).tag) \in Line
    BY <2>1 DEF Record, Snap
  <2> QED
    BY <1>7, <2>2, ReleaseTypes DEF WriteEvent, Emit
<1>8. CASE EndDrain
  BY <1>8 DEF EndDrain
<1>9. CASE TakeEnds
  BY <1>9 DEF TakeEnds
<1>10. CASE ApplyEnd
  BY <1>10 DEF ApplyEnd, MaybeCall
<1>11. CASE WriteEnd
  <2>1. stdout' \in Seq(Line)
    BY <1>11, SeqTypes DEF WriteEnd, Emit
  <2>2. ends' \in Seq(MaybeCall) /\ ended' \in MaybeCall
    <3>1. ends \in Seq(MaybeCall) /\ ends # <<>>
      BY <1>11 DEF WriteEnd, InHand
    <3>2. Tail(ends) \in Seq(MaybeCall)
      BY <3>1, SeqTypes
    <3> QED
      BY <1>11, <3>2 DEF WriteEnd, MaybeCall
  <2> QED
    BY <1>11, <2>1, <2>2 DEF WriteEnd
<1>12. CASE NextPass
  BY <1>12, BatchAssumption DEF NextPass, EmptyCache
<1> QED
  BY <1>1, <1>2, <1>3, <1>4, <1>5, <1>6, <1>7, <1>8, <1>9, <1>10, <1>11, <1>12 DEF MainStep

(* Only the main loop releases records and end marks, and then none is at hand.  *)
LEMMA StepKeepsInHand ==
  ASSUME SidecarTypeOK, InHand, ControlStep \/ MainStep
  PROVE  InHand'
<1> USE DEF SidecarTypeOK, KernelTypeOK, InHand
<1>1. CASE ControlStep
  BY <1>1 DEF ControlStep, ReadLine, ReadScope, ReadBegin, ReadEnd, ReadIgnored, ReadShutdown,
              WriteStatus, mainVars
<1>2. CASE MainStep
  BY <1>2 DEF MainStep, Goto, HasNext, WriteReady, BeginPass, ExitLoop, NextRecord, KeepRecord,
              SkipRecord, WriteEvent, EndDrain, TakeEnds, ApplyEnd, WriteEnd, NextPass
<1> QED
  BY <1>1, <1>2

(* The kernel appends a record, or marks one as submitted.                       *)
LEMMA ReserveTypes ==
  ASSUME KernelTypeOK, NEW p \in Procs, NEW u \in BOOLEAN, NEW t \in Tag, Reserve(p, u, t)
  PROVE  /\ KernelTypeOK' /\ Len(ring') = Len(ring) + 1 /\ ring' # <<>>
         /\ \A i \in 1..Len(ring) : ring'[i] = ring[i]
         /\ ring'[Len(ring) + 1] = [pid |-> p, usable |-> u, ready |-> FALSE, tag |-> t]
<1> DEFINE r == [pid |-> p, usable |-> u, ready |-> FALSE, tag |-> t]
<1>1. r \in Record
  BY DEF Record
<1>2. ring \in Seq(Record) /\ ring' = Append(ring, r) /\ Len(ring) < RingCap /\ RingCap \in Nat
  BY RingCapAssumption DEF Reserve, KernelTypeOK
<1> HIDE DEF r
<1>3. /\ ring' \in Seq(Record) /\ Len(ring') = Len(ring) + 1 /\ DOMAIN ring' = 1..(Len(ring) + 1)
      /\ Len(ring) \in Nat /\ ring'[Len(ring) + 1] = r /\ \A i \in 1..Len(ring) : ring'[i] = ring[i]
  BY <1>1, <1>2
<1>4. ring' # <<>>
  BY <1>3
<1> QED
  BY <1>2, <1>3, <1>4 DEF KernelTypeOK, r

LEMMA SubmitTypes ==
  ASSUME KernelTypeOK, NEW i \in DOMAIN ring, NEW t \in Tag, Submit(i, t)
  PROVE  /\ KernelTypeOK' /\ Len(ring') = Len(ring) /\ DOMAIN ring' = DOMAIN ring /\ ring' # <<>>
         /\ \A j \in DOMAIN ring \ {i} : ring'[j] = ring[j]
         /\ ring'[i] = [ring[i] EXCEPT !.ready = TRUE, !.tag = Throughout(ring[i].tag, t)]
<1> DEFINE r == [ring[i] EXCEPT !.ready = TRUE, !.tag = Throughout(ring[i].tag, t)]
<1>1. ring \in Seq(Record) /\ ring[i] \in Record /\ Len(ring) <= RingCap
  BY DEF KernelTypeOK
<1>2. Throughout(ring[i].tag, t) \in Tag
  BY <1>1, TagsThroughout DEF Record
<1>3. r \in Record
  BY <1>1, <1>2 DEF Record
<1>4. ring' = [ring EXCEPT ![i] = r]
  BY <1>1 DEF Submit
<1> HIDE DEF r
<1>5. /\ ring' \in Seq(Record) /\ Len(ring') = Len(ring) /\ DOMAIN ring' = DOMAIN ring
      /\ \A j \in DOMAIN ring \ {i} : ring'[j] = ring[j]
      /\ ring'[i] = r
  BY <1>1, <1>3, <1>4
<1>6. ring' # <<>>
  BY <1>5
<1> QED
  BY <1>1, <1>5, <1>6 DEF KernelTypeOK, r

LEMMA InitTypes ==
  ASSUME SidecarInit, pgrp \in [Procs -> MaybeGroup]
  PROVE  SidecarTypeOK /\ InHand /\ StatusKind
<1>1. KernelTypeOK /\ InHand
  BY RingCapAssumption DEF SidecarInit, KernelInit, KernelTypeOK, InHand
<1>2. snap \in Snap /\ pgid_cache \in [Procs -> MaybeGroup \cup {Unread}]
  BY DEF SidecarInit, NoSnap, Snap, Buckets, MaybeCall, MaybeGroup, EmptyCache
<1>3. status \in Line /\ drained \in 0..DrainBatch /\ StatusKind
  BY LineTypes, BatchAssumption DEF SidecarInit, StatusKind
<1>4. seen \in [Procs -> SUBSET MaybeGroup]
  BY DEF SidecarInit
<1>5. /\ stdin \in Seq(Control) /\ stdout \in Seq(Line)
      /\ pending_ends \in Seq(MaybeCall) /\ ends \in Seq(MaybeCall)
  BY DEF SidecarInit
<1>6. active_call \in MaybeCall /\ ended \in MaybeCall /\ scope_pgid \in MaybeGroup
  BY DEF SidecarInit, MaybeCall, MaybeGroup
<1>7. /\ scoped \in BOOLEAN /\ shutdown \in BOOLEAN /\ owed \in Nat
      /\ cpc \in {"read", "status", "done"}
      /\ mpc \in {"start", "top", "drain", "filter", "write", "take", "apply", "end", "done"}
  BY DEF SidecarInit
<1> QED
  BY <1>1, <1>2, <1>3, <1>4, <1>5, <1>6, <1>7 DEF SidecarTypeOK

--------------------------------------------------------------------------------
(* Which calls the sidecar holds.                                                *)

(* A mark determines its call, and a begin mark is not an end mark.              *)
LEMMA MarksDiffer ==
  /\ \A c, d : Begin(c) = Begin(d) => c = d
  /\ \A c, d : End(c) = End(d) => c = d
  /\ \A c, d : Begin(c) # End(d)
  /\ \A m \in Control : m.op = "begin" => m = Begin(m.arg)
  /\ \A m \in Control : m.op = "end" => m = End(m.arg)
BY DEF Begin, End, Control, Scope, Shutdown, Ignored

(* Reading a line may add a call to those the sidecar holds: that of a begin mark *)
(* becomes active, and is a new one.                                             *)
ReadSomething == ReadScope \/ ReadBegin \/ ReadEnd \/ ReadIgnored \/ ReadShutdown

LEMMA ReadHolds ==
  ASSUME SidecarTypeOK, StatusKind, ReadSomething,
         NEW B, HoldsOnly(B), NEW D \in SUBSET B, LetGo(D), NoCall \notin D,
         NEW B2, B \subseteq B2,
         Head(stdin).op \in {"begin", "end"} => Head(stdin).arg \in B2 \cup {NoCall},
         Head(stdin).op = "begin" => Head(stdin).arg = NoCall \/ Head(stdin).arg \notin B
  PROVE  /\ HoldsOnly(B2)' /\ LetGo(D)' /\ StatusKind'
         /\ stdin # <<>> /\ stdin' = Tail(stdin) /\ UNCHANGED <<stdout, mainVars, ring>>
<1> USE DEF ReadSomething, ReadLine
<1>0. /\ stdin # <<>> /\ stdin' = Tail(stdin) /\ UNCHANGED <<stdout, mainVars, ring>>
      /\ stdin \in Seq(Control) /\ Head(stdin) \in Control
  <2>1. stdin # <<>> /\ stdin' = Tail(stdin) /\ UNCHANGED <<stdout, mainVars, ring>>
    BY DEF ReadScope, ReadBegin, ReadEnd, ReadIgnored, ReadShutdown
  <2> QED
    BY <2>1 DEF SidecarTypeOK
<1>1. StatusKind'
  BY <1>0, ControlTypes DEF ReadScope, ReadBegin, ReadEnd, ReadIgnored, ReadShutdown, StatusKind
<1>2. CASE UNCHANGED <<active_call, pending_ends>>
  BY <1>0, <1>1, <1>2 DEF HoldsOnly, LetGo, mainVars
<1>3. CASE ReadBegin
  <2>1. active_call' = Head(stdin).arg /\ pending_ends' = pending_ends /\ Head(stdin).op = "begin"
    BY <1>3 DEF ReadBegin
  <2>2. HoldsOnly(B2)'
    BY <1>0, <2>1 DEF HoldsOnly, mainVars
  <2>3. LetGo(D)'
    BY <1>0, <2>1 DEF LetGo, HoldsOnly, mainVars
  <2> QED
    BY <1>0, <1>1, <2>2, <2>3
<1>4. CASE ReadEnd
  <2>1. active_call' = active_call /\ pending_ends' = Append(pending_ends, Head(stdin).arg)
        /\ Head(stdin).op = "end" /\ pending_ends \in Seq(MaybeCall) /\ Head(stdin).arg \in MaybeCall
    BY <1>0, <1>4, ControlTypes DEF ReadEnd, SidecarTypeOK
  <2>2. \A i \in DOMAIN pending_ends' : pending_ends'[i] \in B2 \cup {NoCall}
    BY <2>1 DEF HoldsOnly
  <2>3. HoldsOnly(B2)'
    BY <1>0, <2>1, <2>2 DEF HoldsOnly, mainVars
  <2> QED
    BY <1>0, <1>1, <2>1, <2>3 DEF LetGo, mainVars
<1> QED
  BY <1>2, <1>3, <1>4 DEF ReadScope, ReadIgnored, ReadShutdown, state

LEMMA StatusHolds ==
  ASSUME SidecarTypeOK, StatusKind, WriteStatus, NEW B, HoldsOnly(B), NEW D, LetGo(D)
  PROVE  /\ HoldsOnly(B)' /\ LetGo(D)' /\ StatusKind'
         /\ stdout' = Append(stdout, status) /\ status \in Line /\ status.msg \notin {"end", "event"}
         /\ UNCHANGED <<stdin, mainVars, ring>>
<1>1. stdout' = Append(stdout, status) /\ UNCHANGED <<stdin, state, mainVars, ring>>
  BY DEF WriteStatus, Emit
<1>2. status \in Line /\ status.msg \notin {"end", "event"} /\ StatusKind'
  BY DEF SidecarTypeOK, StatusKind, ReadyLine, ScopeLine, BeginLine, Status, WriteStatus
<1> QED
  BY <1>1, <1>2 DEF HoldsOnly, LetGo, state, mainVars

(* A step of the main loop adds no call to those the sidecar holds.  What it      *)
(* writes is an event of no call that was let go, or an end status, and then the  *)
(* call it names is let go.                                                      *)
WritesOnly(D) ==
  \/ UNCHANGED stdout /\ LetGo(D)'
  \/ \E l \in Line :
       /\ stdout' = Append(stdout, l)
       /\ \/ l = ReadyLine /\ LetGo(D)'
          \/ l.msg = "event" /\ l.call = snap.call /\ LetGo(D)'
          \/ \E c \in MaybeCall :
               c = ended /\ l = EndLine(c) /\ LetGo(D \cup ({c} \ {NoCall}))'

LEMMA MainHolds ==
  ASSUME SidecarTypeOK, InHand, MainStep, NEW B, HoldsOnly(B), NEW D, LetGo(D), NoCall \notin D
  PROVE  HoldsOnly(B)' /\ WritesOnly(D) /\ UNCHANGED <<stdin, cpc, status>>
<1> USE DEF Goto, SidecarTypeOK, state, HoldsOnly, LetGo
<1>1. UNCHANGED <<stdin, cpc, status>>
  BY DEF MainStep, controlVars, WriteReady, BeginPass, ExitLoop, NextRecord, KeepRecord, SkipRecord,
         WriteEvent, EndDrain, TakeEnds, ApplyEnd, WriteEnd, NextPass
<1>2. CASE WriteReady
  <2>1. stdout' = Append(stdout, ReadyLine) /\ ReadyLine \in Line
    BY <1>2, LineTypes DEF WriteReady, Emit
  <2> QED
    BY <1>1, <1>2, <2>1 DEF WriteReady, WritesOnly
<1>3. CASE BeginPass \/ ExitLoop \/ EndDrain \/ NextPass
  BY <1>1, <1>3 DEF BeginPass, ExitLoop, EndDrain, NextPass, WritesOnly
<1>4. CASE NextRecord
  <2>1. snap'.call = active_call
    BY <1>4 DEF NextRecord
  <2> QED
    BY <1>1, <1>4, <2>1 DEF NextRecord, WritesOnly
<1>5. CASE KeepRecord
  BY <1>1, <1>5 DEF KeepRecord, WritesOnly
<1>6. CASE SkipRecord
  <2>1. snap'.call = NoCall
    BY <1>6 DEF SkipRecord, Release, NoSnap
  <2> QED
    BY <1>1, <1>6, <2>1 DEF SkipRecord, WritesOnly
<1>7. CASE WriteEvent
  <2> DEFINE l == EventLine(snap.bucket, snap.call, Head(ring).tag)
  <2>1. snap'.call = NoCall
    BY <1>7 DEF WriteEvent, Release, NoSnap
  <2>2. Head(ring) \in Record
    BY <1>7, ReleaseTypes DEF WriteEvent
  <2>3. l \in Line
    BY <2>2, LineTypes DEF Record, Snap
  <2>4. stdout' = Append(stdout, l) /\ l.msg = "event" /\ l.call = snap.call
    BY <1>7 DEF WriteEvent, Emit, EventLine
  <2>5. HoldsOnly(B)' /\ LetGo(D)'
    BY <1>7, <2>1 DEF WriteEvent
  <2> HIDE DEF l
  <2> QED
    BY <1>1, <2>3, <2>4, <2>5 DEF WritesOnly
<1>8. CASE TakeEnds
  BY <1>1, <1>8 DEF TakeEnds, WritesOnly
<1>9. CASE ApplyEnd
  <2>1. Head(ends) \in B \cup {NoCall}
    BY <1>9 DEF ApplyEnd
  <2>2. ended' \in B \cup {NoCall} /\ active_call' = NoCall
    BY <1>9, <2>1 DEF ApplyEnd
  <2> QED
    BY <1>1, <1>9, <2>2 DEF ApplyEnd, WritesOnly
<1>10. CASE WriteEnd
  <2>0. PICK c \in MaybeCall : c = ended
    OBVIOUS
  <2>1. EndLine(c) \in Line /\ stdout' = Append(stdout, EndLine(c))
    BY <1>10, <2>0, LineTypes DEF WriteEnd, Emit
  <2>2. \A i \in DOMAIN ends' : ends'[i] \in B \cup {NoCall}
    <3>1. ends # <<>> /\ ends' = Tail(ends)
      BY <1>10 DEF WriteEnd, InHand
    <3> QED
      BY <3>1
  <2>3. ended' = NoCall /\ mpc = "end" /\ mpc' = "apply" /\ snap' = snap /\ snap.call = NoCall
        /\ active_call' = active_call /\ pending_ends' = pending_ends
    BY <1>10 DEF WriteEnd
  <2>4. HoldsOnly(B)' /\ LetGo(D \cup ({c} \ {NoCall}))'
    BY <2>0, <2>2, <2>3
  <2> QED
    BY <1>1, <2>0, <2>1, <2>4 DEF WritesOnly
<1> QED
  BY <1>2, <1>3, <1>4, <1>5, <1>6, <1>7, <1>8, <1>9, <1>10 DEF MainStep

--------------------------------------------------------------------------------
(* Queues.                                                                       *)

LEMMA AppendContains ==
  ASSUME NEW S, NEW q \in Seq(S), NEW e \in S
  PROVE  \A x : Contains(Append(q, e), x) <=> Contains(q, x) \/ x = e
<1> DEFINE r == Append(q, e)
<1>1. /\ Len(q) \in Nat /\ Len(r) = Len(q) + 1
      /\ r[Len(q) + 1] = e /\ \A i \in 1..Len(q) : r[i] = q[i]
  OBVIOUS
<1> HIDE DEF r
<1>2. \A x : Contains(r, x) <=> Contains(q, x) \/ x = e
  BY <1>1 DEF Contains
<1> QED
  BY <1>2 DEF r

LEMMA TailContains ==
  ASSUME NEW S, NEW q \in Seq(S), q # <<>>
  PROVE  \A x : Contains(q, x) <=> Contains(Tail(q), x) \/ x = Head(q)
<1> DEFINE t == Tail(q)
<1>1. /\ Len(q) \in Nat \ {0} /\ Len(t) = Len(q) - 1 /\ Head(q) = q[1]
      /\ \A i \in 1..Len(t) : t[i] = q[i + 1] /\ i + 1 \in 1..Len(q)
      /\ \A i \in 1..Len(q) : i = 1 \/ (i - 1 \in 1..Len(t) /\ q[i] = t[i - 1])
  OBVIOUS
<1> HIDE DEF t
<1>2. ASSUME NEW x PROVE Contains(q, x) <=> Contains(t, x) \/ x = Head(q)
  <2>1. ASSUME Contains(q, x) PROVE Contains(t, x) \/ x = Head(q)
    BY <1>1, <2>1 DEF Contains
  <2>2. ASSUME Contains(t, x) \/ x = Head(q) PROVE Contains(q, x)
    BY <1>1, <2>2 DEF Contains
  <2> QED
    BY <2>1, <2>2
<1> QED
  BY <1>2 DEF t

--------------------------------------------------------------------------------
(* Lines on stdout.                                                              *)

(* A line on stdout tells the begin or end status of which call it is.           *)
LEMMA LinesDiffer ==
  /\ \A c, d : BeginLine(c) = BeginLine(d) => c = d
  /\ \A c, d : EndLine(c) = EndLine(d) => c = d
  /\ \A c : BeginLine(c).msg = "begin" /\ EndLine(c).msg = "end"
  /\ ReadyLine.msg = "ready" /\ ScopeLine.msg = "scope"
BY DEF BeginLine, EndLine, ReadyLine, ScopeLine, Status

(* Calls that an end status in the queue of lines names.                         *)
EndedIn(q) == {c \in Calls : \E i \in DOMAIN q : q[i].msg = "end" /\ q[i].call = c}

(* No event line comes after the end status of its call.                         *)
Orderly(q) ==
  \A i, j \in DOMAIN q :
    i < j /\ q[i].msg = "end" /\ q[i].call # NoCall /\ q[j].msg = "event" => q[j].call # q[i].call

(* An end status ends the call it names, other lines end none.                   *)
LEMMA EndedByEndLines ==
  ASSUME NEW q \in Seq(Line), NEW l \in Line
  PROVE  EndedIn(Append(q, l)) = EndedIn(q) \cup IF l.msg = "end" THEN Calls \cap {l.call} ELSE {}
<1> DEFINE r == Append(q, l)
           n == Len(q) + 1
<1>1. /\ DOMAIN q = 1..Len(q) /\ DOMAIN r = 1..n /\ Len(q) \in Nat
      /\ r[n] = l /\ \A i \in 1..Len(q) : r[i] = q[i]
  OBVIOUS
<1> HIDE DEF r
<1>2. EndedIn(r) = EndedIn(q) \cup IF l.msg = "end" THEN Calls \cap {l.call} ELSE {}
  BY <1>1 DEF EndedIn
<1> QED
  BY <1>2 DEF r

(* The order survives a line unless it is an event of an ended call.             *)
LEMMA LineKeepsOrder ==
  ASSUME NEW q \in Seq(Line), NEW l \in Line, Orderly(q), l.msg = "event" => l.call \notin EndedIn(q)
  PROVE  Orderly(Append(q, l))
<1> DEFINE r == Append(q, l)
<1>1. /\ Len(q) \in Nat /\ DOMAIN q = 1..Len(q) /\ DOMAIN r = 1..(Len(q) + 1)
      /\ r[Len(q) + 1] = l /\ \A i \in 1..Len(q) : r[i] = q[i]
  OBVIOUS
<1> HIDE DEF r
<1> SUFFICES ASSUME NEW i \in DOMAIN r, NEW j \in DOMAIN r, i < j,
                    r[i].msg = "end", r[i].call # NoCall, r[j].msg = "event"
             PROVE  r[j].call # r[i].call
  BY DEF Orderly, r
<1>2. i \in DOMAIN q /\ r[i] = q[i]
  BY <1>1
<1>3. CASE j \in DOMAIN q
  BY <1>1, <1>2, <1>3 DEF Orderly
<1>4. CASE j = Len(q) + 1
  <2>1. q[i].call \in Calls
    <3>1. q[i] \in Line
      BY <1>2
    <3> QED
      BY <1>2, <3>1 DEF Line, MaybeCall
  <2> QED
    BY <1>1, <1>2, <1>4, <2>1 DEF EndedIn
<1> QED
  BY <1>1, <1>3, <1>4
================================================================================
