----------------------------- MODULE EbpfSidecar -------------------------------
(* The eBPF backend, crates/mcpfz-probe/src/ebpf.rs: a control thread that reads *)
(* stdin and a main loop that drains the ring buffer in passes.  The threads     *)
(* share the mutex-protected State (active_call, scope_pgid, scoped,             *)
(* pending_ends), the shutdown flag and a locked stdout.  A step is what a       *)
(* thread does between two points where the other can see a difference: one      *)
(* lock of State, one locked write of a line, one look at the ring or at /proc.  *)
(*                                                                               *)
(* The module has no Next of its own: a specification that EXTENDS it says who   *)
(* writes stdin, who reads stdout and what the kernel does.                      *)
EXTENDS KernelRing

CONSTANTS DrainBatch, \* DRAIN_BATCH
          Unread      \* no entry for the process in pgid_cache

(* A pass is long enough for a full ring: "The ring holds far fewer than this".  *)
ASSUME BatchAssumption ==
  /\ DrainBatch \in Nat
  /\ RingCap <= DrainBatch
  /\ Unread \notin MaybeGroup

VARIABLES
  stdin,         \* control lines written and not yet read
  stdout,        \* lines written (and, where somebody reads them, not yet read)
  active_call, scope_pgid, scoped, pending_ends,   \* State
  shutdown,      \* the AtomicBool
  cpc, status,   \* control thread: where it is, the status line it is about to write
  mpc,           \* main loop: where it is
  drained,       \* records taken in this pass
  pgid_cache,    \* groups looked up in this pass
  snap,          \* (bucket, call_id, scoped, scope_pgid) read for the record at hand
  ends,          \* end marks taken from pending_ends by this pass
  ended,         \* the call id of the end status about to be written
  owed,          \* history: records at the head of the ring that were submitted
                 \* when the pass started and are not released yet
  pgrp,          \* the kernel's process table: the group of each process
  seen           \* history: the groups each process was in since the pass started

state       == <<active_call, scope_pgid, scoped, pending_ends>>
controlVars == <<stdin, shutdown, cpc, status>>
mainVars    == <<mpc, drained, pgid_cache, snap, ends, ended, owed>>
processes   == <<pgrp, seen>>

EmptyCache == [p \in Procs |-> Unread]
NoSnap     == [bucket |-> "startup", call |-> NoCall, scoped |-> FALSE, scope |-> NoGroup]

SidecarInit ==
  /\ KernelInit
  /\ stdin = <<>> /\ stdout = <<>>
  /\ active_call = NoCall /\ scope_pgid = NoGroup /\ scoped = FALSE /\ pending_ends = <<>>
  /\ shutdown = FALSE
  /\ cpc = "read" /\ status = ReadyLine
  /\ mpc = "start" /\ drained = 0 /\ pgid_cache = EmptyCache
  /\ snap = NoSnap /\ ends = <<>> /\ ended = NoCall /\ owed = 0
  /\ seen = [p \in Procs |-> {}]

Emit(line) == stdout' = Append(stdout, line)

--------------------------------------------------------------------------------
(* Control thread.                                                               *)

ReadLine(op) ==
  /\ cpc = "read" /\ stdin # <<>>
  /\ Head(stdin).op = op
  /\ stdin' = Tail(stdin)
  /\ UNCHANGED <<stdout, mainVars, ring, processes>>

(* Mutants: the scope message replaces the whole State; it leaves `scoped` alone. *)
ReadScopeResets ==
  /\ ReadLine("scope")
  /\ scope_pgid' = Head(stdin).arg /\ scoped' = TRUE
  /\ active_call' = NoCall /\ pending_ends' = <<>>
  /\ status' = ScopeLine /\ cpc' = "status"
  /\ UNCHANGED shutdown

ReadScopeUnmarked ==
  /\ ReadLine("scope")
  /\ scope_pgid' = Head(stdin).arg
  /\ status' = ScopeLine /\ cpc' = "status"
  /\ UNCHANGED <<scoped, active_call, pending_ends, shutdown>>

(* A scope or begin changes State under its lock, releases the lock and only     *)
(* then writes the status line (WriteStatus).                                    *)
ReadScope ==
  /\ ReadLine("scope")
  /\ scope_pgid' = Head(stdin).arg /\ scoped' = TRUE
  /\ status' = ScopeLine /\ cpc' = "status"
  /\ UNCHANGED <<active_call, pending_ends, shutdown>>

(* Mutants: the begin mark is not echoed; it is echoed without its call id.       *)
ReadBeginSilently ==
  /\ ReadLine("begin")
  /\ active_call' = Head(stdin).arg
  /\ UNCHANGED <<scope_pgid, scoped, pending_ends, shutdown, cpc, status>>

ReadBeginAnonymously ==
  /\ ReadLine("begin")
  /\ active_call' = Head(stdin).arg
  /\ status' = BeginLine(NoCall) /\ cpc' = "status"
  /\ UNCHANGED <<scope_pgid, scoped, pending_ends, shutdown>>

ReadBegin ==
  /\ ReadLine("begin")
  /\ active_call' = Head(stdin).arg
  /\ status' = BeginLine(Head(stdin).arg) /\ cpc' = "status"
  /\ UNCHANGED <<scope_pgid, scoped, pending_ends, shutdown>>

(* Mutant: the control thread applies the end mark itself, as it does a begin.    *)
ReadEndAtOnce ==
  /\ ReadLine("end")
  /\ active_call' = NoCall
  /\ status' = EndLine(Head(stdin).arg) /\ cpc' = "status"
  /\ UNCHANGED <<scope_pgid, scoped, pending_ends, shutdown>>

(* An end mark is only queued; the main loop applies it.                         *)
ReadEnd ==
  /\ ReadLine("end")
  /\ pending_ends' = Append(pending_ends, Head(stdin).arg)
  /\ UNCHANGED <<active_call, scope_pgid, scoped, shutdown, cpc, status>>

ReadIgnored ==
  /\ ReadLine("ignored")
  /\ UNCHANGED <<state, shutdown, cpc, status>>

(* Mutant: the thread ends without setting the flag.                             *)
ReadShutdownUnset ==
  /\ ReadLine("shutdown")
  /\ cpc' = "done"
  /\ UNCHANGED <<shutdown, state, status>>

(* Shutdown or end of file: the thread leaves its loop, sets the flag and ends.  *)
ReadShutdown ==
  /\ ReadLine("shutdown")
  /\ shutdown' = TRUE /\ cpc' = "done"
  /\ UNCHANGED <<state, status>>

WriteStatus ==
  /\ cpc = "status"
  /\ Emit(status)
  /\ cpc' = "read" /\ status' = ReadyLine
  /\ UNCHANGED <<stdin, shutdown, state, mainVars, ring, processes>>

ControlStep ==
  \/ ReadScope \/ ReadBegin \/ ReadEnd \/ ReadIgnored \/ ReadShutdown \/ WriteStatus

--------------------------------------------------------------------------------
(* Main loop.                                                                    *)

Goto(from, to) == mpc = from /\ mpc' = to

(* The ready line is written after the control thread was spawned.               *)
WriteReady ==
  /\ Goto("start", "top")
  /\ Emit(ReadyLine)
  /\ UNCHANGED <<controlVars, state, drained, pgid_cache, snap, ends, ended, owed, ring, processes>>

(* The records RingBuf::next could return one after the other at this moment.    *)
IsReadyPrefix(n) ==
  /\ n \in 0..Len(ring)
  /\ \A i \in 1..n : ring[i].ready
  /\ n < Len(ring) => ~ring[n + 1].ready

(* Mutant: the cache lives as long as the loop.                                  *)
BeginPassOldCache ==
  /\ ~shutdown
  /\ Goto("top", "drain")
  /\ drained' = 0
  /\ \E n \in 0..Len(ring) : IsReadyPrefix(n) /\ owed' = n
  /\ seen' = [p \in Procs |-> {pgrp[p]}]
  /\ UNCHANGED <<controlVars, stdout, state, pgid_cache, snap, ends, ended, ring, pgrp>>

BeginPass ==
  /\ ~shutdown
  /\ Goto("top", "drain")
  /\ drained' = 0 /\ pgid_cache' = EmptyCache
  /\ \E n \in 0..Len(ring) : IsReadyPrefix(n) /\ owed' = n
  /\ seen' = [p \in Procs |-> {pgrp[p]}]
  /\ UNCHANGED <<controlVars, stdout, state, snap, ends, ended, ring, pgrp>>

(* The loop condition fails; run() joins the control thread, which has nothing   *)
(* left to do once the flag is set, and returns.                                 *)
ExitLoop ==
  /\ shutdown
  /\ Goto("top", "done")
  /\ UNCHANGED <<controlVars, stdout, state, drained, pgid_cache, snap, ends, ended, owed, ring, processes>>

Bucket == IF active_call # NoCall THEN "call" ELSE IF scoped THEN "ambient" ELSE "startup"

(* Mutants: the batch is not bounded; records are not counted.                   *)
NextRecordUnbounded ==
  /\ Goto("drain", "filter")
  /\ HasNext
  /\ drained' = drained + 1
  /\ snap' = [bucket |-> Bucket, call |-> active_call, scoped |-> scoped, scope |-> scope_pgid]
  /\ UNCHANGED <<controlVars, stdout, state, pgid_cache, ends, ended, owed, ring, processes>>

NextRecordUncounted ==
  /\ Goto("drain", "filter")
  /\ drained < DrainBatch /\ HasNext
  /\ snap' = [bucket |-> Bucket, call |-> active_call, scoped |-> scoped, scope |-> scope_pgid]
  /\ UNCHANGED <<controlVars, stdout, state, drained, pgid_cache, ends, ended, owed, ring, processes>>

(* Take the next record and, under the lock of State, the attribution it will    *)
(* get.  The record is released at the end of the loop body (Release).           *)
NextRecord ==
  /\ Goto("drain", "filter")
  /\ drained < DrainBatch /\ HasNext
  /\ drained' = drained + 1
  /\ snap' = [bucket |-> Bucket, call |-> active_call, scoped |-> scoped, scope |-> scope_pgid]
  /\ UNCHANGED <<controlVars, stdout, state, pgid_cache, ends, ended, owed, ring, processes>>

Release ==
  /\ ring' = Tail(ring)
  /\ owed' = IF owed > 0 THEN owed - 1 ELSE 0
  /\ snap' = NoSnap

(* process_pgid through the cache; NoGroup when /proc no longer has the process. *)
Pgid(p) == IF pgid_cache[p] = Unread THEN pgrp[p] ELSE pgid_cache[p]
LookUp(p) == pgid_cache' = IF snap.scoped THEN [pgid_cache EXCEPT ![p] = Pgid(p)] ELSE pgid_cache
InScope(p) == snap.scoped => Pgid(p) = snap.scope

(* decode() knows the record's kind and finds everything it reports in it.       *)
Decodes(r) == r.usable

KeepRecord ==
  /\ Goto("filter", "write")
  /\ LET r == Head(ring) IN InScope(r.pid) /\ Decodes(r) /\ LookUp(r.pid)
  /\ UNCHANGED <<controlVars, stdout, state, drained, snap, ends, ended, owed, ring, processes>>

SkipRecord ==
  /\ Goto("filter", "drain")
  /\ LET r == Head(ring) IN ~(InScope(r.pid) /\ Decodes(r)) /\ LookUp(r.pid)
  /\ Release
  /\ UNCHANGED <<controlVars, stdout, state, drained, ends, ended, processes>>

(* Mutant: the call id is read again, after the bucket.                          *)
WriteEventRereads ==
  /\ Goto("write", "drain")
  /\ Emit(EventLine(snap.bucket, active_call, Head(ring).tag))
  /\ Release
  /\ UNCHANGED <<controlVars, state, drained, pgid_cache, ends, ended, processes>>

WriteEvent ==
  /\ Goto("write", "drain")
  /\ Emit(EventLine(snap.bucket, snap.call, Head(ring).tag))
  /\ Release
  /\ UNCHANGED <<controlVars, state, drained, pgid_cache, ends, ended, processes>>

(* Mutant: the pass stops one record early.                                      *)
EndDrainEarly ==
  /\ Goto("drain", "take")
  /\ drained + 1 >= DrainBatch \/ ~HasNext
  /\ UNCHANGED <<controlVars, stdout, state, drained, pgid_cache, snap, ends, ended, owed, ring, processes>>

(* The pass stops at the batch limit or where the ring has nothing to offer.     *)
EndDrain ==
  /\ Goto("drain", "take")
  /\ drained = DrainBatch \/ ~HasNext
  /\ UNCHANGED <<controlVars, stdout, state, drained, pgid_cache, snap, ends, ended, owed, ring, processes>>

(* Mutant: the queue is copied, not taken.                                       *)
TakeEndsCopied ==
  /\ Goto("take", "apply")
  /\ ends' = pending_ends
  /\ UNCHANGED <<controlVars, stdout, state, drained, pgid_cache, snap, ended, owed, ring, processes>>

TakeEnds ==
  /\ Goto("take", "apply")
  /\ ends' = pending_ends /\ pending_ends' = <<>>
  /\ UNCHANGED <<controlVars, stdout, active_call, scope_pgid, scoped, drained, pgid_cache,
                 snap, ended, owed, ring, processes>>

(* Mutant: the active call is copied, not taken.                                 *)
ApplyEndCopied ==
  /\ ends # <<>>
  /\ Goto("apply", "end")
  /\ ended' = IF active_call # NoCall THEN active_call ELSE Head(ends)
  /\ UNCHANGED <<controlVars, stdout, state, drained, pgid_cache, snap, ends, owed, ring, processes>>

(* active_call.take().or(end_call_id): the call that is active is the one that   *)
(* ends, whatever id the mark carries.                                           *)
ApplyEnd ==
  /\ ends # <<>>
  /\ Goto("apply", "end")
  /\ ended' = IF active_call # NoCall THEN active_call ELSE Head(ends)
  /\ active_call' = NoCall
  /\ UNCHANGED <<controlVars, stdout, scope_pgid, scoped, pending_ends, drained, pgid_cache,
                 snap, ends, owed, ring, processes>>

WriteEnd ==
  /\ Goto("end", "apply")
  /\ Emit(EndLine(ended))
  /\ ends' = Tail(ends) /\ ended' = NoCall
  /\ UNCHANGED <<controlVars, state, drained, pgid_cache, snap, owed, ring, processes>>

(* Mutant: the queue is cleared when the pass is over, not when it is taken.      *)
NextPassForgets ==
  /\ ends = <<>>
  /\ Goto("apply", "top")
  /\ pending_ends' = <<>>
  /\ UNCHANGED <<controlVars, stdout, active_call, scope_pgid, scoped, drained, pgid_cache,
                 snap, ends, ended, owed, ring, processes>>

(* After the last end mark: poll for at most 200 ms unless the batch was full.   *)
(* Either way the loop comes back to its condition.                              *)
NextPass ==
  /\ ends = <<>>
  /\ Goto("apply", "top")
  /\ UNCHANGED <<controlVars, stdout, state, drained, pgid_cache, snap, ends, ended, owed, ring, processes>>

MainStep ==
  \/ WriteReady \/ BeginPass \/ ExitLoop
  \/ NextRecord \/ KeepRecord \/ SkipRecord \/ WriteEvent \/ EndDrain
  \/ TakeEnds \/ ApplyEnd \/ WriteEnd \/ NextPass

--------------------------------------------------------------------------------
Snap == [bucket : Buckets, call : MaybeCall, scoped : BOOLEAN, scope : MaybeGroup]

SidecarTypeOK ==
  /\ KernelTypeOK
  /\ stdin \in Seq(Control)
  /\ stdout \in Seq(Line)
  /\ active_call \in MaybeCall
  /\ scope_pgid \in MaybeGroup
  /\ scoped \in BOOLEAN
  /\ pending_ends \in Seq(MaybeCall)
  /\ shutdown \in BOOLEAN
  /\ cpc \in {"read", "status", "done"}
  /\ status \in Line
  /\ mpc \in {"start", "top", "drain", "filter", "write", "take", "apply", "end", "done"}
  /\ drained \in 0..DrainBatch
  /\ pgid_cache \in [Procs -> MaybeGroup \cup {Unread}]
  /\ snap \in Snap
  /\ ends \in Seq(MaybeCall)
  /\ ended \in MaybeCall
  /\ owed \in Nat
  /\ pgrp \in [Procs -> MaybeGroup]
  /\ seen \in [Procs -> SUBSET MaybeGroup]
================================================================================
