---------------------------- MODULE FindingsProofs -----------------------------
(* Theorems about RuntimeFindings, for any calls, flags, directories, scripts    *)
(* and bounds: the verdicts of the policy engine, and the fake monitor's book.   *)
EXTENDS RuntimeFindings, TLAPS

MaybeCall == Calls \cup {NoCall}

(* What summaries, books and findings look like: a finding was made from the     *)
(* event in the summary, with the link where it led then.                        *)
FindingsInv ==
  /\ link \in Links /\ dir \in Places /\ active_call \in MaybeCall
  /\ playing \in Seq(Events) /\ ambient_events \in Seq(Events)
  /\ events_by_call \in [Calls -> Seq(Events)]
  /\ summary \in [Calls -> Seq(Events) \cup {NoSummary}]
  /\ DOMAIN findings = Calls
  /\ \A c \in Calls : findings[c] # NoSummary =>
       /\ summary[c] # NoSummary /\ findings[c].link \in Links
       /\ \A i \in DOMAIN summary[c] :
            findings[c].found[i] = Findings(summary[c][i].seen, findings[c].link)

--------------------------------------------------------------------------------
(* The rendering of open flags hides no write and invents none, for every value   *)
(* of the argument: what can modify a file has a write flag in its text, and a    *)
(* write flag in the text was asked for.                                         *)
LEMMA FlagsFaithful ==
  ASSUME NEW flags \in SUBSET Bits
  PROVE  /\ CanModify(flags) => IsWriteFlag(flags_to_string(flags \cap 0..31))
         /\ IsWriteFlag(flags_to_string(flags \cap 0..31)) => AsksToModify(flags)
<1> DEFINE low  == flags \cap 0..31
           text == flags_to_string(low)
<1>1. /\ 0 \in low <=> 0 \in flags
      /\ 1 \in low <=> 1 \in flags
      /\ 6 \in low <=> 6 \in flags
      /\ 9 \in low <=> 9 \in flags
      /\ 10 \in low <=> 10 \in flags
  OBVIOUS
<1>2. \A f : /\ f \cap {0, 1} = {0} <=> 0 \in f /\ 1 \notin f
             /\ f \cap {0, 1} = {1} <=> 1 \in f /\ 0 \notin f
  OBVIOUS
<1>3. /\ "O_WRONLY" \in text <=> 0 \in low /\ 1 \notin low
      /\ "O_RDWR" \in text <=> 1 \in low /\ 0 \notin low
      /\ "O_CREAT" \in text <=> 6 \in low
      /\ "O_TRUNC" \in text <=> 9 \in low
      /\ "O_APPEND" \in text <=> 10 \in low
  BY <1>2 DEF flags_to_string, AccessMode, FlagBit
<1>4. IsWriteFlag(text) <=> \/ "O_WRONLY" \in text \/ "O_RDWR" \in text \/ "O_CREAT" \in text
                            \/ "O_TRUNC" \in text \/ "O_APPEND" \in text
  BY DEF IsWriteFlag
<1> DEFINE Writes == (0 \in flags /\ 1 \notin flags) \/ (1 \in flags /\ 0 \notin flags)
<1>5. CanModify(flags) => Writes \/ 6 \in flags \/ 9 \in flags
  BY <1>2 DEF CanModify
<1>6. Writes \/ 6 \in flags \/ 9 \in flags \/ 10 \in flags => AsksToModify(flags)
  BY <1>2 DEF AsksToModify
<1> QED
  BY <1>1, <1>3, <1>4, <1>5, <1>6

(* Where a knowable path leads the policy engine and where it led the kernel.    *)
LEMMA ResolvedRight ==
  ASSUME NEW s \in Syscalls, NEW l \in Links, NEW d \in Places, NEW now \in Links,
         s.name \in Names,
         s.name \in {"link", "linked"} => l = now,
         s.name = "relative" => d = MonitorDir,
         ~(s.kind = "unlink" /\ s.name = "link")
  PROVE  Touched(s, l, d) \in {"outside", "secret"} <=> ~IsAllowedWrite(s.name, now)
<1> USE RulesAssumption DEF Touched, IsAllowedWrite, Resolve, Places, Links
<1>1. CASE s.name \in Places
  BY <1>1
<1>2. CASE s.name \in {"link", "linked"}
  BY <1>2
<1>3. CASE s.name = "relative"
  BY <1>3
<1> QED
  BY <1>1, <1>2, <1>3 DEF Names

(* The members of Events.                                                        *)
LEMMA EventOf ==
  /\ \A e \in Events : \E s \in Syscalls : \E r \in Records(s), c \in MaybeCall, l \in Links, d \in Places :
       e = Event(s, r, c, l, d)
  /\ \A s \in Syscalls : \A r \in Records(s), c \in MaybeCall, l \in Links, d \in Places :
       Event(s, r, c, l, d) \in Events
<1> DEFINE Of(s) == {Event(s, r, c, l, d) : r \in Records(s), c \in MaybeCall, l \in Links, d \in Places}
<1>1. \A e : e \in Events <=> \E s \in Syscalls : e \in Of(s)
  BY DEF Events, MaybeCall
<1> HIDE DEF Of
<1>2. \A e \in Events : \E s \in Syscalls : \E r \in Records(s), c \in MaybeCall, l \in Links, d \in Places :
        e = Event(s, r, c, l, d)
  <2> TAKE e \in Events
  <2>1. PICK s \in Syscalls : e \in Of(s)
    BY <1>1, Zenon
  <2>2. \E r \in Records(s), c \in MaybeCall, l \in Links, d \in Places : e = Event(s, r, c, l, d)
    BY <2>1 DEF Of
  <2> QED
    BY <2>2
<1>3. ASSUME NEW s \in Syscalls, NEW r \in Records(s), NEW c \in MaybeCall, NEW l \in Links, NEW d \in Places
      PROVE  Event(s, r, c, l, d) \in Events
  <2>1. Event(s, r, c, l, d) \in Of(s)
    BY DEF Of
  <2> QED
    BY <1>1, <2>1, Zenon
<1> QED
  BY <1>2, <1>3, Zenon

(* Both directions of the verdict on one event.                                  *)
LEMMA Verdict ==
  ASSUME NEW e \in Events, NEW now \in Links, Knowable(e, now)
  PROVE  /\ Deserved(e.did, CanModify) \subseteq Findings(e.seen, now)
         /\ Findings(e.seen, now) \subseteq Deserved(e.did, AsksToModify)
<1>0. PICK s \in Syscalls : \E r \in Records(s), b \in MaybeCall, l \in Links, d \in Places :
        e = Event(s, r, b, l, d)
  BY EventOf
<1>1. PICK r \in Records(s), b \in MaybeCall, l \in Links, d \in Places : e = Event(s, r, b, l, d)
  BY <1>0
<1>2. /\ e.did.call = s /\ e.did.touched = Touched(s, l, d) /\ e.did.through = DependsOn(s, l, d)
      /\ e.seen = decode(s)
  BY <1>1 DEF Event, Knowable
<1>3. /\ s.kind \in {"openat", "unlink", "chmod", "execve", "ptrace", "connect", "sendto"}
      /\ s.kind \in {"openat", "unlink", "chmod"} => s.name \in Names
      /\ s.kind = "openat" => s.arg \in SUBSET Bits
      /\ s.kind = "execve" => s.name \in {"allowed", "outside"}
      /\ s.kind \in {"connect", "sendto"} => s.name \in {"allowed", "outside", ""}
  BY RulesAssumption DEF Syscalls, Call
<1>4. /\ e.seen.type = EventType[s.kind] /\ e.seen.name = s.name
      /\ s.kind = "openat" => e.seen.flags = flags_to_string(s.arg \cap 0..31)
  BY <1>2 DEF decode
<1>5. s.kind \in {"openat", "unlink", "chmod"} =>
        (Touched(s, l, d) \in {"outside", "secret"} <=> ~IsAllowedWrite(s.name, now))
  <2>1. /\ s.name \in {"link", "linked"} => l = now
        /\ s.name = "relative" => d = MonitorDir
        /\ ~(s.kind = "unlink" /\ s.name = "link")
    BY <1>2, <1>4 DEF Knowable, DependsOn
  <2> QED
    BY <1>2, <1>3, <2>1, ResolvedRight
<1>6. s.kind = "openat" =>
        /\ CanModify(s.arg) => IsWriteFlag(e.seen.flags)
        /\ IsWriteFlag(e.seen.flags) => AsksToModify(s.arg)
  BY <1>3, <1>4, FlagsFaithful
<1>7. s.name \in Names => s.name # ""
  BY DEF Names, Places
<1>8. /\ e.seen.type = "exec" <=> s.kind = "execve"
      /\ e.seen.type = "connect" <=> s.kind \in {"connect", "sendto"}
      /\ e.seen.type = "file_open" <=> s.kind = "openat"
      /\ e.seen.type = "file_delete" <=> s.kind = "unlink"
      /\ e.seen.type = "chmod" <=> s.kind = "chmod"
      /\ e.seen.type = "ptrace" <=> s.kind = "ptrace"
  <2>1. /\ EventType["execve"] = "exec" /\ EventType["ptrace"] = "ptrace"
        /\ EventType["connect"] = "connect" /\ EventType["sendto"] = "connect"
        /\ EventType["openat"] = "file_open" /\ EventType["unlink"] = "file_delete"
        /\ EventType["chmod"] = "chmod"
    BY DEF EventType
  <2> QED
    BY <1>3, <1>4, <2>1
<1> DEFINE out == e.did.touched \in {"outside", "secret"}
<1>9. \A c \in {"exec", "net_connect", "sensitive_read", "ptrace"} :
        /\ c \in Deserved(e.did, CanModify) <=> c \in Findings(e.seen, now)
        /\ c \in Deserved(e.did, AsksToModify) <=> c \in Findings(e.seen, now)
  <2> DEFINE Same(c) == /\ c \in Deserved(e.did, CanModify) <=> c \in Findings(e.seen, now)
                        /\ c \in Deserved(e.did, AsksToModify) <=> c \in Findings(e.seen, now)
  <2>1. Same("exec")
    BY <1>2, <1>3, <1>4, <1>8 DEF Deserved, Findings
  <2>2. Same("net_connect")
    BY <1>2, <1>3, <1>4, <1>8 DEF Deserved, Findings
  <2>3. Same("sensitive_read") /\ Same("ptrace")
    BY <1>2, <1>4, <1>8 DEF Deserved, Findings
  <2> HIDE DEF Same
  <2>4. \A c \in {"exec", "net_connect", "sensitive_read", "ptrace"} : Same(c)
    BY <2>1, <2>2, <2>3
  <2> QED
    BY <2>4 DEF Same
<1>10. \A c \in {"fs_delete", "fs_chmod"} :
        /\ c \in Deserved(e.did, CanModify) <=> c \in Findings(e.seen, now)
        /\ c \in Deserved(e.did, AsksToModify) <=> c \in Findings(e.seen, now)
  BY <1>2, <1>3, <1>4, <1>5, <1>7, <1>8 DEF Deserved, Findings
<1>11. /\ "fs_write" \in Deserved(e.did, CanModify) <=> s.kind = "openat" /\ out /\ CanModify(s.arg)
       /\ "fs_write" \in Deserved(e.did, AsksToModify) <=> s.kind = "openat" /\ out /\ AsksToModify(s.arg)
       /\ "fs_write" \in Findings(e.seen, now) <=>
            s.kind = "openat" /\ IsWriteFlag(e.seen.flags) /\ ~IsAllowedWrite(s.name, now)
  BY <1>2, <1>4, <1>8 DEF Deserved, Findings
<1>12. s.kind = "openat" => (out <=> ~IsAllowedWrite(s.name, now))
  BY <1>2, <1>5
<1>13. /\ "fs_write" \in Deserved(e.did, CanModify) => "fs_write" \in Findings(e.seen, now)
       /\ "fs_write" \in Findings(e.seen, now) => "fs_write" \in Deserved(e.did, AsksToModify)
  BY <1>6, <1>11, <1>12
<1> DEFINE All == {"exec", "net_connect", "sensitive_read", "fs_write", "fs_delete", "fs_chmod", "ptrace"}
<1>14. /\ Deserved(e.did, CanModify) \subseteq All /\ Deserved(e.did, AsksToModify) \subseteq All
       /\ Findings(e.seen, now) \subseteq All
  BY DEF Deserved, Findings
<1> HIDE DEF All
<1>15. \A c \in All : c \in {"exec", "net_connect", "sensitive_read", "ptrace"}
                         \/ c \in {"fs_delete", "fs_chmod"} \/ c = "fs_write"
  BY DEF All
<1> QED
  BY <1>9, <1>10, <1>13, <1>14, <1>15

--------------------------------------------------------------------------------
(* Filing an event under a call keeps it an event.                               *)
LEMMA RefiledIsEvent ==
  ASSUME NEW e \in Events, NEW c \in MaybeCall
  PROVE  [e EXCEPT !.call = c] \in Events /\ e.call \in MaybeCall
<1>1. PICK s \in Syscalls : \E r \in Records(s), b \in MaybeCall, l \in Links, d \in Places :
        e = Event(s, r, b, l, d)
  BY EventOf
<1>2. PICK r \in Records(s), b \in MaybeCall, l \in Links, d \in Places : e = Event(s, r, b, l, d)
  BY <1>1
<1>3. [e EXCEPT !.call = c] = Event(s, r, c, l, d) /\ e.call = b
  BY <1>2 DEF Event
<1>4. Event(s, r, c, l, d) \in Events
  BY EventOf
<1> QED
  BY <1>3, <1>4

(* What recording does to the book: one event more for a call, or one ambient.   *)
LEMMA RecordedFiles ==
  ASSUME FindingsInv, NEW e \in Events, Recorded(e)
  PROVE  \/ \E c \in Calls, x \in Events :
              /\ events_by_call' = [events_by_call EXCEPT ![c] = Append(@, x)]
              /\ UNCHANGED ambient_events
         \/ ambient_events' = Append(ambient_events, e) /\ UNCHANGED events_by_call
<1> DEFINE c == IF e.call # NoCall THEN e.call ELSE active_call
<1>1. c \in MaybeCall
  BY RefiledIsEvent DEF FindingsInv
<1>2. CASE c = NoCall
  BY <1>2 DEF Recorded
<1>3. CASE c # NoCall
  <2>1. c \in Calls /\ [e EXCEPT !.call = c] \in Events
    BY <1>1, <1>3, RefiledIsEvent DEF MaybeCall
  <2> QED
    BY <1>3, <2>1 DEF Recorded
<1> QED
  BY <1>2, <1>3

LEMMA RecordedKeepsTypes ==
  ASSUME FindingsInv, NEW e \in Events, Recorded(e)
  PROVE  events_by_call' \in [Calls -> Seq(Events)] /\ ambient_events' \in Seq(Events)
<1>1. CASE ambient_events' = Append(ambient_events, e) /\ UNCHANGED events_by_call
  BY <1>1 DEF FindingsInv
<1>2. ASSUME NEW c \in Calls, NEW x \in Events,
             events_by_call' = [events_by_call EXCEPT ![c] = Append(@, x)], UNCHANGED ambient_events
      PROVE  events_by_call' \in [Calls -> Seq(Events)] /\ ambient_events' \in Seq(Events)
  <2>1. Append(events_by_call[c], x) \in Seq(Events)
    BY DEF FindingsInv
  <2> QED
    BY <1>2, <2>1 DEF FindingsInv
<1> QED
  BY <1>1, <1>2, RecordedFiles

(* The event of a syscall made now is one of Events.                             *)
LEMMA CapturedIsEvent ==
  ASSUME FindingsInv, NEW s \in Syscalls, NEW r \in Records(s)
  PROVE  Event(s, r, NoCall, link, dir) \in Events
BY EventOf DEF FindingsInv, MaybeCall

LEMMA FindingsInvInit == ASSUME Init PROVE FindingsInv
<1>1. /\ link \in Links /\ dir \in Places /\ active_call \in MaybeCall
      /\ playing \in Seq(Events) /\ ambient_events \in Seq(Events)
      /\ events_by_call \in [Calls -> Seq(Events)]
      /\ summary \in [Calls -> Seq(Events) \cup {NoSummary}]
  BY RulesAssumption, FindingsAssumption DEF Init, MonitorInit, Links, MaybeCall
<1>2. DOMAIN findings = Calls /\ \A c \in Calls : findings[c] = NoSummary
  BY DEF Init
<1> QED
  BY <1>1, <1>2 DEF FindingsInv

LEMMA FindingsInvNext == ASSUME FindingsInv, [Next]_vars PROVE FindingsInv'
<1> USE DEF FindingsInv
<1>1. ASSUME NEW s \in Syscalls, NEW r \in Records(s), Syscall(s, r) PROVE FindingsInv'
  <2> DEFINE e == Event(s, r, NoCall, link, dir)
  <2>1. /\ link' \in Links /\ dir' \in Places
        /\ UNCHANGED <<active_call, playing, summary, findings>>
    BY <1>1 DEF Syscall, record, monitorVars, fuzzerVars, Links
  <2>2. events_by_call' \in [Calls -> Seq(Events)] /\ ambient_events' \in Seq(Events)
    <3>1. CASE Recorded(e)
      BY <3>1, CapturedIsEvent, RecordedKeepsTypes
    <3>2. CASE UNCHANGED monitorVars
      BY <3>2 DEF monitorVars
    <3> QED
      BY <1>1, <3>1, <3>2 DEF Syscall, record
  <2> QED
    BY <2>1, <2>2
<1>2. ASSUME NEW place \in Targets, Relink(place) \/ Chdir(place) PROVE FindingsInv'
  BY <1>2, FindingsAssumption DEF Relink, Chdir, monitorVars, fuzzerVars, Links
<1>3. CASE FuzzerStarts
  BY <1>3, FindingsAssumption DEF FuzzerStarts, Start, serverVars
<1>4. CASE Replay
  <2>1. Head(playing) \in Events /\ Tail(playing) \in Seq(Events)
    BY <1>4 DEF Replay, Play, Idle
  <2>2. events_by_call' \in [Calls -> Seq(Events)] /\ ambient_events' \in Seq(Events)
    BY <1>4, <2>1, RecordedKeepsTypes DEF Replay, Play
  <2> QED
    BY <1>4, <2>1, <2>2 DEF Replay, Play, serverVars, fuzzerVars
<1>5. ASSUME NEW c \in Calls, FuzzerBegins(c) PROVE FindingsInv'
  BY <1>5 DEF FuzzerBegins, BeginCall, serverVars, MaybeCall
<1>6. ASSUME NEW c \in Calls, FuzzerEnds(c) PROVE FindingsInv'
  <2>1. /\ summary[c] = NoSummary /\ findings[c] = NoSummary
        /\ summary' = [summary EXCEPT ![c] = events_by_call[c]]
        /\ events_by_call' = [events_by_call EXCEPT ![c] = <<>>]
        /\ active_call' \in MaybeCall
        /\ UNCHANGED <<link, dir, playing, ambient_events, findings>>
    BY <1>6 DEF FuzzerEnds, EndCall, serverVars, fuzzerVars, MaybeCall
  <2>2. /\ summary' \in [Calls -> Seq(Events) \cup {NoSummary}]
        /\ events_by_call' \in [Calls -> Seq(Events)]
        /\ \A d \in Calls : d # c => summary'[d] = summary[d]
    BY <2>1
  <2> QED
    BY <2>1, <2>2
<1>7. ASSUME NEW c \in Calls, Evaluate(c) PROVE FindingsInv'
  <2> DEFINE f == [found |-> [i \in DOMAIN summary[c] |-> Findings(summary[c][i].seen, link)], link |-> link]
  <2>1. /\ summary[c] # NoSummary /\ findings' = [findings EXCEPT ![c] = f]
        /\ UNCHANGED <<link, dir, active_call, playing, ambient_events, events_by_call, summary>>
    BY <1>7 DEF Evaluate, monitorVars, serverVars
  <2>2. /\ DOMAIN findings' = Calls /\ findings'[c] = f
        /\ \A d \in Calls : d # c => findings'[d] = findings[d]
    BY <2>1
  <2> QED
    BY <2>1, <2>2
<1>8. CASE UNCHANGED vars
  BY <1>8 DEF vars, monitorVars, serverVars, fuzzerVars
<1> QED
  BY <1>1, <1>2, <1>3, <1>4, <1>5, <1>6, <1>7, <1>8 DEF Next

LEMMA FindingsInvariant == Spec => []FindingsInv
<1>1. Init => FindingsInv
  BY FindingsInvInit
<1>2. FindingsInv /\ [Next]_vars => FindingsInv'
  BY FindingsInvNext
<1> QED
  BY <1>1, <1>2, PTL DEF Spec

--------------------------------------------------------------------------------
LEMMA EveryVerdict ==
  ASSUME FindingsInv
  PROVE  NothingMissed /\ NothingInvented
<1> SUFFICES ASSUME NEW c \in Judged, NEW i \in DOMAIN summary[c], Knowable(summary[c][i], findings[c].link)
             PROVE  /\ Deserved(summary[c][i].did, CanModify) \subseteq findings[c].found[i]
                    /\ findings[c].found[i] \subseteq Deserved(summary[c][i].did, AsksToModify)
  BY DEF NothingMissed, NothingInvented
<1>1. /\ c \in Calls /\ summary[c] \in Seq(Events) /\ findings[c].link \in Links
      /\ findings[c].found[i] = Findings(summary[c][i].seen, findings[c].link)
  BY DEF Judged, FindingsInv
<1> DEFINE e == summary[c][i]
<1>2. e \in Events
  BY <1>1
<1>3. /\ Deserved(e.did, CanModify) \subseteq Findings(e.seen, findings[c].link)
      /\ Findings(e.seen, findings[c].link) \subseteq Deserved(e.did, AsksToModify)
  BY <1>1, <1>2, Verdict, Zenon
<1> QED
  BY <1>1, <1>3

(* Whatever the tracepoint may read in place of the arguments: when it read them   *)
(* as the kernel did, no syscall that can change a file outside the write roots,   *)
(* no program, destination or ptrace outside the allow lists goes without a        *)
(* finding, for any flags, script, calls and moves of the server, as far as the   *)
(* path is Knowable.                                                             *)
THEOREM MissesNothing == Spec => []NothingMissed
<1>1. FindingsInv => NothingMissed
  BY EveryVerdict
<1> QED
  BY <1>1, FindingsInvariant, PTL

(* Nor does a finding about such a syscall say more than its arguments asked for. *)
THEOREM InventsNothing == Spec => []NothingInvented
<1>1. FindingsInv => NothingInvented
  BY EveryVerdict
<1> QED
  BY <1>1, FindingsInvariant, PTL

--------------------------------------------------------------------------------
(* The fake monitor is a MonitorBook.                                            *)
LEMMA AppendGrows ==
  ASSUME NEW q \in Seq(Events), NEW x \in Events
  PROVE  Book!GrowsByOne(q, Append(q, x))
BY DEF Book!GrowsByOne, Book!Front

LEMMA RecordedKeepsBook ==
  ASSUME FindingsInv, NEW e \in Events, Recorded(e), UNCHANGED summary
  PROVE  Book!BookNext
<1>1. CASE ambient_events' = Append(ambient_events, e) /\ UNCHANGED events_by_call
  BY <1>1, AppendGrows DEF FindingsInv, Book!BookNext, Book!FileAmbient
<1>2. ASSUME NEW c \in Calls, NEW x \in Events,
             events_by_call' = [events_by_call EXCEPT ![c] = Append(@, x)], UNCHANGED ambient_events
      PROVE  Book!BookNext
  <2>1. events_by_call[c] \in Seq(Events) /\ events_by_call'[c] = Append(events_by_call[c], x)
    BY <1>2 DEF FindingsInv
  <2>2. Book!GrowsByOne(events_by_call[c], events_by_call'[c])
    BY <2>1, AppendGrows
  <2> QED
    BY <1>2, <2>1, <2>2 DEF Book!BookNext, Book!File, FindingsInv
<1> QED
  BY <1>1, <1>2, RecordedFiles

LEMMA NextKeepsBook ==
  ASSUME FindingsInv, [Next]_vars
  PROVE  [Book!BookNext]_<<events_by_call, ambient_events, summary>>
<1> DEFINE Same == UNCHANGED <<events_by_call, ambient_events, summary>>
<1>1. ASSUME NEW s \in Syscalls, NEW r \in Records(s), Syscall(s, r)
      PROVE  Book!BookNext \/ Same
  BY <1>1, CapturedIsEvent, RecordedKeepsBook DEF Syscall, record, monitorVars
<1>2. CASE Replay
  <2>1. Head(playing) \in Events
    BY <1>2 DEF Replay, Play, Idle, FindingsInv
  <2> QED
    BY <1>2, <2>1, RecordedKeepsBook DEF Replay, Play
<1>3. ASSUME NEW c \in Calls, FuzzerEnds(c) PROVE Book!BookNext
  BY <1>3 DEF FuzzerEnds, EndCall, Book!BookNext, Book!HandOver
<1>4. ASSUME NEW place \in Targets, Relink(place) \/ Chdir(place) PROVE Same
  BY <1>4 DEF Relink, Chdir, monitorVars
<1>5. ASSUME NEW c \in Calls, FuzzerBegins(c) \/ Evaluate(c) PROVE Same
  BY <1>5 DEF FuzzerBegins, BeginCall, Evaluate, monitorVars
<1>6. CASE FuzzerStarts
  BY <1>6 DEF FuzzerStarts, Start
<1>7. CASE UNCHANGED vars
  BY <1>7 DEF vars, monitorVars
<1> QED
  BY <1>1, <1>2, <1>3, <1>4, <1>5, <1>6, <1>7 DEF Next

(* FakeRuntimeMonitor keeps every event exactly once, in order, until end_call    *)
(* hands it over: it implements the abstract book.                               *)
THEOREM FakeMonitorKeepsBook == Spec => KeepsBook
<1>1. Init => Book!BookInit
  BY DEF Init, MonitorInit, Book!BookInit
<1>2. FindingsInv /\ [Next]_vars => [Book!BookNext]_<<events_by_call, ambient_events, summary>>
  BY NextKeepsBook
<1> QED
  BY <1>1, <1>2, FindingsInvariant, PTL DEF Spec, KeepsBook, Book!BookSpec
================================================================================
