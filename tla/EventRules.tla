------------------------------ MODULE EventRules -------------------------------
(* What becomes of one traced syscall: the record the tracepoint fills, the      *)
(* event decode() of ebpf.rs makes of it, the findings policy.py makes of the    *)
(* event.  Pure operators; a set of bit numbers stands for the integer argument  *)
(* of a syscall.                                                                 *)
(*                                                                               *)
(* A path is reduced to where it leads.  Three places stand for absolute paths   *)
(* without links: in a write root, outside, and a file outside that matches a     *)
(* sensitive pattern.  Then there are a link in the write root, a path through    *)
(* it, and a relative path.  Programs and destinations are "allowed" or "outside".*)
EXTENDS Naturals

CONSTANTS
  MonitorDir,  \* the place of the monitor's working directory
  FlagSets     \* open(2) arguments, each a set of bit numbers

Places == {"allowed", "outside", "secret"}
Names  == Places \cup {"link", "linked", "relative"}
Bits   == 0..63

ASSUME RulesAssumption == MonitorDir \in Places /\ FlagSets \subseteq SUBSET Bits

(* A syscall that a tracepoint sees.  `name` is its path, program or destination *)
(* ("" when there is no inet destination), `arg` its integer argument.           *)
Call(kind, names, args) == [kind : {kind}, name : names, arg : args]
Syscalls ==
  Call("openat", Names, FlagSets) \cup Call("unlink", Names, {{}}) \cup Call("chmod", Names, {{}})
    \cup Call("execve", {"allowed", "outside"}, {{}}) \cup Call("ptrace", {""}, {{}})
    \cup Call("connect", {"allowed", "outside", ""}, {{}})
    \cup Call("sendto", {"allowed", "outside", ""}, {{}})

--------------------------------------------------------------------------------
(* Capture and decoding.                                                         *)

(* The names a record can hold for a syscall of some kind.  A path is what the    *)
(* tracepoint reads of it, before the kernel does: at most 255 bytes (a longer    *)
(* path becomes its prefix, which leads anywhere), "" when the page is not there  *)
(* or the bytes, perhaps cut in a character, are not UTF-8, and anything when     *)
(* another thread of the server writes the buffer meanwhile.  Address and port    *)
(* are read one by one and 0 when that fails, which is another destination; the   *)
(* family 0 is none.                                                             *)
Captured(kind) ==
  CASE kind \in {"openat", "unlink", "chmod"}    -> Names \cup {""}
    [] kind \in {"execve", "connect", "sendto"} -> {"allowed", "outside", ""}
    [] OTHER                                    -> {""}

(* The records a tracepoint may make of a syscall; an argument that cannot be     *)
(* read is 0.                                                                    *)
Records(s) == {[s EXCEPT !.name = n, !.arg = a] : n \in Captured(s.kind), a \in {s.arg, {}}}

(* A null address reserves nothing; decode() rejects what is no inet family.      *)
IsReported(r) == r.kind \in {"connect", "sendto"} => r.name # ""

FlagBit == [O_CREAT |-> 6, O_EXCL |-> 7, O_TRUNC |-> 9, O_APPEND |-> 10]

(* Mutant: access mode 3 is taken for O_RDWR.                                    *)
AccessModeWide(flags) ==
  CASE flags \cap {0, 1} = {0} -> "O_WRONLY"
    [] 1 \in flags             -> "O_RDWR"
    [] OTHER                   -> "O_RDONLY"

AccessMode(flags) ==
  CASE flags \cap {0, 1} = {0} -> "O_WRONLY"
    [] flags \cap {0, 1} = {1} -> "O_RDWR"
    [] OTHER                   -> "O_RDONLY"

(* The names joined by "|", as a set: nobody reads their order.                  *)
flags_to_string(flags) ==
  {AccessMode(flags)} \cup {n \in DOMAIN FlagBit : FlagBit[n] \in flags}

EventType == [execve |-> "exec", connect |-> "connect", sendto |-> "connect", ptrace |-> "ptrace",
              openat |-> "file_open", unlink |-> "file_delete", chmod |-> "chmod"]

(* `ev.arg as i32` drops the upper half of the register.                         *)
decode(r) ==
  [type  |-> EventType[r.kind], name |-> r.name,
   flags |-> IF r.kind = "openat" THEN flags_to_string(r.arg \cap 0..31) ELSE {}]

--------------------------------------------------------------------------------
(* Policy.  `link` is where the link leads at that moment, or "gone".             *)

(* Mutant: the path is compared as it is written.                                *)
ResolveLexical(path, link) ==
  IF path \in Places THEN path
  ELSE IF path \in {"link", "linked"} THEN "allowed" ELSE MonitorDir

(* Path.resolve(): links are followed, a missing one is kept as it is written,   *)
(* and a relative (or empty) path starts in the monitor's own directory.         *)
Resolve(path, link) ==
  IF path \in Places THEN path
  ELSE IF path \in {"link", "linked"} THEN (IF link = "gone" THEN "allowed" ELSE link)
  ELSE MonitorDir

IsAllowedWrite(path, link) == Resolve(path, link) = "allowed"
IsWriteFlag(flags) == flags \cap {"O_WRONLY", "O_RDWR", "O_CREAT", "O_TRUNC", "O_APPEND"} # {}

(* The categories of the findings of one event.                                  *)
Findings(e, link) ==
  {c \in {"exec", "net_connect", "sensitive_read", "fs_write", "fs_delete", "fs_chmod", "ptrace"} :
     \/ c = "exec" /\ e.type = "exec" /\ e.name # "allowed"
     \/ c = "net_connect" /\ e.type = "connect" /\ e.name \notin {"", "allowed"}
     \/ c = "sensitive_read" /\ e.type = "file_open" /\ e.name = "secret"
     \/ c = "fs_write" /\ e.type = "file_open" /\ IsWriteFlag(e.flags) /\ ~IsAllowedWrite(e.name, link)
     \/ c = "fs_delete" /\ e.type = "file_delete" /\ e.name # "" /\ ~IsAllowedWrite(e.name, link)
     \/ c = "fs_chmod" /\ e.type = "chmod" /\ e.name # "" /\ ~IsAllowedWrite(e.name, link)
     \/ c = "ptrace" /\ e.type = "ptrace"}

--------------------------------------------------------------------------------
(* The meaning of the arguments, from open(2), to judge the rules by.            *)

(* An open that can change a file: it may write, create or truncate.  Access     *)
(* mode 3 gives neither right, and O_PATH (bit 21) opens nothing.                *)
CanModify(flags) ==
  /\ 21 \notin flags
  /\ flags \cap {0, 1} \in {{0}, {1}} \/ {6, 9} \cap flags # {}

(* An open whose arguments speak of changing a file.                             *)
AsksToModify(flags) == flags \cap {0, 1} \in {{0}, {1}} \/ {6, 9, 10} \cap flags # {}

(* Where the kernel finds the path of a syscall of a task in directory dir:       *)
(* unlink does not follow the link itself; "nowhere" when the link is gone.      *)
Touched(s, link, dir) ==
  CASE s.name \in Places                         -> s.name
    [] s.name = "relative"                       -> dir
    [] s.name = "link" /\ s.kind = "unlink"      -> IF link = "gone" THEN "nowhere" ELSE "allowed"
    [] s.name \in {"link", "linked"}             -> IF link = "gone" THEN "nowhere" ELSE link
    [] OTHER                                     -> "nowhere"
================================================================================
