------------------------------ MODULE FakeProcess ------------------------------
(* The process around the fake backend, crates/mcpfz-probe/src/main.rs: the      *)
(* command line, the events file and the exit code.  A command line is given as  *)
(* settings, each of one or two words; the parser sees only the words.           *)
EXTENDS FakeBackend

CONSTANT CommandLines   \* sequences of settings a process is started with

(* Without an events file the script is empty.                                   *)
ASSUME ProcessAssumption == <<>> \in Scripts

VARIABLES
  given,     \* history: the settings
  args,      \* words parse_args has not taken yet
  options,   \* backend, events_file, grace_ms
  exit       \* "parsing", "running", "ebpf", or the exit code

processVars == <<given, args, options, exit>>

(* The values an option takes.  An events file is named by what reading it gives. *)
Files    == {"script", "missing", "broken", "--help"}
Accepted == [backend |-> {"fake", "ebpf"}, events_file |-> Files, grace_ms |-> {"250"}]
Fields   == DOMAIN Accepted
OptionOf == [backend |-> "--backend", events_file |-> "--events-file", grace_ms |-> "--grace-ms"]
Default  == [backend |-> "ebpf", events_file |-> "none", grace_ms |-> "100"]

Words(setting) == IF setting[2] = "" THEN <<setting[1]>> ELSE <<OptionOf[setting[1]], setting[2]>>

(* A sequence of nonempty words is cut into settings in one way: an option takes  *)
(* the next word as its value, and has none only at the end of the line.  Any    *)
(* word can name an events file.                                                 *)
Setting == STRING \X STRING
ASSUME CommandLineAssumption ==
  /\ CommandLines \subseteq Seq(Setting)
  /\ \A line \in CommandLines : \A i \in DOMAIN line :
       IF line[i][2] # ""
         THEN line[i][1] \in Fields /\ (line[i][1] = "events_file" => line[i][2] \in Files)
         ELSE line[i][1] \in {OptionOf[f] : f \in Fields} => i = Len(line)

ProcessInit ==
  /\ Init
  /\ given \in CommandLines
  /\ args = FlattenSeq([i \in DOMAIN given |-> Words(given[i])])
  /\ options = Default /\ exit = "parsing"

--------------------------------------------------------------------------------
Parsing == exit = "parsing" /\ UNCHANGED <<vars, given>>
Quit(code) == exit' = code /\ args' = <<>> /\ UNCHANGED options

Informs == {"-h", "--help", "-V", "--version"}

ParseFlag ==
  /\ Parsing /\ args # <<>>
  /\ Head(args) \notin {OptionOf[f] : f \in Fields}
  /\ Quit(IF Head(args) \in Informs THEN "success" ELSE "usage")

(* Mutant: the first value given for an option stays.                            *)
ParseOptionOnce(f) ==
  /\ Parsing /\ args # <<>> /\ Head(args) = OptionOf[f]
  /\ IF Len(args) > 1 /\ args[2] \in Accepted[f]
       THEN /\ options' = IF options[f] = Default[f] THEN [options EXCEPT ![f] = args[2]] ELSE options
            /\ args' = Tail(Tail(args)) /\ UNCHANGED exit
       ELSE Quit("usage")

ParseOption(f) ==
  /\ Parsing /\ args # <<>> /\ Head(args) = OptionOf[f]
  /\ IF Len(args) > 1 /\ args[2] \in Accepted[f]
       THEN options' = [options EXCEPT ![f] = args[2]] /\ args' = Tail(Tail(args)) /\ UNCHANGED exit
       ELSE Quit("usage")

(* The events file is read before the backend exists; `script` holds what it     *)
(* says.  The eBPF backend is another specification's (without the feature run() *)
(* fails and the exit code is 69).                                               *)
Run ==
  /\ exit = "parsing" /\ args = <<>>
  /\ exit' = CASE options.backend = "ebpf"                    -> "ebpf"
               [] options.events_file \in {"none", "script"}  -> "running"
               [] OTHER                                       -> "usage"
  /\ script' = IF options.events_file = "script" THEN script ELSE <<>>
  /\ UNCHANGED <<stdin, stdout, sent, active_call, active_tool, pc, job, at, given, args, options>>

--------------------------------------------------------------------------------
(* Mutant: run_fake forgets the result of run().                                 *)
ExitAlways(code) == exit' = IF pc' = "done" THEN "success" ELSE exit

(* The exit code says how run() returned.                                        *)
ExitWith(code) == exit' = IF pc' = "done" THEN code ELSE exit

Session ==
  /\ exit = "running" /\ UNCHANGED <<given, args, options>>
  /\ \/ BackendStep /\ ExitWith("success")
     \/ WriteFails /\ ExitWith("io_error")

Client == (\E m \in Messages : ClientSend(m)) /\ UNCHANGED processVars

ProcessNext == ParseFlag \/ (\E f \in Fields : ParseOption(f)) \/ Run \/ Session \/ Client

ProcessSpec == ProcessInit /\ [][ProcessNext]_<<vars, processVars>>

--------------------------------------------------------------------------------
(* main.rs:119-156: the words mean what was given.  A session runs only if every *)
(* setting is an accepted option, with the value given last for each; otherwise  *)
(* the first setting that is not decides between help and an error.  (A session   *)
(* that succeeded has run; help exits with success too, but runs none.)           *)
IsOption(s) == s[1] \in Fields /\ s[2] \in Accepted[s[1]]
Odd == {i \in DOMAIN given : ~IsOption(given[i])}
LastGiven(f) == LET at_f == {i \in DOMAIN given : given[i][1] = f}
               IN  IF at_f = {} THEN Default[f] ELSE given[Max(at_f)][2]
Succeeded == exit = "success" /\ pc = "done"
ParsedAsGiven ==
  /\ exit \in {"running", "ebpf", "io_error"} \/ Succeeded =>
       Odd = {} /\ \A f \in Fields : options[f] = LastGiven(f)
  /\ exit = "success" /\ ~Succeeded => Odd # {} /\ given[Min(Odd)][1] \in Informs
  /\ exit = "usage" =>
       \/ Odd # {} /\ given[Min(Odd)][1] \notin Informs
       \/ LastGiven("events_file") \notin {"none", "script"}

(* A session that exits with success lost nothing: every mark the client sent     *)
(* was answered (fake.rs:242-256, main.rs:110-116).                              *)
SuccessMeansAnswered ==
  Succeeded => \A m \in sent :
    /\ m.op = "begin" => Contains(stdout, BeginLine(m.arg))
    /\ m.op = "end" /\ m.arg # NoCall => Contains(stdout, EndLine(m.arg))
================================================================================
