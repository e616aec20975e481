---------------------------- MODULE MCEbpfSession ------------------------------
(* Small instances of EbpfSession for TLC.                                       *)
EXTENDS EbpfSession

CallSymmetry == Permutations(Calls)

Marks        == {Begin(c) : c \in Calls} \cup {End(c) : c \in Calls}
ScopedMarks  == Marks \cup {Scope(g) : g \in Groups}
StoppedMarks == Marks \cup {Shutdown}
OneSession   == ScopedMarks \cup {Shutdown}
OddMessages  == {Scope(g) : g \in Groups} \cup {End(NoCall), Ignored, Shutdown}

Decodable    == {<<p, TRUE>> : p \in Procs}
AllSyscalls  == Procs \X BOOLEAN
================================================================================
