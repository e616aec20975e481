---------------------------- MODULE MCFakeBackend ------------------------------
(* A small instance of FakeProcess for TLC: two calls of different tools.  One    *)
(* script has an entry of every kind, a filtered, an unfiltered and an untyped   *)
(* one for each mark; the other is the example script of the repository.         *)
EXTENDS FakeProcess

CONSTANTS t1, t2

On(trigger, tool, typed) == [trigger |-> trigger, tool |-> tool, typed |-> typed]

EveryKind == <<On("startup", NoTool, TRUE), On("scope", NoTool, TRUE),
               On("begin", t1, TRUE), On("begin", t2, FALSE), On("begin", NoTool, TRUE),
               On("end", t1, TRUE), On("end", t2, TRUE)>>
Sample    == <<On("startup", NoTool, TRUE), On("scope", NoTool, TRUE),
               On("begin", t1, TRUE), On("begin", t1, TRUE), On("end", t1, TRUE)>>

TwoScripts == {EveryKind, Sample, <<>>}
AllControl == {Begin(c) : c \in Calls} \cup {End(c) : c \in Calls}
                \cup {Scope(g) : g \in Groups} \cup {Ignored, Shutdown}
CallTools  == [c \in Calls |-> IF c = CHOOSE d \in Calls : TRUE THEN t1 ELSE t2]

(* Command lines: a session, with and without a script, repeated options, values  *)
(* that look like options, help before and after an error, a missing value.      *)
Fake      == <<"backend", "fake">>
File(f)   == <<"events_file", f>>
Flag(w)   == <<w, "">>
Settings  == {<<Fake, File("script")>>, <<Fake, Fake>>,
              <<Fake, <<"backend", "ebpf">>, <<"grace_ms", "250">>>>,
              <<File("missing"), Fake, File("script"), <<"grace_ms", "250">>>>,
              <<>>, <<Fake, File("broken")>>, <<Fake, File("script"), File("--help")>>,
              <<Fake, Flag("-V"), Flag("--stray")>>, <<Flag("--stray"), Flag("--help")>>,
              <<<<"grace_ms", "abc">>, Flag("-h")>>, <<Fake, Flag("--events-file")>>,
              <<<<"backend", "nope">>>>}
================================================================================
