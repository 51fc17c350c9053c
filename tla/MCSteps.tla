-------------------------------- MODULE MCSteps --------------------------------
(*****************************************************************************)
(* Model checking of Steps: a job that runs nested sequences, beside one     *)
(* that runs a single command.  Each exports, and sets, values of its own.   *)
(* The steps have no inputs and no outputs; those are in MCStepsData.        *)
(*****************************************************************************)
EXTENDS Steps

X(v) == [n \in {"X"} |-> <<v>>]
Line(name, value) == [kind |-> "kv", name |-> name, value |-> Text(<<value>>)]
Bad == [kind |-> "bad"]

Doc(step) == [spec |-> Empty, step |-> step]
Exec(env) == Doc([exec |-> [command |-> << <<"cmd">> >>], env |-> env])
Sequence(run) == Doc([run |-> run])
Ref(dir, env) == [step |-> Text(<<".", dir>>), env |-> env]
GitRef == [step |-> Object([git |-> [url |-> <<"host">>, rev |-> "v1"]])]

\* Steps that set nothing; steps that set X in a definition or a reference, and
\* one from a remote repository.
Nested  == Sequence(<< Ref("exec", NoVars), Ref("plain", NoVars) >>)
Setting == Sequence(<< Ref("exec", X("ref")), Ref("setting", NoVars), GitRef >>)

MCBuildDir == <<"/", "build">>
File(dir) == << <<"/", "build", dir>>, "step.yml" >>
MCFiles ==
    (File("exec") :> Exec(NoVars)) @@ (File("setting") :> Exec(X("def"))) @@
    (<< <<"/", "git", "https://", "host", "v1">>, "step.yml" >> :> Exec(NoVars)) @@
    (File("plain") :> Sequence(<< Ref("exec", NoVars), Ref("exec", NoVars) >>))

MCRoots   == [j \in Jobs |-> IF j = "job" THEN {Nested, Setting} ELSE {Exec(NoVars)}]
MCExports == [j \in Jobs |-> IF j = "job" THEN {<<Line("X", "a")>>, <<Line("X", "b")>>}
                             ELSE {<<>>, <<Line("X", "z")>>, <<Bad>>}]
MCOutputFiles(args) == {<<>>}
MCRequestEnvs == [j \in Jobs |-> IF j = "job" THEN {NoVars, X("req")} ELSE {NoVars}]
MCJobVars == {<<>>, <<[key |-> "LOG", value |-> <<"loud">>, file |-> FALSE]>>}
MCProcessVars == [n \in {"LOG"} |-> <<"debug">>]
MCStrings == {<<>>} \cup { <<s>> : s \in {"info", "debug", "loud", "ref", "def", "a", "b",
                                         "z", "req"} }
MCLevels == {<<"info">>, <<"debug">>}
===============================================================================
