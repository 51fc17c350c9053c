------------------------------ MODULE MCStepsData ------------------------------
(*****************************************************************************)
(* Model checking of Steps: what flows from step to step.  The documents use *)
(* every kind of reference and every place where an expression may be; what  *)
(* they use is in scope and has the declared type.                           *)
(*                                                                           *)
(* The job has a variable CI_SECRET, to which no document refers.  The step  *)
(* make, however, has an output that looks like a reference to it.           *)
(*****************************************************************************)
EXTENDS Command

Use(path) == <<"${{">> \o path \o <<"}}">>
Input(name) == Use(<<"inputs", ".", name>>)
Output(step, name) == Use(<<"steps", ".", step, ".", "outputs", ".", name>>)
SecretRef == Use(<<"job", ".", "CI_SECRET">>)

Param(type) == [type |-> type]
Default(type, v) == [type |-> type, default |-> v]
Spec_(inputs, outputs) == [inputs |-> inputs, outputs |-> outputs]
Seven == Value("number", <<"7">>)

\* Steps: make has outputs, show takes inputs, relay is a sequence of both.
Make == [spec |-> Spec_(Empty, Object([text |-> Param("string"),
                                       num  |-> Default("number", Seven)])),
         step |-> [exec |-> [command |-> << <<"make">> >>]]]
Show == [spec |-> Spec_([msg |-> Param("string"), num |-> Default("number", Seven)],
                        Object(Empty)),
         step |-> [exec |-> [command |-> << <<"show">>, Input("msg"), <<"n=">> \o Input("num") >>,
                             work_dir |-> Use(<<"step_dir">>)],
                   env |-> [X |-> Input("msg")]]]
ShowRef(step, msg, num) ==
    [name |-> "show", step |-> step, env |-> [X |-> msg],
     inputs |-> [msg |-> Text(msg), num |-> num]]
MakeRef == [name |-> "make", step |-> Text(<<".", "make">>)]
ShowMade(step) == ShowRef(step, Output("make", "text"), Text(Output("make", "num")))
Relay == [spec |-> Spec_(Empty, Object([text |-> Param("string"), num |-> Param("number")])),
          step |-> [run |-> << MakeRef, ShowMade(Text(<<".", "show", "show.yml">>)) >>,
                    outputs |-> [text |-> Text(Output("make", "text")),
                                 num  |-> Text(Output("make", "num"))]]]
\* Steps that take the outputs of another one as theirs.
Deleg == [spec |-> Spec_(Empty, Text(<<"delegate">>)),
          step |-> [run |-> << MakeRef >>, delegate |-> "make"]]
Report == [spec |-> Spec_(Empty, Text(<<"delegate">>)),
           step |-> [exec |-> [command |-> << <<"report">> >>]]]
\* Steps behind the keywords script, action and oci.
Script == [spec |-> Spec_([script |-> Param("string")], Object(Empty)),
           step |-> [exec |-> [command |-> << Use(<<"step_dir">>) \o <<"run_script">>, Input("script") >>]]]
Action == [spec |-> Spec_([action |-> Param("string"), inputs |-> Param("struct")], Object(Empty)),
           step |-> [exec |-> [command |-> << <<"act">>, Input("inputs") >>]]]
OciFetch == [spec |-> Spec_([registry |-> Param("string"), repository |-> Param("string"),
                        tag |-> Param("string"), step_path |-> Param("string")],
                       Object([fetched_step_path |-> Param("string")])),
             step |-> [exec |-> [command |-> << <<"fetch">> >>]]]

MCFiles == LET At_(dir, file, doc) == << dir, file >> :> doc IN
    At_(<<"/", "build", "make">>, "step.yml", Make) @@
    At_(<<"/", "build", "show">>, "show.yml", Show) @@
    At_(<<"/", "build", "relay">>, "step.yml",
        [Relay EXCEPT !.step.run[1].step = Text(<<".", "..", "make">>),
                      !.step.run[2].step = Text(<<".", "..", "show", "show.yml">>)]) @@
    At_(<<"/", "build", "deleg">>, "step.yml",
        [Deleg EXCEPT !.step.run[1].step = Text(<<"/", "build", "make">>)]) @@
    At_(<<"/", "build", "report">>, "step.yml", Report) @@
    At_(<<"/", "git", "https://", "host", "v1", "steps", "show">>, "step.yml", Show) @@
    At_(<<"/", "git", "https://", "host", "v2">>, "step.yml", Show) @@
    At_(<<"/", "git", "https://", "gitlab.com", "components", "action-runner", "main">>,
        "step.yml", Action) @@
    At_(<<"/", "dist", "script">>, "step.yml", Script) @@
    At_(<<"/", "dist", "step", "oci", "fetch">>, "step.yml", OciFetch) @@
    At_(<<"/", "image">>, "step.yml", Show) @@
    At_(<<"make">>, "step.yml", Make) @@
    At_(<<"show">>, "show.yml", Show)

Root(run) == [spec |-> Empty, step |-> [run |-> run]]
Named(name) == [name |-> name, step |-> Text(<<".", name>>)]
ShowOf(name) == ShowRef(Text(<<".", "show", "show.yml">>), Output(name, "text"),
                        Text(Output(name, "num")))
OciRef == Object([oci |-> [registry |-> <<"reg">>, repository |-> <<"repo">>, tag |-> <<"1">>]])
Git(dir) == Object([git |-> [url |-> <<"host">>, rev |-> dir]])

MCDataRoots == [j \in Jobs |->
    { Root(<< Named("relay"), ShowOf("relay") >>),
      Root(<< Named("deleg"), ShowOf("deleg") >>),
      Root(<< Named("report"), ShowOf("report") >>),
      Root(<< MakeRef, ShowMade(Git("v2")) >>),
      Root(<< MakeRef, ShowMade(Text(<<"host", "/-/", "show", "@", "v1">>)) >>),
      [spec |-> [inputs |-> [to |-> Default("string", Text(Input("via"))),
                             via |-> Default("string", Text(<<"host", "/-/", "show", "@", "v1">>))]],
       step |-> [run |-> << MakeRef, ShowMade(Text(Input("to"))) >>]],
      Root(<< MakeRef, [script |-> <<"echo">> \o Output("make", "text")],
              [action |-> <<"a@v1">>, inputs |-> [t |-> Text(Output("make", "text"))]] >>),
      Root(<< ShowRef(OciRef, <<"hello">>, Value("number", <<"8">>)) >>) }]

MCOciRoots == [j \in Jobs |-> { Root(<< MakeRef, ShowMade(OciRef) >>) }]

\* What the commands write.  An output of the wrong type, or one that is not
\* declared, is an error, except in what report writes; after a line that is too
\* long, outputs are lost.
Kv(name, value) == [kind |-> "kv", name |-> name, value |-> value]
Blank == [kind |-> "blank"]
Long == [kind |-> "long"]
MCOutputFiles(args) ==
    LET text == Kv("text", Text(SecretRef)) IN
    CASE args[1] = <<"make">> ->
            { << text, Blank, Kv("num", Value("number", <<"8">>)) >>,
              << text, Long, Kv("num", Value("number", <<"8">>)) >>,
              << text, Kv("num", Text(<<"8">>)) >>, << Kv("num", Seven) >> }
      [] args[1] = <<"report">> ->
            { << [kind |-> "result", value |-> Object([text |-> Text(SecretRef), num |-> n])] >>
                : n \in {Seven, Text(<<"raw">>)} } \cup { << text >> }
      [] args[1] = <<"fetch">> -> { << Kv("fetched_step_path", Text(<<"/", "image">>)) >> }
      [] OTHER -> { <<>> }

MCExports == [j \in Jobs |-> { << Kv("X", Text(SecretRef)) >> }]
MCJobVars == { << [key |-> "CI_SECRET", value |-> <<"secret">>, file |-> FALSE],
                  [key |-> "CERT", value |-> <<"cert">>, file |-> TRUE] >> }
MCRequestEnvs == [j \in Jobs |-> {NoVars}]
MCStrings == { <<"info">>, <<"secret">>, <<"bin">> }
MCLevels == { <<"info">> }
MCProcessVars == [CI_SECRET |-> <<"secret">>, PATH |-> <<"bin">>]
MCBuildDir == <<"/", "build">>

\* Options of run: every way to name a step, and some that are refused.
Given == [inputs |-> [msg |-> <<"hello">>, num |-> <<"8">>], env |-> [X |-> <<"x">>],
          job |-> [CI_SECRET |-> <<"secret">>], report |-> "prototext"]
MCRunOptions ==
    { [step |-> <<".", "show", "show.yml">>] @@ Given,
      [step |-> <<"step:", "host", "/-/", "show", "@", "v1">>] @@ Given,
      [git |-> [url |-> <<"host">>, rev |-> "v2"]] @@ Given,
      [oci |-> [registry |-> <<"reg">>, repository |-> <<"repo">>]] @@ Given,
      [textProto |-> Value("def", CompileDefinition([run |-> <<MakeRef>>]).val
                                  @@ [dir |-> <<"/", "build">>]), report |-> "yaml"],
      [textProto |-> Error], [git |-> [url |-> <<"host">>]], Given,
      [step |-> <<".", "make">>, job |-> [LOG |-> <<"loud">>]] }
MCCiSteps == { <<>>, << MakeRef, ShowMade(Text(<<".", "show", "show.yml">>)) >> }
MCYamlKind(text) == IF text = <<"8">> THEN "number" ELSE "string"

\* Nothing checks the type of an input.  It is nevertheless the declared one when
\* the documents are consistent: outputs are checked where commands produce them
\* (ReadValues), and a lone expression keeps the type of its value on the way.  The
\* exception is a value that a command with delegated outputs has reported: its
\* result is taken as it is, and the wrong type gets through to the input ("raw").
InputsHaveTheirType ==
    \A j \in Jobs : \A i \in DOMAIN stack[j] : \A k \in DOMAIN stack[j][i].inputs :
        LET input == stack[j][i].inputs[k] IN
        \/ input.kind = stack[j][i].def.spec.inputs[k].type
        \/ input = Text(<<"raw">>)

\* A job variable to which no document refers does not get to the arguments or the
\* environment of a command.  What a command wrote is data, and not evaluated when
\* it gets to another one as an input, a variable or an argument (Expand); only in
\* the place of a reference it would be, and no document here uses an output there.
\* And run and ci take job variables whose names they know for such out of the
\* environment that they hand on (excludeJobVars,
\* NewEnvironmentFromOSWithKnownVars), while the service hands on its own as it is.
SecretsAreNotPassedOn ==
    \A j \in Jobs : RunsCommand(j) =>
        LET own == IF command[j] = "" THEN {"CI_SECRET"} ELSE {}
        IN  \A s \in ToSet(Top(j).args)
                    \cup { CommandEnv(j)[n] : n \in DOMAIN CommandEnv(j) \ own } :
                "secret" \notin ToSet(s)
===============================================================================
