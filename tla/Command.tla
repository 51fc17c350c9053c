-------------------------------- MODULE Command --------------------------------
(*****************************************************************************)
(* The commands run and ci (cmd/run, cmd/ci), which execute steps in the     *)
(* foreground, without the service: their context is never cancelled.  Each  *)
(* is a process of its own, so in an instance with commands there is one     *)
(* job, whose heap begins with the environment that the command has made of  *)
(* that of the process.                                                      *)
(*                                                                           *)
(* The options of run are a record with the flags that are given: step, git, *)
(* oci, inputs, env, job, textProto and report, the format of the report.    *)
(*****************************************************************************)
EXTENDS Steps

CONSTANTS
    RunOptions,     \* options that run may be given
    CiSteps,        \* what the variable STEPS may hold, <<>> if it is not set
    ExcludedNames,  \* the names of variables that begin with CI_, GITLAB_, FF_ ...
    KnownNames,     \* the names of variables that ci hands on
    JobVarNames,    \* the names of variables that ci takes for job variables
    YamlKind(_)     \* the kind that YAML gives to a plain text

VARIABLES
    command,    \* "", "run" or "ci", the command that runs the job
    report,     \* the report it has to write: "", a format, or "written: status"
    exit        \* how it has ended: "", "ok" or "error"

commandVars == <<command, report, exit>>

CommandInit ==
    /\ Init
    /\ command = [j \in Jobs |-> ""]
    /\ report = [j \in Jobs |-> ""]
    /\ exit = [j \in Jobs |-> ""]

-------------------------------------------------------------------------------
\* The entry of a sequence that the options of run stand for: the texts of inputs
\* and env are inserted in a document of YAML, and an input gets its kind there.
\* Nil if no step is specified.
YamlStep(o) ==
    LET ref == CASE "step" \in DOMAIN o ->
                      Text(IF Head(o.step) = "step:" THEN Tail(o.step) ELSE o.step)
                 [] "step" \notin DOMAIN o /\ "git" \in DOMAIN o ->
                      Object([git |-> o.git])
                 [] DOMAIN o \cap {"step", "git", "oci"} = {"oci"} ->
                      Object([oci |-> o.oci @@ [repository |-> <<>>, tag |-> <<>>]])
                 [] OTHER -> Nil
        inputs == Get(o, "inputs", Empty)
    IN  [step |-> ref, env |-> Get(o, "env", NoVars),
         inputs |-> [k \in DOMAIN inputs |-> Value(YamlKind(inputs[k]), inputs[k])]]

\* The steps become the run of a definition without inputs and outputs.
WrapSteps(run) ==
    [spec |-> Empty, step |-> IF run = <<>> THEN Empty ELSE [run |-> run]]

\* The definition that run executes.  One in a file of text protobuf is taken as
\* it is, and only that one has a directory.
RunDefinition(o) ==
    IF "textProto" \in DOMAIN o
    THEN IF IsError(o.textProto) THEN Error
         ELSE Value("def", o.textProto.val @@ [spec |-> CompileSpec(Empty).val])
    ELSE Compile(WrapSteps(<<YamlStep(o)>>), <<>>)

\* The command makes the context of its job, or ends with an error.
Start(j, name, def, osVars, jv, format) ==
    LET h == << NewEnvironment(osVars) >>
        g == GlobalEnvironment(h, 1, jv)
        valid == ~IsError(def) /\ Level(h, 1, jv) \in Levels
    IN  /\ globalEnv[j] = 0 /\ exit[j] = ""
        /\ command' = [command EXCEPT ![j] = name]
        /\ \/ /\ valid
              /\ SetHeap(j, g.heap)
              /\ globalEnv' = [globalEnv EXCEPT ![j] = g.env]
              /\ request' = [request EXCEPT ![j] = [env |-> NoVars, job |-> jv]]
              /\ stack' = [stack EXCEPT ![j] =
                    <<NewFrame(g.heap, Len(g.heap), def.val, "", NoVars,
                               NewInputsWithDefault(def.val.spec, Empty), g.env)>>]
              /\ report' = [report EXCEPT ![j] = format]
              /\ UNCHANGED exit
           \/ /\ exit' = [exit EXCEPT ![j] = "error"]
              /\ UNCHANGED <<heapVars, globalEnv, request, stack, report>>
        /\ UNCHANGED <<ret, cancelled, exported>>

Run(j) ==
    \E o \in RunOptions :
        Start(j, "run", RunDefinition(o),
              Restrict(ProcessVars, DOMAIN ProcessVars \ ExcludedNames),
              Get(o, "job", NoVars), Get(o, "report", ""))

Ci(j) ==
    \E steps \in CiSteps, format \in {"", "json"} :
        Start(j, "ci", Compile(WrapSteps(steps), <<>>),
              Restrict(ProcessVars, DOMAIN ProcessVars \cap KnownNames),
              Restrict(ProcessVars, DOMAIN ProcessVars \cap JobVarNames), format)

\* The step has returned.  The report is written whether it failed or not; that it
\* cannot be written is no error.
End(j) ==
    /\ command[j] # "" /\ exit[j] = "" /\ stack[j] = <<>>
    /\ exit' = [exit EXCEPT ![j] = IF ret[j].err = "nil" THEN "ok" ELSE "error"]
    /\ \/ report[j] \in {"json", "prototext"}
          /\ report' = [report EXCEPT ![j] = "written: " \o ret[j].status]
       \/ UNCHANGED report
    /\ UNCHANGED <<vars, command>>

CommandNext ==
    \E j \in Jobs :
        \/ Run(j) \/ Ci(j) \/ End(j)
        \/ command[j] = "" /\ exit[j] = "" /\ (Begin(j) \/ Cancel(j)) /\ UNCHANGED commandVars
        \/ (EndCommand(j) \/ KillCommand(j) \/ JobStep(j)) /\ UNCHANGED commandVars

CommandSpec == CommandInit /\ [][CommandNext]_<<vars, commandVars>>
===============================================================================
