---------------------------------- MODULE Steps ----------------------------------
(*****************************************************************************)
(* The execution of steps (pkg/runner): sequences of steps, the steps that   *)
(* are loaded when their turn comes, and the commands at the leaves.  Each   *)
(* job is one goroutine, whose calls of Step.Run are a stack of frames; jobs *)
(* share the environment of the process.                                     *)
(*                                                                           *)
(* A request brings a document of YAML, which module Schema compiles to a    *)
(* definition; the steps it refers to are found by module StepResource, and  *)
(* their inputs, environment, arguments and outputs are expanded by module   *)
(* Expression.  Everything that these decide is decided here too: what fails *)
(* by chance is a log, a file, a fetch or a command.                         *)
(*****************************************************************************)
EXTENDS Environment, StepFile, StepResource, StepResult

CONSTANTS
    Jobs,
    Roots,          \* Roots[j]: documents that job j may run
    JobVars,        \* lists of job variables that a request may have
    RequestEnvs,    \* RequestEnvs[j]: what the request of job j may add to the
                    \* environment
    Exports,        \* Exports[j]: export files that a command of job j may leave
    OutputFiles(_), \* output files that a command with these arguments may leave
    BuildDir,       \* directory of the jobs
    ProcessVars     \* environment of the process

ASSUME StepsAssumption ==
    /\ \A j \in Jobs : RequestEnvs[j] \subseteq Vars
    /\ ProcessVars \in Vars

VARIABLES
    process,    \* the environment of the process, which all jobs share
    heap,       \* the environments of each job
    globalEnv,  \* the environment of the job's GlobalContext, 0 before it starts
    stack,      \* frames of the calls of Step.Run, with their StepsContext
    ret,        \* result and error of the call that returned last
    cancelled,  \* the job's context is cancelled
    exported,   \* what the commands of the job have exported so far
    request     \* what the request brought: env and job variables

jobVars == <<globalEnv, request, cancelled>>
heapVars == <<process, heap>>
vars == <<heapVars, jobVars, stack, ret, exported>>

\* A result of Step.Run and its error.  The error "invalid" is one that the
\* documents and the data they are given make unavoidable.  The outputs of a step
\* that failed are never looked at.
Result(status, err, name, outputs) ==
    [status |-> status, err |-> err, name |-> name, outputs |-> outputs]
Success(name, outputs) == Result("success", "nil", name, outputs)
Failure(e) == Result("failure", e, "", Empty)
NoStep(e)  == Result("nil", e, "", Empty)

\* What job j can reach: index 1 is the environment of the process.
HeapOf(j) == <<process>> \o heap[j]
SetHeap(j, h) == process' = Head(h) /\ heap' = [heap EXCEPT ![j] = Tail(h)]

\* A call of Run of the step with definition def that a reference loads under a
\* name, in a new StepsContext over environment env of heap h; the heap had base
\* objects before.  set are the variables that the reference and, once Run has
\* applied them, the definition set.
NewFrame(h, base, def, name, set, inputs, env) ==
    [def |-> def, name |-> name, inputs |-> inputs, env |-> env, pc |-> "enter",
     subs |-> <<>>, results |-> Empty, args |-> <<>>, vars |-> <<set>>,
     base |-> base, known |-> DOMAIN Values(h, env)]

\* variables.Prepare: a file variable becomes the path of its file.
Prepare(variables) ==
    FoldLeft(LAMBDA m, v :
                (v.key :> IF v.file THEN <<"/", "tmp", v.key>> ELSE v.value) @@ m,
             NoVars, variables)

Init ==
    /\ process = NewEnvironment(ProcessVars)
    /\ heap = [j \in Jobs |-> <<>>]
    /\ globalEnv = [j \in Jobs |-> 0]
    /\ stack = [j \in Jobs |-> <<>>]
    /\ ret = [j \in Jobs |-> NoStep("nil")]
    /\ cancelled = [j \in Jobs |-> FALSE]
    /\ exported = [j \in Jobs |-> NoVars]
    /\ request = [j \in Jobs |-> [env |-> NoVars, job |-> NoVars]]

Top(j) == Last(stack[j])
At(j, type, pc) ==
    stack[j] # <<>> /\ Top(j).def.type = type /\ Top(j).pc = pc

Replace(j, frame) == stack' = [stack EXCEPT ![j] = Append(Front(@), frame)]
Goto(j, pc) == Replace(j, [Top(j) EXCEPT !.pc = pc])

\* Run returns r.  The environments that the call has added to heap h are no longer
\* in use.  (The files that the deferred Cleanup removes are not modelled.)
Returns(j, h, r) ==
    /\ stack' = [stack EXCEPT ![j] = Front(@)]
    /\ ret' = [ret EXCEPT ![j] = r]
    /\ SetHeap(j, SubSeq(h, 1, Top(j).base))

Return(j, r) == Returns(j, HeapOf(j), r)

\* The result that the builder of the step on top makes of the outputs.
Build(j, outputs) == Success(Top(j).name, outputs)

\* StepsContext.View: what an expression can lead to.
View(j) ==
    LET f == Top(j)
        Texts(strings) == Object([k \in DOMAIN strings |-> Text(strings[k])])
    IN  Object([env         |-> Texts(Values(HeapOf(j), f.env)),
                job         |-> Texts(request[j].job),
                inputs      |-> Object(f.inputs),
                steps       |-> Object([n \in DOMAIN f.results |->
                                    Object([outputs |-> Object(f.results[n])])]),
                step_dir    |-> Text(f.def.dir),
                work_dir    |-> Text(BuildDir),
                output_file |-> Text(<<"output_file">>),
                export_file |-> Text(<<"export_file">>)])

\* The texts that a map of values holds.
Strs(m) == [k \in DOMAIN m |-> m[k].val]

-------------------------------------------------------------------------------
(*****************************************************************************)
(* A job begins and may be cancelled                                         *)
(*****************************************************************************)

\* The service compiles the document of a request, prepares the context of the
\* job and starts its goroutine.
Begin(j) ==
    /\ globalEnv[j] = 0
    /\ \E variables \in JobVars, re \in RequestEnvs[j], root \in Roots[j] :
          LET def == Compile(root, BuildDir)
              jv == Prepare(variables)
              g == GlobalEnvironment(HeapOf(j), 1, jv)
              s == AddLexicalScope(g.heap, g.env, re)
          IN  /\ ~IsError(def) /\ AcceptsInputs(def.val.spec, Empty)
              /\ Level(HeapOf(j), 1, jv) \in Levels
              /\ SetHeap(j, s.heap)
              /\ globalEnv' = [globalEnv EXCEPT ![j] = s.env]
              /\ request' = [request EXCEPT ![j] = [env |-> re, job |-> jv]]
              /\ stack' = [stack EXCEPT ![j] =
                    <<NewFrame(s.heap, Len(s.heap), def.val, "", NoVars,
                               NewInputsWithDefault(def.val.spec, Empty), s.env)>>]
    /\ UNCHANGED <<ret, cancelled, exported>>

Cancel(j) ==
    /\ stack[j] # <<>> /\ ~cancelled[j]
    /\ cancelled' = [cancelled EXCEPT ![j] = TRUE]
    /\ UNCHANGED <<heapVars, globalEnv, request, stack, ret, exported>>

-------------------------------------------------------------------------------
(*****************************************************************************)
(* ExecutableStep.Run and SequenceOfSteps.Run                                *)
(*****************************************************************************)

\* Both begin with ExpandAndApplyEnv, an executable step after a line in the log.
Enter(j) ==
    /\ stack[j] # <<>> /\ Top(j).pc = "enter"
    /\ \E env \in {ExpandStrings(View(j), Top(j).def.env)} :
       LET s == AddLexicalScope(HeapOf(j), Top(j).env, Strs(env.val)) IN
       \/ /\ ~IsError(env)
          /\ SetHeap(j, s.heap)
          /\ Replace(j, [Top(j) EXCEPT !.env = s.env, !.pc = "run",
                                       !.vars = Append(@, Strs(env.val))])
          /\ UNCHANGED ret
       \/ IsError(env) /\ Return(j, Failure("invalid"))
       \/ Top(j).def.type = "exec" /\ Return(j, NoStep("other"))
    /\ UNCHANGED <<jobVars, exported>>

\* Mutant of StartCommand: exec.Command instead of exec.CommandContext.
StartCommand_IgnoresContext(j) ==
    /\ At(j, "exec", "run")
    /\ \E args \in {ExpandStrings(View(j), Top(j).def.command)},
          workDir \in {ExpandString(View(j), Top(j).def.workDir)} :
       LET valid == ~IsError(args) /\ ~IsError(workDir) IN
       \/ /\ valid
          /\ Replace(j, [Top(j) EXCEPT !.pc = "command", !.args = Strs(args.val)])
          /\ UNCHANGED <<heapVars, ret>>
       \/ ~valid /\ Return(j, Failure("invalid"))
       \/ valid /\ Return(j, Failure("other"))
    /\ UNCHANGED <<jobVars, exported>>

\* The command is started unless its arguments or directory cannot be expanded,
\* it cannot be executed, or the context is cancelled.
StartCommand(j) ==
    /\ At(j, "exec", "run")
    /\ \E args \in {ExpandStrings(View(j), Top(j).def.command)},
          workDir \in {ExpandString(View(j), Top(j).def.workDir)} :
       LET valid == ~IsError(args) /\ ~IsError(workDir) IN
       \/ /\ valid /\ ~cancelled[j]
          /\ Replace(j, [Top(j) EXCEPT !.pc = "command", !.args = Strs(args.val)])
          /\ UNCHANGED <<heapVars, ret>>
       \/ ~valid /\ Return(j, Failure("invalid"))
       \/ valid /\ cancelled[j] /\ Return(j, Failure("context"))
       \/ valid /\ Return(j, Failure("other"))
    /\ UNCHANGED <<jobVars, exported>>

\* The command ends by itself, or somebody kills it.
EndCommand(j) ==
    /\ At(j, "exec", "command")
    /\ \/ Goto(j, "read") /\ UNCHANGED <<heapVars, ret>>
       \/ \E e \in {"other", "killed"} : Return(j, Failure(e))
    /\ UNCHANGED <<jobVars, exported>>

\* exec.CommandContext kills the command of a cancelled job.  Run still waits for
\* its pipes, which the processes that it has left behind may hold open for ever.
KillCommand(j) ==
    /\ At(j, "exec", "command") /\ cancelled[j]
    /\ \E e \in {"context", "killed"} : Return(j, Failure(e))
    /\ UNCHANGED <<jobVars, exported>>

\* What the step makes of its output file.
ReadOutputs(j, file) ==
    IF Top(j).def.spec.method = "delegate" THEN ReadStepResult(file)
    ELSE ReadValues(file, Top(j).def.spec.outputs)

\* Mutant of ReadFiles: the exports change the environment of the step.
ReadFiles_Local(j) ==
    /\ At(j, "exec", "read")
    /\ \E out \in OutputFiles(Top(j).args), x \in Exports[j] :
          \E outputs \in {ReadOutputs(j, out)}, env \in {ReadEnvironment(x)} :
              \/ /\ ~IsError(outputs) /\ ~IsError(env)
                 /\ exported' = [exported EXCEPT ![j] = Merge(@, env.val)]
                 /\ Returns(j, Mutate(HeapOf(j), Top(j).env, env.val),
                            Build(j, outputs.val))
              \/ Return(j, Failure("other")) /\ UNCHANGED exported
    /\ UNCHANGED jobVars

\* The outputs and then the exports are read, and the exports become part of the
\* environment of the job; either file may be malformed, or fail to be read.
ReadFiles(j) ==
    /\ At(j, "exec", "read")
    /\ \E out \in OutputFiles(Top(j).args), x \in Exports[j] :
          \E outputs \in {ReadOutputs(j, out)}, env \in {ReadEnvironment(x)} :
              \/ /\ ~IsError(outputs) /\ ~IsError(env)
                 /\ exported' = [exported EXCEPT ![j] = Merge(@, env.val)]
                 /\ Returns(j, Mutate(HeapOf(j), globalEnv[j], env.val),
                            Build(j, outputs.val))
              \/ Return(j, Failure("other")) /\ UNCHANGED exported
    /\ UNCHANGED jobVars

-------------------------------------------------------------------------------
(*****************************************************************************)
(* LazilyLoadedStep.Run, within SequenceOfSteps.Run                          *)
(*****************************************************************************)

Refs(j) == Top(j).def.steps
NextRef(j) == Refs(j)[Len(Top(j).subs) + 1]

\* loadStep: the definition is fetched, the inputs and the environment of the
\* reference are expanded, and the definition must accept the inputs.
Load(j) ==
    LET ref == NextRef(j)
        inputs == Collect("object",
                    [k \in DOMAIN ref.inputs |-> Expand(View(j), ref.inputs[k])])
    IN  Then(Fetch(View(j), Top(j).def.dir, ref.step), LAMBDA def :
        Then(inputs, LAMBDA in :
        Then(ExpandStrings(View(j), ref.env), LAMBDA env :
            IF ~AcceptsInputs(def.spec, in) THEN Error
            ELSE Value("step", [def |-> def, vars |-> Strs(env),
                                inputs |-> NewInputsWithDefault(def.spec, in)]))))

\* The environment of a step whose reference sets set: the variables its parent
\* sees, and set over them, in a scope of their own.
StepEnv(h, e, set) ==
    LET own == AddLexicalScope(h, e, set)
    IN  AddLexicalScope(h, e, Values(own.heap, own.env))

\* The step is loaded and called ...
LoadStep(j) ==
    /\ At(j, "steps", "run") /\ Len(Top(j).subs) < Len(Refs(j))
    /\ \E step \in {Load(j)} \ {Error}, h \in {HeapOf(j)} :
       LET s == StepEnv(h, Top(j).env, step.val.vars)
       IN  /\ SetHeap(j, s.heap)
           /\ stack' = [stack EXCEPT ![j] = Front(@) \o
                 << [Top(j) EXCEPT !.pc = "call"],
                    NewFrame(s.heap, Len(h), step.val.def, NextRef(j).name,
                             step.val.vars, step.val.inputs, s.env) >>]
    /\ UNCHANGED <<jobVars, ret, exported>>

\* ... unless it cannot be fetched, parsed or given its inputs, or one of its two
\* files cannot be created.  A fetch that times out in the network ends with an
\* error of the context too, whether the job is cancelled or not.
LoadStepFails(j) ==
    /\ At(j, "steps", "run") /\ Len(Top(j).subs) < Len(Refs(j))
    /\ Goto(j, "call")
    /\ \E e \in {"other", "context"} \cup (IF IsError(Load(j)) THEN {"invalid"} ELSE {}) :
          ret' = [ret EXCEPT ![j] = NoStep(e)]
    /\ UNCHANGED <<heapVars, jobVars, exported>>

\* The outputs of a step are known by its name, those of the last step with it.
RecordResult(j) ==
    Replace(j, [Top(j) EXCEPT !.pc = "run", !.subs = Append(@, ret[j].status),
                              !.results = (ret[j].name :> ret[j].outputs) @@ @])

\* Mutants of StepReturned: the error of a step is not looked at; the result of
\* the step is returned as the one of the sequence.
StepReturned_GoesOn(j) ==
    /\ At(j, "steps", "call")
    /\ RecordResult(j)
    /\ UNCHANGED <<heapVars, jobVars, ret, exported>>

StepReturned_AsIs(j) ==
    /\ At(j, "steps", "call")
    /\ \/ /\ ret[j].err = "nil"
          /\ RecordResult(j)
          /\ UNCHANGED <<heapVars, ret>>
       \/ /\ ret[j].err # "nil"
          /\ Return(j, ret[j])
    /\ UNCHANGED <<jobVars, exported>>

\* The result of the step is recorded; its error ends the sequence.
StepReturned(j) ==
    /\ At(j, "steps", "call")
    /\ \/ /\ ret[j].err = "nil"
          /\ RecordResult(j)
          /\ UNCHANGED <<heapVars, ret>>
       \/ /\ ret[j].err # "nil"
          /\ Return(j, Failure(ret[j].err))
    /\ UNCHANGED <<jobVars, exported>>

\* The outputs of a sequence: those of the step it delegates to, or its own
\* expressions.
SequenceOutputs(j) ==
    LET f == Top(j) IN
    IF f.def.spec.method # "delegate"
    THEN Collect("object",
            [k \in DOMAIN f.def.outputs |-> Expand(View(j), f.def.outputs[k])])
    ELSE IF f.def.delegate \in DOMAIN f.results
    THEN Object(f.results[f.def.delegate])
    ELSE Error

SequenceEnd(j) ==
    /\ At(j, "steps", "run") /\ Len(Top(j).subs) = Len(Refs(j))
    /\ \E outputs \in {SequenceOutputs(j)} :
       IF IsError(outputs) THEN Return(j, Failure("invalid"))
       ELSE Return(j, Build(j, outputs.val))
    /\ UNCHANGED <<jobVars, exported>>

-------------------------------------------------------------------------------
\* What a job does by itself.
JobStep(j) ==
    \/ Enter(j) \/ StartCommand(j) \/ ReadFiles(j)
    \/ LoadStep(j) \/ LoadStepFails(j) \/ StepReturned(j) \/ SequenceEnd(j)

Next ==
    \E j \in Jobs : Begin(j) \/ Cancel(j) \/ EndCommand(j) \/ KillCommand(j) \/ JobStep(j)

RunsCommand(j) == At(j, "exec", "command")

\* The next step comes from a remote repository or registry.
Fetches(j) ==
    /\ At(j, "steps", "run") /\ Len(Top(j).subs) < Len(Refs(j))
    /\ NextRef(j).step.protocol \in {"git", "dynamic"}

\* A job can take a step, unless it waits for its command or for the network.
Ready(j) == stack[j] # <<>> /\ ~RunsCommand(j) /\ ~Fetches(j)

\* The goroutine of a job is scheduled.  Neither that a command ends, be it killed,
\* nor that a fetch ends is assumed.  This is WF_vars(JobStep(j)) without the
\* fetches, in which Ready(j) takes the place of ENABLED, which is slow to evaluate.
Fairness == \A j \in Jobs : []<>(~Ready(j)) \/ []<><<JobStep(j)>>_vars

Spec == Init /\ [][Next]_vars
FairSpec == Spec /\ Fairness

-------------------------------------------------------------------------------
(*****************************************************************************)
(* Properties                                                                *)
(*****************************************************************************)

CommandEnv(j) == Values(HeapOf(j), Top(j).env)
Sees(j, n, v) == n \in DOMAIN CommandEnv(j) /\ CommandEnv(j)[n] = v

\* The values that the definitions and references on the stack set for n.
SetOnStack(j, n) ==
    UNION { {v[n] : v \in {w \in ToSet(f.vars) : n \in DOMAIN w}}
            : f \in ToSet(stack[j]) }

\* What commands of job j may export.
Exportable(j) == { env.val : env \in {ReadEnvironment(x) : x \in Exports[j]} \ {Error} }

\* A command sees no variable from elsewhere: not what another job exported or
\* set, and not what a step that has ended set in its env.
EnvHasASource ==
    \A j \in Jobs : RunsCommand(j) => \A n \in DOMAIN CommandEnv(j) \ {LogLevel} :
        \/ CommandEnv(j)[n] \in SetOnStack(j, n)
        \/ \E v \in {ProcessVars, request[j].env} \cup Exportable(j) :
              n \in DOMAIN v /\ v[n] = CommandEnv(j)[n]

\* A command sees the last value that the job has exported for a variable, unless
\* a step on the stack sets it, or a sequence within the job already knew it
\* when it began.
LaterStepsSeeExports ==
    \A j \in Jobs : RunsCommand(j) => \A n \in DOMAIN exported[j] :
        \/ SetOnStack(j, n) # {}
        \/ \E i \in 2..Len(stack[j]) - 1 : n \in stack[j][i].known
        \/ Sees(j, n, exported[j][n])

\* A sequence succeeds only if all its steps ran and succeeded.
SequencesAreAllOrNothing ==
    [][\A j \in Jobs :
         /\ Len(stack'[j]) < Len(stack[j])
         /\ Top(j).def.type = "steps"
         /\ ret'[j].status = "success"
         => Top(j).subs = [i \in 1..Len(Refs(j)) |-> "success"]]_vars

\* What Job.onRunCompletion tells apart in a result and its error.
Seen(r) == [status |-> r.status, err |-> IF r.err = "invalid" THEN "other" ELSE r.err]

\* The job gets a result, although a step that cannot be loaded has none; the
\* exception is a job whose root is a command that could not write its first line
\* in the log.  (Job.onRunCompletion then dereferences a nil result.)
JobsGetAResult ==
    [][\A j \in Jobs :
         stack[j] # <<>> /\ stack'[j] = <<>> =>
            /\ Seen(ret'[j]) \in StepResults
            /\ Seen(ret'[j]) = NoResult => /\ stack[j][1].def.type = "exec"
                                          /\ stack[j][1].pc = "enter"]_vars

\* Once a job is cancelled, and the command it may have been running is gone, it
\* starts no other command and ends, unless a fetch hangs.
CancelledJobsEnd ==
    \A j \in Jobs : cancelled[j] /\ ~RunsCommand(j) ~> stack[j] = <<>> \/ []Fetches(j)

\* Documents whose expressions only use what is in scope (declared inputs, outputs
\* that earlier steps declare) run until something else fails: "Valid locations for
\* expressions" are input values, env values, command arguments, outputs (HOWTO.md).
ScopedExpressionsResolve == \A j \in Jobs : ret[j].err # "invalid"
===============================================================================
