--------------------------------- MODULE Schema ---------------------------------
(*****************************************************************************)
(* From the YAML of steps to the definitions that are executed (schema/v1).  *)
(*                                                                           *)
(* A document of YAML is a record with the keys that it gives: a spec with   *)
(* inputs and outputs, and a step with exec or run, env, outputs, delegate;  *)
(* an entry of run with name, step, script, action, inputs, env.  A compiled *)
(* definition or step has all its fields.                                    *)
(*                                                                           *)
(* A path, and a short reference, is a sequence of the parts between its     *)
(* slashes; "/" stands first in an absolute one.                             *)
(*****************************************************************************)
EXTENDS Expression

CONSTANT YmlFiles   \* the parts of paths that end in ".yml"

Get(doc, key, default) == IF key \in DOMAIN doc THEN doc[key] ELSE default

\* What a map of values with kinds holds, or an error.
Gather(kind, f) ==
    IF \E k \in DOMAIN f : IsError(f[k]) THEN Error
    ELSE Value(kind, [k \in DOMAIN f |-> f[k].val])

-------------------------------------------------------------------------------
(*****************************************************************************)
(* Specs: inputs.go, outputs.go, signature.go, spec.go                       *)
(*****************************************************************************)

ValueTypes == {"string", "number", "boolean", "struct", "array"}

CompileInput(p) ==
    IF /\ "type" \in DOMAIN p /\ p.type \in ValueTypes
       /\ "default" \in DOMAIN p => p.default.kind = p.type
    THEN Value("param", [type |-> p.type, default |-> Get(p, "default", Nil)])
    ELSE Error

\* Outputs are compiled like inputs.
CompileOutput(p) == CompileInput(p)

CompileSpec(spec) ==
    LET outputs == Get(spec, "outputs", Nil)
        params  == IF outputs.kind = "object" THEN outputs.val ELSE Empty
        ins  == LET ps == Get(spec, "inputs", Empty)
                IN  Gather("object", [k \in DOMAIN ps |-> CompileInput(ps[k])])
        outs == Gather("object", [k \in DOMAIN params |-> CompileOutput(params[k])])
    IN  IF \/ outputs.kind = "string" /\ outputs.val # <<"delegate">>
           \/ outputs.kind \notin {"string", "object", "nil"}
        THEN Error
        ELSE Then(ins, LAMBDA i : Then(outs, LAMBDA o :
                Value("spec",
                    [inputs |-> i, outputs |-> o,
                     method |-> IF outputs.kind = "string" THEN "delegate" ELSE "outputs"])))

-------------------------------------------------------------------------------
(*****************************************************************************)
(* References: short_reference.go, reference.go                              *)
(*****************************************************************************)

StepReference(protocol, path, filename) ==
    [protocol |-> protocol, path |-> path, filename |-> filename,
     url |-> <<>>, version |-> "", specDef |-> Nil]

GitReference(url, version, path, filename) ==
    [StepReference("git", path, filename) EXCEPT !.url = url, !.version = version]

DefaultHTTPS(url) ==
    IF url # <<>> /\ Head(url) \in {"http://", "https://"} THEN url
    ELSE <<"https://">> \o url

\* A last part that ends in ".yml" is the file.
PathFilename(parts) ==
    IF parts # <<>> /\ Last(parts) \in YmlFiles
    THEN [path |-> Front(parts), filename |-> Last(parts)]
    ELSE [path |-> parts, filename |-> "step.yml"]

ContainsExpression(s) ==
    \E i, k \in DOMAIN s : i < k /\ s[i] = "${{" /\ s[k] = "}}"

\* url@rev, or url/-/path@rev; the path is one below the directory "steps".
CompileRemote(s) ==
    LET Ref(url, version, p) ==
          Value("reference", GitReference(DefaultHTTPS(url), version,
                                          <<"steps">> \o p.path, p.filename))
        Split(at, sep) ==
          LET version == IF at = Len(s) THEN "" ELSE s[at + 1] IN
          IF sep = 0 THEN Ref(SubSeq(s, 1, at - 1), version, PathFilename(<<>>))
          ELSE Ref(SubSeq(s, 1, sep - 1), version, PathFilename(SubSeq(s, sep + 1, at - 1)))
        Cut(at) ==
          IF at = 0 THEN Error
          ELSE Split(at, SelectInSeq(SubSeq(s, 1, at - 1), LAMBDA t : t = "/-/"))
    IN  Cut(SelectLastInSeq(s, LAMBDA t : t = "@"))

CompileShortRef(s) ==
    LET Ref(protocol, p) ==
          Value("reference", StepReference(protocol, p.path, p.filename))
    IN  CASE ContainsExpression(s) ->
                Value("reference", [StepReference("dynamic", <<>>, "") EXCEPT !.url = s])
          [] ~ContainsExpression(s) /\ s # <<>> /\ Head(s) \in {".", "/"} ->
                Ref("local", PathFilename(s))
          [] ~ContainsExpression(s) /\ s # <<>> /\ Head(s) = "dist://" ->
                Ref("dist", [path |-> Tail(s), filename |-> "step.yml"])
          [] OTHER -> CompileRemote(s)

\* A step in an OCI image is compiled to a sequence of two: one that fetches the
\* image, and the step itself, found in what the first has fetched.
CompileOCI(oci, name, inputs, env) ==
    LET fetch == "fetch_step_" \o name
        path  == <<"${{", "steps", ".", fetch, ".", "outputs", ".",
                   "fetched_step_path", "}}">>
        tag   == Get(oci, "tag", <<>>)
        Literal(key, default) == Text(Get(oci, key, default))
    IN  [StepReference("spec_def", <<>>, "") EXCEPT !.specDef = Value("def",
          [type |-> "steps", env |-> Empty, outputs |-> Empty, delegate |-> name,
           command |-> <<>>, workDir |-> <<>>, dir |-> <<>>,
           spec |-> [inputs |-> Empty, outputs |-> Empty, method |-> "delegate"],
           steps |->
             << [name |-> fetch, env |-> env,
                 step |-> StepReference("dist", <<"step", "oci", "fetch">>, "step.yml"),
                 inputs |-> [registry   |-> Literal("registry", <<>>),
                             repository |-> Literal("repository", <<>>),
                             tag        |-> IF tag = <<>> THEN Text(<<"latest">>) ELSE Text(tag),
                             step_path  |-> Literal("dir", <<>>)]],
                [name |-> name, env |-> env, inputs |-> inputs,
                 step |-> StepReference("local", path, Get(oci, "file", "step.yml"))]
             >>])]

\* step: with the keys git or oci, of which there must be one.
CompileReference(ref, name, inputs, env) ==
    CASE DOMAIN ref = {"git"} /\ {"url", "rev"} \subseteq DOMAIN ref.git ->
            Value("reference",
                GitReference(DefaultHTTPS(ref.git.url), ref.git.rev,
                             Get(ref.git, "dir", <<>>), Get(ref.git, "file", "step.yml")))
      [] DOMAIN ref = {"oci"}
            /\ {"registry", "repository", "tag"} \subseteq DOMAIN ref.oci ->
            Value("reference", CompileOCI(ref.oci, name, inputs, env))
      [] OTHER -> Error

-------------------------------------------------------------------------------
(*****************************************************************************)
(* Steps: step.go                                                            *)
(*****************************************************************************)

\* An entry of run, with its reference.  A reference that carries its definition
\* takes no inputs: they are within the definition.
ProtoStep(s, inputs, ref) ==
    Then(ref, LAMBDA r :
        Value("step", [name |-> Get(s, "name", ""), env |-> Get(s, "env", Empty), step |-> r,
                       inputs |-> IF r.protocol = "spec_def" THEN Empty ELSE inputs]))

\* The keywords script and action stand for steps that take them as inputs.
CompileStep(s) ==
    LET Has(key) == Get(s, key, <<>>) # <<>>
        step     == Get(s, "step", Nil)
        inputs   == Get(s, "inputs", Empty)
        runner   == [url |-> <<"https://", "gitlab.com", "components", "action-runner">>,
                     rev |-> "main"]
        Ref(in, r) == ProtoStep(s, in, r)
    IN  CASE Has("script") ->
                IF ~IsNil(step) \/ Has("action") \/ DOMAIN inputs # {} THEN Error
                ELSE Ref([script |-> Text(s.script)],
                         Value("reference", StepReference("dist", <<"script">>, "step.yml")))
          [] ~Has("script") /\ Has("action") ->
                IF ~IsNil(step) THEN Error
                ELSE Ref([action |-> Text(s.action), inputs |-> Value("struct", inputs)],
                         CompileReference([git |-> runner], "", Empty, Empty))
          [] ~Has("script") /\ ~Has("action") /\ step.kind = "string" ->
                Ref(inputs, CompileShortRef(step.val))
          [] ~Has("script") /\ ~Has("action") /\ step.kind = "object" ->
                Ref(inputs, CompileReference(step.val, Get(s, "name", ""), inputs,
                                             Get(s, "env", Empty)))
          [] OTHER -> Error

\* A definition has either exec or run.
CompileDefinition(s) ==
    LET run   == Get(s, "run", <<>>)
        exec  == Get(s, "exec", [command |-> <<>>])
        steps == Gather("steps", [i \in DOMAIN run |-> CompileStep(run[i])])
    IN  IF ("exec" \in DOMAIN s) = ("run" \in DOMAIN s) THEN Error
        ELSE Then(steps, LAMBDA compiled : Value("def",
                [type     |-> IF "exec" \in DOMAIN s THEN "exec" ELSE "steps",
                 command  |-> exec.command,
                 workDir  |-> Get(exec, "work_dir", <<>>),
                 steps    |-> compiled,
                 outputs  |-> IF "run" \in DOMAIN s THEN Get(s, "outputs", Empty)
                              ELSE Empty,
                 env      |-> Get(s, "env", Empty),
                 delegate |-> Get(s, "delegate", "")]))

\* The definition in a document that was read from directory dir.
Compile(doc, dir) ==
    Then(CompileSpec(doc.spec), LAMBDA spec :
        Then(CompileDefinition(doc.step), LAMBDA def :
            Value("def", def @@ [spec |-> spec, dir |-> dir])))
===============================================================================
