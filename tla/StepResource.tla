------------------------------ MODULE StepResource ------------------------------
(*****************************************************************************)
(* From a reference in a sequence to the definition of the step: the         *)
(* resources of pkg/runner and the checks of its Parser.                     *)
(*                                                                           *)
(* What the fetchers of git and dist have put on disk is part of Files;      *)
(* modules GitCache and DistCache model how it gets there.                   *)
(*****************************************************************************)
EXTENDS Schema

CONSTANTS
    Files,      \* Files[<<dir, filename>>]: the documents that can be read
    MaxHops     \* bound: dynamic references in a row; the code follows any number

\* filepath.Join, which also cleans the path.
Join(dir, path) ==
    FoldLeft(LAMBDA p, part :
                CASE part = "." -> p
                  [] part = ".." /\ p # <<>> /\ Last(p) \notin {"/", ".."} -> Front(p)
                  [] OTHER -> Append(p, part),
             dir, path)

\* A path that is absolute once expanded is taken as it is.
StepDir(dir, path) == IF path # <<>> /\ Head(path) = "/" THEN path ELSE Join(dir, path)

LoadSteps(dir, filename) ==
    IF <<dir, filename>> \in DOMAIN Files THEN Compile(Files[<<dir, filename>>], dir)
    ELSE Error

FetchFromFile(view, dir, path, filename) ==
    Then(ExpandString(view, path), LAMBDA p : LoadSteps(StepDir(dir, p), filename))

\* The url is expanded, the path within the repository is not: it is read
\* without a view.
FetchFromGit(view, ref) ==
    Then(ExpandString(view, ref.url), LAMBDA url :
        FetchFromFile(Nil, <<"/", "git">> \o url \o <<ref.version>>,
                      ref.path, ref.filename))

FetchFromDist(ref) == FetchFromFile(Nil, <<"/", "dist">>, ref.path, ref.filename)

\* The reference that a dynamic reference leads to, which may be dynamic again.
Resolve(view, ref) ==
    IF ref.kind = "reference" /\ ref.val.protocol = "dynamic"
    THEN Then(ExpandString(view, ref.val.url), CompileShortRef)
    ELSE ref

\* Fetch of the resource that the parser makes of a reference in directory dir.
FetchFrom(view, dir, ref) ==
    CASE ref.protocol = "local"    -> FetchFromFile(view, dir, ref.path, ref.filename)
      [] ref.protocol = "git"      -> FetchFromGit(view, ref)
      [] ref.protocol = "dist"     -> FetchFromDist(ref)
      [] ref.protocol = "spec_def" -> ref.specDef
      [] OTHER -> Error

\* A dynamic reference leads to another one, for which it forgets the directory.
\* One that is still dynamic after MaxHops of them is an error of the model only.
Fetch(view, dir, ref) ==
    Then(FoldLeft(LAMBDA r, i : Resolve(view, r), Value("reference", ref),
                  [i \in 1..MaxHops |-> i]),
         LAMBDA r : FetchFrom(view, IF ref.protocol = "dynamic" THEN <<>> ELSE dir, r))

-------------------------------------------------------------------------------
\* buildInputVars and validateInputs: no input that the spec does not know, and
\* every one that has no default.
AcceptsInputs(spec, inputs) ==
    /\ DOMAIN inputs \subseteq DOMAIN spec.inputs
    /\ \A k \in DOMAIN spec.inputs : k \in DOMAIN inputs \/ ~IsNil(spec.inputs[k].default)

\* Mutant of NewInputsWithDefault: without the defaults.
NewInputsWithDefault_Given(spec, inputs) == inputs

\* Defaults are taken as they are.
NewInputsWithDefault(spec, inputs) ==
    [k \in DOMAIN spec.inputs |->
        IF k \in DOMAIN inputs THEN inputs[k] ELSE spec.inputs[k].default]
===============================================================================
