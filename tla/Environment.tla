------------------------------ MODULE Environment ------------------------------
(*****************************************************************************)
(* Environments (pkg/runner/environment.go, global_env.go).  They are        *)
(* objects that point to a parent and that can be mutated, so they live in a *)
(* heap: a sequence of objects, in which an environment is an index.  A      *)
(* parent is older than its children.  Index 0 stands for the nil pointer.   *)
(*                                                                           *)
(* What variables hold are strings as in module Expression.                  *)
(*****************************************************************************)
EXTENDS Naturals, SequencesExt

CONSTANTS
    Names,      \* names of variables
    Strings,    \* their values
    LogLevel,   \* the variable CI_STEPS_LOG_LEVEL
    Levels      \* the values of LogLevel that are supported

ASSUME EnvironmentAssumption ==
    /\ LogLevel \in Names
    /\ Levels \subseteq Strings
    /\ <<"info">> \in Levels

\* Maps from names to values.
Vars == UNION { [D -> Strings] : D \in SUBSET Names }
NoVars == [n \in {} |-> <<>>]

Objects == [vars : Vars, parent : Nat, mutations : Seq(Vars)]

\* maps.Copy: b is copied over a.
Merge(a, b) ==
    [n \in DOMAIN a \cup DOMAIN b |-> IF n \in DOMAIN b THEN b[n] ELSE a[n]]

\* The maps of a sequence are copied over a, one after the other: the last one that
\* has a name gives its value.
MergeAll(a, s) ==
    LET Having(n) == { i \in DOMAIN s : n \in DOMAIN s[i] }
    IN  [n \in DOMAIN a \cup UNION { DOMAIN s[i] : i \in DOMAIN s } |->
            IF Having(n) = {} THEN a[n] ELSE s[Max(Having(n))][n]]

NewEnvironment(vars) == [vars |-> vars, parent |-> 0, mutations |-> <<>>]

\* AddLexicalScope returns the environment itself when there is nothing to add.
\* The result is the heap and the environment in it.
AddLexicalScope(h, e, vars) ==
    IF vars = NoVars
    THEN [heap |-> h, env |-> e]
    ELSE [heap |-> Append(h, [NewEnvironment(vars) EXCEPT !.parent = e]),
          env  |-> Len(h) + 1]

\* The variables of the parent, those of the scope over them, and the mutations
\* over both, the last one on top.
Values(h, e) ==
    LET V[i \in 0..e] ==
          IF i = 0 THEN NoVars
          ELSE MergeAll(Merge(V[h[i].parent], h[i].vars), h[i].mutations)
    IN  V[e]

Mutate(h, e, vars) ==
    IF vars = NoVars THEN h
    ELSE [h EXCEPT ![e].mutations = Append(@, vars)]

\* The log level: the one of the job, else the one of the process, else "info".
Level(h, parent, jobVars) ==
    LET Of(vars) == IF LogLevel \in DOMAIN vars THEN vars[LogLevel] ELSE <<>>
        level == IF Of(jobVars) # <<>> THEN Of(jobVars) ELSE Of(Values(h, parent))
    IN  IF level = <<>> THEN <<"info">> ELSE level

\* Mutant of GlobalEnvironment: a scope only for a job that sets the level.
GlobalEnvironment_IfSet(h, parent, jobVars) ==
    AddLexicalScope(h, parent,
        [n \in {LogLevel} \cap DOMAIN jobVars |-> jobVars[n]])

\* The environment of a job, in a scope of its own over the one of the process.
GlobalEnvironment(h, parent, jobVars) ==
    AddLexicalScope(h, parent, [n \in {LogLevel} |-> Level(h, parent, jobVars)])
===============================================================================
