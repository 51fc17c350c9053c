-------------------------------- MODULE StepFile --------------------------------
(*****************************************************************************)
(* The files in which a command leaves its outputs and exports               *)
(* (pkg/runner/step_file.go).  A file is a sequence of lines, each a record  *)
(* of                                                                        *)
(*   kind   "kv": a JSON object with a name and a value,                     *)
(*          "blank": an empty line,                                          *)
(*          "long": a line that exceeds the buffer of the scanner,           *)
(*          "result": a step result as JSON,                                 *)
(*          "bad": anything else, such as a line without name or value,      *)
(*   name, value   of a "kv", and the outputs of a "result".                 *)
(*****************************************************************************)
EXTENDS Expression

\* The last line of a name counts.  A line that is too long ends the scan, and
\* nobody asks the scanner why.
ReadKeyValueLines(file) ==
    LET Read(acc, line) ==
          CASE acc.ended \/ line.kind = "blank" -> acc
            [] line.kind = "kv" ->
                  [acc EXCEPT !.kv = Object((line.name :> line.value) @@ acc.kv.val)]
            [] line.kind = "long" -> [acc EXCEPT !.ended = TRUE]
            [] OTHER -> [kv |-> Error, ended |-> TRUE]
    IN  FoldLeft(Read, [kv |-> Object(Empty), ended |-> FALSE], file).kv

\* Exports must be scalars, which become strings.
ReadEnvironment(file) ==
    LET kv == ReadKeyValueLines(file)
    IN  IF \/ IsError(kv)
           \/ \E k \in DOMAIN kv.val :
                 kv.val[k].kind \notin {"boolean", "number", "string"}
        THEN Error
        ELSE Object([k \in DOMAIN kv.val |-> kv.val[k].val])

\* Mutant of ReadValues: the types are not compared.
ReadValues_AnyType(file, specOutputs) ==
    LET kv == ReadKeyValueLines(file)
        given == DOMAIN kv.val
    IN  IF \/ IsError(kv) \/ ~(given \subseteq DOMAIN specOutputs)
           \/ \E k \in DOMAIN specOutputs \ given : IsNil(specOutputs[k].default)
        THEN Error
        ELSE Object([k \in DOMAIN specOutputs |->
                        IF k \in given THEN kv.val[k] ELSE specOutputs[k].default])

\* Outputs must be declared and have the declared type; those that are missing
\* take their default.
ReadValues(file, specOutputs) ==
    LET kv == ReadKeyValueLines(file)
        given == DOMAIN kv.val
    IN  IF \/ IsError(kv)
           \/ \E k \in given : \/ k \notin DOMAIN specOutputs
                               \/ specOutputs[k].type # kv.val[k].kind
           \/ \E k \in DOMAIN specOutputs \ given : IsNil(specOutputs[k].default)
        THEN Error
        ELSE Object([k \in DOMAIN specOutputs |->
                        IF k \in given THEN kv.val[k] ELSE specOutputs[k].default])

\* The file as a whole is the result of a step.
ReadStepResult(file) ==
    IF Len(file) = 1 /\ file[1].kind = "result" THEN file[1].value ELSE Error
===============================================================================
