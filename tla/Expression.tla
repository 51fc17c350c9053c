------------------------------- MODULE Expression -------------------------------
(*****************************************************************************)
(* Values and the expressions in them (pkg/internal/expression,              *)
(* pkg/context).                                                             *)
(*                                                                           *)
(* A string is a sequence of tokens: the delimiters "${{" and "}}", the dot  *)
(* and, between these, any text.  White space around an expression, which    *)
(* Evaluate trims, is left out.  The values in a struct or an array are      *)
(* scalars: more levels would repeat what one level does.  Values and        *)
(* variables have a flag Sensitive, which is left out: Evaluate marks no     *)
(* value as sensitive, so Assign accepts every one.                          *)
(*****************************************************************************)
EXTENDS Naturals, SequencesExt

\* A value with its kind.  Strings, numbers and booleans hold their text, structs
\* and arrays hold values.  "object" is a map or a struct of Go, through which an
\* expression can lead; "nil" is a pointer to nothing.
Value(kind, val) == [kind |-> kind, val |-> val]

Text(tokens) == Value("string", tokens)
Object(fields) == Value("object", fields)
Nil == Value("nil", <<>>)
Error == Value("error", <<>>)
IsNil(v) == v.kind = "nil"
IsError(v) == v.kind = "error"
Empty == [k \in {} |-> Nil]

\* What comes of v unless it is an error.
Then(v, F(_)) == IF IsError(v) THEN Error ELSE F(v.val)

\* A collection is an error when one of its members is.
Collect(kind, f) ==
    IF \E k \in DOMAIN f : IsError(f[k]) THEN Error ELSE Value(kind, f)

-------------------------------------------------------------------------------
\* DigObject: one step from an object or a struct to what it has under a key.
DigObject(v, key) ==
    IF v.kind \in {"object", "struct"} /\ Len(key) = 1 /\ key[1] \in DOMAIN v.val
    THEN v.val[key[1]]
    ELSE Error

\* strings.Split at the dots.
Keys(tokens) ==
    FoldLeft(LAMBDA keys, t : IF t = "." THEN Append(keys, <<>>)
                              ELSE Append(Front(keys), Append(Last(keys), t)),
             << <<>> >>, tokens)

\* What the path leads to, provided that it is a value.
Evaluate(view, path) ==
    LET Leaf(v) == IF v.kind = "object" THEN Error ELSE v
    IN  Leaf(FoldLeft(DigObject, view, Keys(path)))

\* Strings as they are, everything else as JSON.
ValueToString(v) ==
    LET Quoted(w) == IF w.kind = "string" THEN <<"'">> \o w.val \o <<"'">> ELSE w.val
        Field(k)  == (IF v.kind = "struct" THEN <<"'", k, "'", ":">> ELSE <<>>)
                     \o Quoted(v.val[k])
        Fields(keys) == FlattenSeq([i \in DOMAIN keys |->
                            (IF i = 1 THEN <<>> ELSE <<",">>) \o Field(keys[i])])
    IN  CASE v.kind = "struct" -> <<"{">> \o Fields(SetToSeq(DOMAIN v.val)) \o <<"}">>
          [] v.kind = "array"  -> <<"[">> \o Fields([i \in DOMAIN v.val |-> i]) \o <<"]">>
          [] OTHER -> v.val

-------------------------------------------------------------------------------
(*****************************************************************************)
(* interpolateString: one pass over the string.  items are the texts between *)
(* expressions and the values of these; text is what has been read since the *)
(* last of them, inside an expression if depth > 0.                          *)
(*****************************************************************************)
Flush(s) ==
    IF s.text = <<>> THEN s
    ELSE [s EXCEPT !.items = Append(@, Text(s.text)), !.text = <<>>]

Scan(view, s, t) ==
    CASE t = "${{" /\ s.depth = 0 -> [Flush(s) EXCEPT !.depth = 1]
      [] t = "}}" /\ s.depth = 1 ->
            [s EXCEPT !.depth = 0, !.text = <<>>,
                      !.items = Append(@, Evaluate(view, s.text))]
      [] t = "}}" /\ s.depth = 0 -> [s EXCEPT !.items = Append(@, Error)]
      [] OTHER -> [s EXCEPT !.text = Append(@, t),
                            !.depth = @ + (IF t = "${{" THEN 1 ELSE 0)
                                        - (IF t = "}}" THEN 1 ELSE 0)]

\* A single item keeps its type, several are put together as a string.
InterpolateString(view, tokens) ==
    LET Scanned(s) == IF s.depth > 0 THEN Error ELSE Collect("items", Flush(s).items)
        Put(items) ==
          IF Len(items) = 1 THEN items[1]
          ELSE Text(FlattenSeq([i \in DOMAIN items |-> ValueToString(items[i])]))
    IN  Then(Scanned(FoldLeft(LAMBDA acc, t : Scan(view, acc, t),
                              [items |-> <<>>, text |-> <<>>, depth |-> 0], tokens)),
             Put)

ExpandScalar(view, v) ==
    IF v.kind = "string" THEN InterpolateString(view, v.val) ELSE v

\* Mutant of Expand: what an expression yields is expanded in turn.
Expand_Twice(view, v) == ExpandScalar(view, ExpandScalar(view, v))

Expand(view, v) ==
    IF v.kind \in {"struct", "array"}
    THEN Collect(v.kind, [k \in DOMAIN v.val |-> ExpandScalar(view, v.val[k])])
    ELSE ExpandScalar(view, v)

ExpandString(view, tokens) ==
    LET String(v) == IF IsError(v) THEN Error ELSE Text(ValueToString(v))
    IN  String(InterpolateString(view, tokens))

\* The strings of a map, all expanded, or an error.
ExpandStrings(view, strings) ==
    Collect("object", [k \in DOMAIN strings |-> ExpandString(view, strings[k])])
===============================================================================
