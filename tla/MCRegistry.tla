------------------------------- MODULE MCRegistry -------------------------------
(*****************************************************************************)
(* Two builds, two promotions and a fetch.  Builds write to a private        *)
(* repository, promotions from there to a public one that has version 1.1.1. *)
(*****************************************************************************)
EXTENDS Registry, TLC

MCRank(p, q) == IF p = q THEN 1 ELSE 0

\* "lib" is a directory; "tool" is shorter than the file that it goes on top of, and
\* so is a file of "lib".  Not every step can be written: a file lies below another.
MCSources ==
    [common |-> <<[path |-> <<>>, content |-> <<"c", "c">>]>>,
     lib |-> <<[path |-> <<"a">>, content |-> <<"l">>]>>,
     tool |-> <<[path |-> <<>>, content |-> <<"t">>]>>]

dev == [registry |-> "reg", name |-> "dev"]
prod == [registry |-> "reg", name |-> "prod"]
Ref(repo, num, rel) == [repo |-> repo, tag |-> [num |-> num, rel |-> rel]]
New == Ref(dev, <<>>, "new")

MCBuildInputs ==
    { [ref |-> New, common |-> <<<<"common", <<"run">>>>, <<"common", <<"lib", "a">>>>>>,
       platforms |-> <<[platform |-> "linux/amd64", files |-> <<<<"lib", <<"lib">>>>, <<"tool", <<"run">>>>>>],
                       [platform |-> "linux/arm64", files |-> <<<<"lib", <<"lib">>>>, <<"tool", <<"run", "b">>>>>>],
                       [platform |-> "linux/s390x", files |-> <<>>]>>],
      [ref |-> New, common |-> <<<<"missing", <<"run">>>>>>,
       platforms |-> <<[platform |-> "linux/amd64", files |-> <<<<"tool", <<"run">>>>>>]>>],
      [ref |-> New, common |-> <<>>, platforms |-> <<>>] }

MCPromoteInputs ==
    { [from |-> New, to |-> Ref(prod, num, "")] : num \in {<<1, 1, 0>>, <<1, 2, 0>>, <<2, 0, 0>>, <<1, 2>>} }
    \cup { [from |-> New, to |-> Ref(prod, <<2, 0, 0>>, "-rc")] }

MCFetchInputs ==
    { [ref |-> Ref(prod, <<>>, "latest"), platform |-> "linux/amd64", root |-> r] :
        r \in BOOLEAN }
    \cup { [ref |-> Ref(prod, <<>>, "latest"), platform |-> "linux/arm64", root |-> TRUE] }

Old == [kind |-> "index", by |-> "before", version |-> <<1, 1, 1>>,
        manifests |-> <<[platform |-> "generic", layers |-> <<>>]>>]
MCPublished ==
    [ref \in { Ref(prod, <<1, 1, 1>>, ""), Ref(prod, <<1, 1>>, ""), Ref(prod, <<1>>, ""),
               Ref(prod, <<>>, "latest") } |-> Old]

Symmetry == Permutations(Builds) \cup Permutations(Promotions)
MCPrivate == {dev}
MCDockerAuth == [config |-> "set", repos |-> {dev}, registries |-> {"reg"}]
===============================================================================
