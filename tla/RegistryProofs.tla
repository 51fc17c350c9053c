----------------------------- MODULE RegistryProofs -----------------------------
(*****************************************************************************)
(* That a build does not replace a release, that a promotion does not take a *)
(* tag from a newer version, and that a fetch gets the files of one build,   *)
(* proved for any number of builds, promotions and fetches and for any       *)
(* inputs of them.                                                           *)
(*****************************************************************************)
EXTENDS Registry, InductionLemmas, TLAPS

\* Steps are promoted to other repositories than they are built for: a promotion does
\* not ask whether a tag is taken.
PromotionsGoElsewhere ==
    \A in \in BuildInputs, pr \in PromoteInputs : in.ref.repo # pr.to.repo

\* Each variable has a value for each run.
Domains ==
    /\ pc = [r \in Runs |-> pc[r]]
    /\ loc = [r \in Runs |-> loc[r]]
    /\ during = [r \in Builds \cup Promotions |-> during[r]]

\* What the runs have read from their inputs.
LocalsAreInputs ==
    /\ \A b \in Builds : pc[b] = "checked" =>
          loc[b].in \in BuildInputs /\ loc[b].head \in {"absent", "error"}
    /\ \A p \in Promotions : pc[p] \in {"read", "write"} =>
          /\ loc[p] = [x \in DOMAIN loc[p] |-> loc[p][x]]
          /\ "in" \in DOMAIN loc[p] /\ loc[p].in \in PromoteInputs

\* Builds that are under way know of each other.
BuildsMeet ==
    \A b, q \in Builds :
        b # q /\ pc[b] = "checked" /\ pc[q] = "checked" => q \in during[b]

\* A tag that a build has found free is free, or was taken while it is under way.
FreeTags ==
    \A b \in Builds :
        /\ pc[b] = "checked" /\ loc[b].head = "absent"
        /\ Allowed(loc[b].in.ref.repo, Resolve(loc[b].in.ref.repo))
        /\ loc[b].in.ref \in DOMAIN tags
        => tags[loc[b].in.ref].by \in during[b]

\* The inductive invariant.
RegistryInv == Domains /\ LocalsAreInputs /\ BuildsMeet /\ FreeTags

-------------------------------------------------------------------------------
\* A run is a build, a promotion or a fetch.
LEMMA RunFacts ==
    /\ Builds \subseteq Runs /\ Promotions \subseteq Runs /\ Fetches \subseteq Runs
    /\ \A b \in Builds : b \notin Promotions /\ b \notin Fetches
    /\ \A p \in Promotions : p \notin Fetches
  BY RegistryAssumption DEF Runs

\* A build asks for its tag.
LEMMA BuildStartInvariant ==
    ASSUME RegistryInv, NEW b \in Builds, BuildStart(b)
    PROVE  RegistryInv'
  <1>1. PICK in \in BuildInputs :
           \/ Go(b, "failed", NoLocal)
           \/ Go(b, "checked", [in |-> in, head |-> "error"])
           \/ /\ ~Names(in.ref, Resolve(in.ref.repo))
              /\ Go(b, "checked", [in |-> in, head |-> "absent"])
    BY DEF BuildStart, AlreadyPublished
  <1>2. /\ UNCHANGED tags /\ pc[b] = "start"
        /\ \A q \in Builds : q # b => pc'[q] = pc[q] /\ loc'[q] = loc[q]
        /\ \A p \in Promotions : pc'[p] = pc[p] /\ loc'[p] = loc[p]
    BY <1>1, RunFacts DEF BuildStart, Begin, Go, RegistryInv, Domains
  <1>3. Domains'
    BY <1>1, RunFacts DEF Go, BuildStart, Begin, RegistryInv, Domains
  <1>4. /\ \A q \in Builds : q # b /\ pc[q] = "checked" =>
              during'[q] = during[q] \cup {b} /\ q \in during'[b]
        /\ \A q \in Builds : during[q] \subseteq during'[q] \/ q = b
    BY DEF BuildStart, Begin, RegistryInv, Domains
  <1>5. /\ pc'[b] = "checked" => loc'[b].in = in /\ loc'[b].head \in {"absent", "error"}
        /\ pc'[b] = "checked" /\ loc'[b].head = "absent" => ~Names(in.ref, Resolve(in.ref.repo))
    BY <1>1, RunFacts DEF Go, RegistryInv, Domains
  <1>6. LocalsAreInputs'
    BY <1>2, <1>5 DEF RegistryInv, LocalsAreInputs
  <1>7. BuildsMeet'
    BY <1>2, <1>4 DEF RegistryInv, BuildsMeet
  <1>8. FreeTags'
    BY <1>2, <1>4, <1>5 DEF RegistryInv, FreeTags, Names
  <1>9. QED
    BY <1>3, <1>6, <1>7, <1>8 DEF RegistryInv

IsImage(image) == image = [x \in DOMAIN image |-> image[x]] /\ "version" \in DOMAIN image

\* What a write does to the registry.
Written(ref, image) ==
    /\ DOMAIN tags' = DOMAIN tags \cup {ref}
    /\ tags'[ref] = image
    /\ \A other \in DOMAIN tags \ {ref} : tags'[other] = tags[other]

\* A write that succeeds is in the registry, one that fails may be.
LEMMA WriteFacts ==
    ASSUME NEW r, NEW ref, NEW image, NEW to, NEW local,
           Write(r, ref, image, to, local)
    PROVE  /\ \/ UNCHANGED tags
              \/ Allowed(ref.repo, Resolve(ref.repo)) /\ Written(ref, image)
           /\ \/ Go(r, to, local) /\ Written(ref, image)
              \/ Go(r, "failed", loc[r])
  BY DEF Write, Written

\* Only the run that moves changes its place and its variables.
LEMMA GoFacts ==
    ASSUME Domains, NEW r \in Runs, NEW to, NEW local, Go(r, to, local)
    PROVE  /\ pc' = [q \in Runs |-> pc'[q]] /\ loc' = [q \in Runs |-> loc'[q]]
           /\ pc'[r] = to /\ loc'[r] = local
           /\ \A q \in Runs : q # r => pc'[q] = pc[q] /\ loc'[q] = loc[q]
  BY DEF Domains, Go

\* A build pushes its index, under the tag that it asked for.
Released(b, ref) ==
    /\ pc[b] = "checked" /\ pc'[b] \in {"done", "failed"}
    /\ Domains'
    /\ \A q \in Runs : q # b => pc'[q] = pc[q] /\ loc'[q] = loc[q]
    /\ UNCHANGED during
    /\ \/ UNCHANGED tags
       \/ /\ Allowed(ref.repo, Resolve(ref.repo))
          /\ \E image : Written(ref, image) /\ image.by = b
                                            /\ IsImage(image) /\ image.version = <<>>

\* What the push of a build does.
LEMMA ReleaseFacts ==
    ASSUME Domains, NEW b \in Builds, Release(b)
    PROVE  Released(b, loc[b].in.ref)
  <1> DEFINE ref == loc[b].in.ref
             common == ParseCommon(loc[b].in.common)
             platformSpecific == ParsePlatforms(loc[b].in.platforms)
             image == [kind |-> "index", by |-> b, version |-> <<>>,
                       manifests |-> BuildImageIndex(common, platformSpecific)]
  <1>1. /\ pc[b] = "checked" /\ UNCHANGED during
        /\ \/ Go(b, "failed", loc[b]) /\ UNCHANGED tags
           \/ Write(b, ref, image, "done", loc[b])
    BY Zenon DEF Release
  <1>2. image.by = b /\ IsImage(image) /\ image.version = <<>>
    BY DEF IsImage
  <1>3. b \in Runs
    BY RunFacts
  <1> HIDE DEF image, ref
  <1>4. /\ Go(b, "failed", loc[b]) \/ Go(b, "done", loc[b])
        /\ \/ UNCHANGED tags
           \/ Allowed(ref.repo, Resolve(ref.repo)) /\ Written(ref, image)
    BY <1>1, WriteFacts
  <1>5. /\ pc'[b] \in {"done", "failed"} /\ Domains'
        /\ \A q \in Runs : q # b => pc'[q] = pc[q] /\ loc'[q] = loc[q]
    BY <1>1, <1>3, <1>4, GoFacts DEF Domains
  <1>6. ref = loc[b].in.ref
    BY DEF ref
  <1>7. QED
    BY <1>1, <1>2, <1>4, <1>5, <1>6, Zenon DEF Released

\* The push keeps the invariant.
LEMMA ReleaseInvariant ==
    ASSUME RegistryInv, NEW b \in Builds, Release(b)
    PROVE  RegistryInv'
  <1>0. Released(b, loc[b].in.ref)
    BY ReleaseFacts DEF RegistryInv
  <1>1. /\ pc[b] = "checked" /\ pc'[b] # "checked" /\ Domains' /\ UNCHANGED during
        /\ \A q \in Builds : q # b => pc'[q] = pc[q] /\ loc'[q] = loc[q]
        /\ \A p \in Promotions : pc'[p] = pc[p] /\ loc'[p] = loc[p]
    BY <1>0, RunFacts DEF Released
  <1>2. LocalsAreInputs'
    BY <1>1 DEF RegistryInv, LocalsAreInputs
  <1>3. BuildsMeet'
    BY <1>1 DEF RegistryInv, BuildsMeet
  <1>4. FreeTags'
    <2> SUFFICES ASSUME NEW q \in Builds, pc'[q] = "checked", loc'[q].head = "absent",
                        Allowed(loc'[q].in.ref.repo, Resolve(loc'[q].in.ref.repo)),
                        loc'[q].in.ref \in DOMAIN tags'
                 PROVE  tags'[loc'[q].in.ref].by \in during'[q]
      BY DEF FreeTags
    <2>1. q # b /\ pc[q] = "checked" /\ loc'[q] = loc[q]
      BY <1>1
    <2>2. b \in during[q]
      BY <1>1, <2>1 DEF RegistryInv, BuildsMeet
    <2>3. \/ loc[q].in.ref \in DOMAIN tags /\ tags'[loc[q].in.ref] = tags[loc[q].in.ref]
          \/ tags'[loc[q].in.ref].by = b
      BY <1>0, <2>1 DEF Released, Written
    <2>4. QED
      BY <1>1, <2>1, <2>2, <2>3 DEF RegistryInv, FreeTags
  <1>5. QED
    BY <1>1, <1>2, <1>3, <1>4 DEF RegistryInv

\* A promotion writes to another repository.
LEMMA PromotionInvariant ==
    ASSUME PromotionsGoElsewhere, RegistryInv, NEW p \in Promotions,
           ListTags(p) \/ CopyRead(p) \/ CopyWrite(p)
    PROVE  RegistryInv'
  <1>1. p \in Runs
    BY RunFacts
  <1>2. CASE ListTags(p)
    <2>1. PICK in \in PromoteInputs : \E refs :
             \/ Go(p, "failed", NoLocal)
             \/ Go(p, "read", [in |-> in, refs |-> refs])
      BY <1>2 DEF ListTags
    <2> PICK refs : \/ Go(p, "failed", NoLocal)
                    \/ Go(p, "read", [in |-> in, refs |-> refs])
      BY <2>1
    <2>2. /\ UNCHANGED tags /\ pc[p] = "start"
          /\ \A q \in Runs : q # p => pc'[q] = pc[q] /\ loc'[q] = loc[q]
          /\ pc'[p] \in {"failed", "read"}
          /\ pc'[p] = "read" => loc'[p] = [in |-> in, refs |-> refs]
      BY <1>1, <1>2, <2>1, GoFacts DEF ListTags, Begin, RegistryInv
    <2>3. Domains'
      BY <1>1, <1>2, <2>1, GoFacts DEF ListTags, Begin, RegistryInv, Domains
    <2>4. \A q \in Builds : during[q] \subseteq during'[q]
      BY <1>2, RunFacts DEF ListTags, Begin, RegistryInv, Domains
    <2>5. LocalsAreInputs'
      BY <2>2, RunFacts DEF RegistryInv, LocalsAreInputs
    <2>6. BuildsMeet'
      BY <2>2, <2>4, RunFacts DEF RegistryInv, BuildsMeet
    <2>7. FreeTags'
      BY <2>2, <2>4, RunFacts DEF RegistryInv, FreeTags
    <2>8. QED
      BY <2>3, <2>5, <2>6, <2>7 DEF RegistryInv
  <1>3. CASE CopyRead(p)
    <2>1. /\ UNCHANGED <<tags, during>> /\ pc[p] = "read"
          /\ \E image : \/ Go(p, "failed", loc[p])
                       \/ Go(p, "write", [in |-> loc[p].in, refs |-> loc[p].refs, image |-> image])
      BY <1>3 DEF CopyRead
    <2> PICK image : \/ Go(p, "failed", loc[p])
                     \/ Go(p, "write", [in |-> loc[p].in, refs |-> loc[p].refs, image |-> image])
      BY <2>1
    <2> DEFINE local == [in |-> loc[p].in, refs |-> loc[p].refs, image |-> image]
    <2>2. /\ \A q \in Runs : q # p => pc'[q] = pc[q] /\ loc'[q] = loc[q]
          /\ pc'[p] \in {"failed", "write"}
          /\ pc'[p] = "write" => loc'[p] = local
      <3> HIDE DEF local
      <3>1. Go(p, "failed", loc[p]) \/ Go(p, "write", local)
        BY DEF local
      <3>2. QED
        BY <1>1, <3>1, GoFacts DEF RegistryInv
    <2>3. Domains'
      BY <1>1, <2>1, GoFacts DEF RegistryInv, Domains
    <2>4. local = [x \in DOMAIN local |-> local[x]] /\ "in" \in DOMAIN local /\ local.in = loc[p].in
      OBVIOUS
    <2> HIDE DEF local
    <2>5. LocalsAreInputs'
      BY <2>1, <2>2, <2>4, RunFacts DEF RegistryInv, LocalsAreInputs
    <2>6. BuildsMeet' /\ FreeTags'
      BY <2>1, <2>2, RunFacts DEF RegistryInv, BuildsMeet, FreeTags
    <2>8. QED
      BY <2>3, <2>5, <2>6 DEF RegistryInv
  <1>4. CASE CopyWrite(p)
    <2> DEFINE ref == [repo |-> loc[p].in.to.repo, tag |-> Head(loc[p].refs)]
               image == [loc[p].image EXCEPT !.version = loc[p].in.to.tag.num]
               to == IF Tail(loc[p].refs) = <<>> THEN "done" ELSE "read"
               local == [loc[p] EXCEPT !.refs = Tail(loc[p].refs)]
    <2>1. pc[p] = "write" /\ UNCHANGED during /\ Write(p, ref, image, to, local)
      BY <1>4, Zenon DEF CopyWrite
    <2>2. /\ ref.repo = loc[p].in.to.repo /\ loc[p].in \in PromoteInputs
          /\ "in" \in DOMAIN local /\ local.in \in PromoteInputs
          /\ local = [x \in DOMAIN local |-> local[x]]
      BY <2>1 DEF RegistryInv, LocalsAreInputs
    <2> HIDE DEF ref, image, to, local
    <2>3. /\ UNCHANGED tags \/ Written(ref, image)
          /\ Go(p, to, local) \/ Go(p, "failed", loc[p])
      BY <2>1, WriteFacts
    <2>4. /\ \A q \in Runs : q # p => pc'[q] = pc[q] /\ loc'[q] = loc[q]
          /\ loc'[p] = local \/ pc'[p] = "failed"
      BY <1>1, <2>3, GoFacts DEF RegistryInv
    <2>5. Domains'
      BY <1>1, <2>1, <2>3, GoFacts DEF RegistryInv, Domains
    <2>6. LocalsAreInputs'
      BY <2>2, <2>4, RunFacts DEF RegistryInv, LocalsAreInputs
    <2>7. BuildsMeet'
      BY <2>1, <2>4, RunFacts DEF RegistryInv, BuildsMeet
    <2>8. FreeTags'
      <3> SUFFICES ASSUME NEW q \in Builds, pc'[q] = "checked", loc'[q].head = "absent",
                          Allowed(loc'[q].in.ref.repo, Resolve(loc'[q].in.ref.repo)),
                          loc'[q].in.ref \in DOMAIN tags'
                   PROVE  tags'[loc'[q].in.ref].by \in during'[q]
        BY DEF FreeTags
      <3>1. pc[q] = "checked" /\ loc'[q] = loc[q]
        BY <2>4, RunFacts
      <3>2. loc[q].in.ref # ref
        BY <2>2, <3>1 DEF PromotionsGoElsewhere, RegistryInv, LocalsAreInputs
      <3>3. loc[q].in.ref \in DOMAIN tags /\ tags'[loc[q].in.ref] = tags[loc[q].in.ref]
        BY <2>3, <3>1, <3>2 DEF Written
      <3>4. QED
        BY <2>1, <3>1, <3>3 DEF RegistryInv, FreeTags
    <2>9. QED
      BY <2>5, <2>6, <2>7, <2>8 DEF RegistryInv
  <1>5. QED
    BY <1>2, <1>3, <1>4

\* A fetch only reads.
LEMMA FetchInvariant ==
    ASSUME RegistryInv, NEW f \in Fetches, FetchImage(f) \/ WriteLayer(f) \/ FetchOutputs(f)
    PROVE  RegistryInv'
  <1>1. /\ UNCHANGED <<tags, during>>
        /\ \E to, local : Go(f, to, local)
    BY Zenon DEF FetchImage, WriteLayer, FetchOutputs
  <1>2. /\ \A q \in Runs : q # f => pc'[q] = pc[q] /\ loc'[q] = loc[q]
        /\ Domains'
    BY <1>1, RunFacts, GoFacts DEF RegistryInv, Domains
  <1>3. \A q \in Builds \cup Promotions : pc'[q] = pc[q] /\ loc'[q] = loc[q]
    BY <1>2, RunFacts
  <1>4. LocalsAreInputs'
    BY <1>3 DEF RegistryInv, LocalsAreInputs
  <1>5. BuildsMeet' /\ FreeTags'
    BY <1>1, <1>3 DEF RegistryInv, BuildsMeet, FreeTags
  <1>6. QED
    BY <1>2, <1>4, <1>5 DEF RegistryInv

-------------------------------------------------------------------------------
\* The invariant holds.
LEMMA RegistryInvariant ==
    ASSUME PromotionsGoElsewhere PROVE Spec => []RegistryInv
  <1>1. Init => RegistryInv
    BY RunFacts DEF Init, RegistryInv, Domains, LocalsAreInputs, BuildsMeet, FreeTags
  <1>2. RegistryInv /\ [Next]_vars => RegistryInv'
    <2> SUFFICES ASSUME RegistryInv, [Next]_vars PROVE RegistryInv'
      OBVIOUS
    <2>1. CASE Next
      BY <2>1, BuildStartInvariant, ReleaseInvariant, PromotionInvariant, FetchInvariant DEF Next
    <2>2. CASE UNCHANGED vars
      BY <2>2 DEF vars, RegistryInv, Domains, LocalsAreInputs, BuildsMeet, FreeTags
    <2>3. QED
      BY <2>1, <2>2
  <1>3. QED
    BY <1>1, <1>2, PTL DEF Spec

\* No step but the push of a build takes the build from "checked" to another place.
LEMMA OnlyReleasePushes ==
    ASSUME Domains, [Next]_vars, NEW b \in Builds, pc[b] = "checked", pc'[b] # "checked"
    PROVE  Release(b)
  <1>1. \A r \in Runs \ {b} : \A to, local : ~Go(r, to, local)
    BY RunFacts, GoFacts
  <1>2. ~UNCHANGED vars
    BY DEF vars
  <1>3. ~BuildStart(b)
    BY DEF BuildStart, Begin
  <1>4. \A q \in Builds \ {b} : ~BuildStart(q)
    BY <1>1, RunFacts, Zenon DEF BuildStart, AlreadyPublished
  <1>5. \A q \in Builds \ {b} : ~Release(q)
    BY <1>1, RunFacts, Zenon DEF Release, Write
  <1>6. \A p \in Promotions : ~ListTags(p) /\ ~CopyRead(p) /\ ~CopyWrite(p)
    BY <1>1, RunFacts, Zenon DEF ListTags, CopyRead, CopyWrite, Write
  <1>7. \A f \in Fetches : ~FetchImage(f) /\ ~WriteLayer(f) /\ ~FetchOutputs(f)
    BY <1>1, RunFacts, Zenon DEF FetchImage, WriteLayer, FetchOutputs
  <1>8. QED
    BY <1>2, <1>3, <1>4, <1>5, <1>6, <1>7 DEF Next

\* For any builds, promotions and fetches with any inputs, and however often calls to
\* the registry fail: a build replaces what its tag names only if it got an error when
\* it asked for the tag, or if what is replaced was pushed by a build that was under
\* way at the same time (Releaser.Release, alreadyPublished).  The condition cannot be
\* dropped: a promotion to the tag that a build has just found free is replaced.
THEOREM RegistryReleasesAreKept ==
    ASSUME PromotionsGoElsewhere PROVE Spec => ReleasesAreKept
  <1> DEFINE Kept ==
        \A ref \in DOMAIN tags : \A b \in Builds :
            tags'[ref] # tags[ref] /\ pc[b] = "checked" /\ pc'[b] # "checked" =>
               loc[b].head = "error" \/ tags[ref].by \in during[b]
  <1>1. RegistryInv /\ [Next]_vars => [Kept]_vars
    <2> SUFFICES ASSUME RegistryInv, [Next]_vars,
                        NEW ref \in DOMAIN tags, NEW b \in Builds, tags'[ref] # tags[ref],
                        pc[b] = "checked", pc'[b] # "checked", loc[b].head # "error"
                 PROVE  tags[ref].by \in during[b]
      OBVIOUS
    <2>1. Released(b, loc[b].in.ref)
      BY OnlyReleasePushes, ReleaseFacts DEF RegistryInv
    <2>2. ref = loc[b].in.ref /\ Allowed(ref.repo, Resolve(ref.repo))
      BY <2>1 DEF Released, Written
    <2>3. QED
      BY <2>2 DEF RegistryInv, LocalsAreInputs, FreeTags
  <1>2. QED
    BY <1>1, RegistryInvariant, PTL DEF Spec, ReleasesAreKept

-------------------------------------------------------------------------------
(*****************************************************************************)
(* Versions and their tags                                                   *)
(*****************************************************************************)

\* A sequence with another one after it.
LEMMA Concat ==
    ASSUME NEW S, NEW s \in Seq(S), NEW t \in Seq(S), s # <<>>
    PROVE  s \o t \in Seq(S) /\ s \o t # <<>> /\ Head(s \o t) = Head(s)
  <1>1. s \o t \in Seq(S) /\ Len(s \o t) = Len(s) + Len(t)
    OBVIOUS
  <1>2. Len(s) \in Nat \ {0} /\ Len(t) \in Nat
    OBVIOUS
  <1>3. (s \o t)[1] = s[1]
    BY <1>2
  <1>4. QED
    BY <1>1, <1>2, <1>3

\* The length of a sequence that is not empty.
LEMMA NotEmpty ==
    ASSUME NEW S, NEW s \in Seq(S), s # <<>>
    PROVE  Len(s) \in Nat /\ Len(s) # 0
  OBVIOUS

\* A sequence of one element or none.
LEMMA Optional ==
    ASSUME NEW S, NEW cond, NEW x, cond => x \in S
    PROVE  (IF cond THEN <<x>> ELSE <<>>) \in Seq(S)
  <1>1. CASE cond
    BY <1>1
  <1>2. CASE ~cond
    <2>1. <<>> \in Seq(S)
      OBVIOUS
    <2>2. QED
      BY <1>2, <2>1, Zenon
  <1>3. QED
    BY <1>1, <1>2

\* The first elements of a sequence.
LEMMA Prefix ==
    ASSUME NEW S, NEW s \in Seq(S), NEW n \in 0..Len(s)
    PROVE  /\ SubSeq(s, 1, n) \in Seq(S) /\ Len(SubSeq(s, 1, n)) = n
           /\ \A i \in 1..n : SubSeq(s, 1, n)[i] = s[i]
  OBVIOUS

\* The tags x.y and x of a version.
MinorTag(v) == [num |-> SubSeq(v, 1, 2), rel |-> ""]
MajorTag(v) == [num |-> SubSeq(v, 1, 1), rel |-> ""]

\* The numbers of a version and the beginnings x and x.y of it.
LEMMA VersionFacts ==
    ASSUME NEW v, IsVersion(v)
    PROVE  /\ v[1] \in Nat /\ v[2] \in Nat /\ v[3] \in Nat
           /\ Len(SubSeq(v, 1, 1)) = 1 /\ SubSeq(v, 1, 1)[1] = v[1]
           /\ Len(SubSeq(v, 1, 2)) = 2 /\ SubSeq(v, 1, 2)[1] = v[1] /\ SubSeq(v, 1, 2)[2] = v[2]
           /\ SubSeq(v, 1, 3) = v
  <1>1. v \in Seq(Nat) /\ Len(v) = 3
    BY DEF IsVersion
  <1>2. v[1] \in Nat /\ v[2] \in Nat /\ v[3] \in Nat
    <2>1. 1 \in 1..Len(v) /\ 2 \in 1..Len(v) /\ 3 \in 1..Len(v)
      BY <1>1
    <2>2. \A i \in 1..Len(v) : v[i] \in Nat
      BY <1>1
    <2>3. QED
      BY <2>1, <2>2
  <1>3. Len(SubSeq(v, 1, 1)) = 1 /\ SubSeq(v, 1, 1)[1] = v[1]
    <2>1. 1 \in 0..Len(v) /\ 1 \in 1..1
      BY <1>1
    <2>2. QED
      BY <1>1, <2>1, Prefix
  <1>4. Len(SubSeq(v, 1, 2)) = 2 /\ SubSeq(v, 1, 2)[1] = v[1] /\ SubSeq(v, 1, 2)[2] = v[2]
    <2>1. 2 \in 0..Len(v) /\ 1 \in 1..2 /\ 2 \in 1..2
      BY <1>1
    <2>2. QED
      BY <1>1, <2>1, Prefix
  <1>5. SubSeq(v, 1, 3) = v
    BY <1>1
  <1>6. QED
    BY <1>2, <1>3, <1>4, <1>5

\* Versions are compared number by number.
LEMMA OlderFacts ==
    ASSUME NEW v, IsVersion(v), NEW w, IsVersion(w), Older(v, w)
    PROVE  \/ v[1] < w[1]
           \/ v[1] = w[1] /\ v[2] < w[2]
           \/ v[1] = w[1] /\ v[2] = w[2] /\ v[3] < w[3]
  <1>1. PICK i \in 1..3 : v[i] < w[i] /\ SubSeq(v, 1, i - 1) = SubSeq(w, 1, i - 1)
    BY DEF Older
  <1>2. CASE i = 1
    BY <1>1, <1>2
  <1>3. CASE i = 2
    <2>1. SubSeq(v, 1, 1) = SubSeq(w, 1, 1) /\ v[2] < w[2]
      BY <1>1, <1>3
    <2>2. QED
      BY <2>1, VersionFacts
  <1>4. CASE i = 3
    <2>1. SubSeq(v, 1, 2) = SubSeq(w, 1, 2) /\ v[3] < w[3]
      BY <1>1, <1>4
    <2>2. QED
      BY <2>1, VersionFacts
  <1>5. QED
    BY <1>2, <1>3, <1>4

\* The tags x.y, x and latest of a version.
LEMMA MovingFacts ==
    ASSUME NEW v, IsVersion(v)
    PROVE  /\ MovingTags(v) = {MinorTag(v), MajorTag(v), Latest}
           /\ Len(MinorTag(v).num) = 2 /\ Len(MajorTag(v).num) = 1
           /\ Len(Latest.num) = 0 /\ Len(FullTag(v).num) = 3
  <1>1. 1..2 = {1, 2}
    OBVIOUS
  <1>2. MovingTags(v) = {MinorTag(v), MajorTag(v), Latest}
    BY <1>1 DEF MovingTags, MinorTag, MajorTag
  <1>3. Len(MinorTag(v).num) = 2 /\ Len(MajorTag(v).num) = 1
    BY VersionFacts DEF MinorTag, MajorTag
  <1>4. Len(Latest.num) = 0 /\ Len(FullTag(v).num) = 3
    BY DEF Latest, FullTag, IsVersion
  <1>5. QED
    BY <1>2, <1>3, <1>4

\* The tags that move differ in length.
LEMMA MovingLengths ==
    ASSUME NEW w, IsVersion(w), NEW t \in MovingTags(w)
    PROVE  /\ Len(t.num) # 3
           /\ Len(t.num) = 2 => t = MinorTag(w)
           /\ Len(t.num) = 1 => t = MajorTag(w)
  <1>1. /\ MovingTags(w) = {MinorTag(w), MajorTag(w), Latest}
        /\ Len(MinorTag(w).num) = 2 /\ Len(MajorTag(w).num) = 1 /\ Len(Latest.num) = 0
    BY MovingFacts
  <1>2. t = MinorTag(w) \/ t = MajorTag(w) \/ t = Latest
    BY <1>1, Zenon
  <1>3. CASE t = MinorTag(w)
    <2>1. Len(t.num) = 2
      BY <1>1, <1>3, Zenon
    <2>2. QED
      BY <1>3, <2>1
  <1>4. CASE t = MajorTag(w)
    BY <1>1, <1>4
  <1>5. CASE t = Latest
    BY <1>1, <1>5
  <1>6. QED
    BY <1>2, <1>3, <1>4, <1>5

\* A tag that moves and that two versions share.
LEMMA SharedTags ==
    ASSUME NEW v, IsVersion(v), NEW w, IsVersion(w)
    PROVE  /\ MinorTag(v) \in MovingTags(w) => v[1] = w[1] /\ v[2] = w[2]
           /\ MajorTag(v) \in MovingTags(w) => v[1] = w[1]
           /\ FullTag(v) \notin MovingTags(w)
  <1>1. Len(MinorTag(v).num) = 2 /\ Len(MajorTag(v).num) = 1 /\ Len(FullTag(v).num) = 3
    BY MovingFacts
  <1>2. /\ MinorTag(v) \in MovingTags(w) => MinorTag(v).num = MinorTag(w).num
        /\ MajorTag(v) \in MovingTags(w) => MajorTag(v).num = MajorTag(w).num
        /\ FullTag(v) \notin MovingTags(w)
    BY <1>1, MovingLengths
  <1>3. /\ MinorTag(v).num = SubSeq(v, 1, 2) /\ MinorTag(w).num = SubSeq(w, 1, 2)
        /\ MajorTag(v).num = SubSeq(v, 1, 1) /\ MajorTag(w).num = SubSeq(w, 1, 1)
    BY DEF MinorTag, MajorTag
  <1>4. QED
    BY <1>2, <1>3, VersionFacts

\* A promotion leaves alone the tags of the newer versions that it knows of.
LEMMA TagsToUpdateFacts ==
    ASSUME NEW v, IsVersion(v), NEW existing
    PROVE  /\ TagsToUpdate(v, existing) \in Seq({FullTag(v)} \cup MovingTags(v))
           /\ TagsToUpdate(v, existing) # <<>>
           /\ Head(TagsToUpdate(v, existing)) = FullTag(v)
           /\ \A i \in 1..Len(TagsToUpdate(v, existing)), w \in existing :
                 IsVersion(w) /\ TagsToUpdate(v, existing)[i] \in MovingTags(w) => ~Older(v, w)
  <1> DEFINE patch == IsMostRecentPatchForMajorMinor(v, existing)
             minor == patch /\ IsMostRecentMinorForMajor(v, existing)
             major == minor /\ IsMostRecentMajor(v, existing)
             full == FullTag(v)
             T2 == MinorTag(v)
             T1 == MajorTag(v)
             latest == Latest
             s2 == IF patch THEN <<T2>> ELSE <<>>
             s1 == IF minor THEN <<T1>> ELSE <<>>
             s0 == IF major THEN <<latest>> ELSE <<>>
             refs == TagsToUpdate(v, existing)
             S == {full} \cup (IF patch THEN {T2} ELSE {})
                         \cup (IF minor THEN {T1} ELSE {}) \cup (IF major THEN {latest} ELSE {})
  <1>1. refs = <<full>> \o s2 \o s1 \o s0
    BY VersionFacts, Zenon DEF TagsToUpdate, FullTag, MinorTag, MajorTag
  <1>2. refs \in Seq(S) /\ refs # <<>> /\ Head(refs) = full
    <2> HIDE DEF patch, minor, major, full, T2, T1, latest, refs
    <2>1. <<full>> \in Seq(S) /\ <<full>> # <<>> /\ Head(<<full>>) = full
      OBVIOUS
    <2>2. s2 \in Seq(S) /\ s1 \in Seq(S) /\ s0 \in Seq(S)
      <3>1. (patch => T2 \in S) /\ (minor => T1 \in S) /\ (major => latest \in S)
        OBVIOUS
      <3> HIDE DEF S
      <3>2. QED
        BY <3>1, Optional
    <2> HIDE DEF S, s2, s1, s0
    <2>3. LET s == <<full>> \o s2 IN s \in Seq(S) /\ s # <<>> /\ Head(s) = full
      BY <2>1, <2>2, Concat
    <2>4. LET s == <<full>> \o s2 \o s1 IN s \in Seq(S) /\ s # <<>> /\ Head(s) = full
      BY <2>2, <2>3, Concat
    <2>5. QED
      BY <1>1, <2>2, <2>4, Concat
  <1> HIDE DEF refs
  <1>3. S \subseteq {full} \cup MovingTags(v)
    BY MovingFacts
  <1>4. refs \in Seq({full} \cup MovingTags(v))
    <2> DEFINE M == {full} \cup MovingTags(v)
    <2>1. S \subseteq M /\ refs \in Seq(S)
      BY <1>2, <1>3
    <2> HIDE DEF S, M
    <2>2. QED
      BY <2>1 DEF M
  <1>5. ASSUME NEW i \in 1..Len(refs), NEW w \in existing, IsVersion(w),
               refs[i] \in MovingTags(w), Older(v, w)
        PROVE  FALSE
    <2>1. /\ v[1] \in Nat /\ v[2] \in Nat /\ v[3] \in Nat
          /\ w[1] \in Nat /\ w[2] \in Nat /\ w[3] \in Nat
      BY <1>5, VersionFacts
    <2>2. refs[i] \in S
      BY <1>2
    <2>3. \/ patch /\ w[1] = v[1] /\ w[2] = v[2]
          \/ minor /\ w[1] = v[1]
          \/ major
      BY <1>5, <2>2, SharedTags
    <2>4. \/ v[1] < w[1]
          \/ v[1] = w[1] /\ v[2] < w[2]
          \/ v[1] = w[1] /\ v[2] = w[2] /\ v[3] < w[3]
      BY <1>5, OlderFacts
    <2>5. /\ patch => (w[1] = v[1] /\ w[2] = v[2] => w[3] <= v[3])
          /\ minor => (w[1] = v[1] => w[2] <= v[2])
          /\ major => w[1] <= v[1]
          /\ (minor => patch) /\ (major => minor)
      BY <1>5 DEF IsMostRecentPatchForMajorMinor, IsMostRecentMinorForMajor, IsMostRecentMajor
    <2> HIDE DEF patch, minor, major
    <2>6. QED
      BY <2>1, <2>3, <2>4, <2>5
  <1>6. QED
    BY <1>2, <1>4, <1>5 DEF refs

-------------------------------------------------------------------------------
(*****************************************************************************)
(* Promotions                                                                *)
(*****************************************************************************)

UnderWay(p) == pc[p] \in {"read", "write"}
VersionOf(p) == loc[p].in.to.tag.num
PromotionTags(in) == {in.to.tag, FullTag(in.to.tag.num)} \cup MovingTags(in.to.tag.num)

\* What promotion p has yet to write.
Pending(p) ==
    { [repo |-> loc[p].in.to.repo, tag |-> loc[p].refs[i]] : i \in 1..Len(loc[p].refs) }

LocalsAreWhole(p) ==
    /\ loc[p] = [x \in DOMAIN loc[p] |-> loc[p][x]] /\ "in" \in DOMAIN loc[p] /\ "refs" \in DOMAIN loc[p]
    /\ IsVersion(VersionOf(p))
    /\ loc[p].refs \in Seq(PromotionTags(loc[p].in)) /\ loc[p].refs # <<>>
    /\ pc[p] = "write" => IsImage(loc[p].image)

\* The full name of the version is written first.
NameComesFirst(p) ==
    \/ [repo |-> loc[p].in.to.repo, tag |-> FullTag(VersionOf(p))] \in DOMAIN tags
    \/ Head(loc[p].refs) = FullTag(VersionOf(p))
    \/ loc[p].refs = <<loc[p].in.to.tag>>

\* A promotion that ran at the same time as p gave a tag to version w.
Explained(p, w) ==
    \E q \in during[p] \cap Promotions : loc[q] # NoLocal /\ VersionOf(q) = w

Advances(p) ==
    \A ref \in Pending(p) \cap DOMAIN tags :
        tags[ref].version # <<>> /\ Older(VersionOf(p), tags[ref].version) =>
            Explained(p, tags[ref].version)

PromotionInv(p) == LocalsAreWhole(p) /\ NameComesFirst(p) /\ Advances(p)

\* The inductive invariant.
PromoteInv ==
    /\ Domains
    /\ \A ref \in DOMAIN tags : IsImage(tags[ref])
    /\ VersionsAreNamed(tags)
    /\ \A p \in Promotions : pc[p] = "start" => loc[p] = NoLocal
    /\ \A p, q \in Promotions : p # q /\ UnderWay(p) /\ UnderWay(q) => q \in during[p]
    /\ \A p \in Promotions : UnderWay(p) => PromotionInv(p)

\* The inputs of a promotion do not change once it has read them.
InputsStay ==
    \A q \in Promotions : loc[q] # NoLocal => loc'[q] # NoLocal /\ loc'[q].in = loc[q].in
DuringGrows ==
    \A p \in Promotions : UnderWay(p) => during[p] \subseteq during'[p]

\* As Explained, after the step.
ExplainedNext(p, w) ==
    \E q \in during'[p] \cap Promotions : loc'[q] # NoLocal /\ loc'[q].in.to.tag.num = w

\* What keeps a promotion from going back goes on doing so.
LEMMA AdvancesStays ==
    ASSUME NEW p \in Promotions, Advances(p), InputsStay, during[p] \subseteq during'[p],
           loc'[p].in = loc[p].in, Pending(p)' \subseteq Pending(p),
           \A ref \in Pending(p) \cap DOMAIN tags' :
              \/ ref \in DOMAIN tags /\ tags'[ref] = tags[ref]
              \/ tags'[ref].version = <<>>
              \/ ~Older(VersionOf(p), tags'[ref].version)
              \/ ExplainedNext(p, tags'[ref].version)
    PROVE  Advances(p)'
  <1> SUFFICES ASSUME NEW ref \in Pending(p)' \cap DOMAIN tags',
                      tags'[ref].version # <<>>, Older(VersionOf(p)', tags'[ref].version)
               PROVE  ExplainedNext(p, tags'[ref].version)
    BY Zenon DEF Advances, Explained, ExplainedNext, VersionOf
  <1>1. ref \in Pending(p) /\ VersionOf(p)' = VersionOf(p)
    BY DEF VersionOf
  <1>2. CASE ref \in DOMAIN tags /\ tags'[ref] = tags[ref]
    <2>1. Explained(p, tags[ref].version)
      BY <1>1, <1>2 DEF Advances
    <2>2. PICK q \in during[p] \cap Promotions :
             loc[q] # NoLocal /\ loc[q].in.to.tag.num = tags[ref].version
      BY <2>1 DEF Explained, VersionOf
    <2>3. /\ q \in during'[p] \cap Promotions
          /\ loc'[q] # NoLocal /\ loc'[q].in.to.tag.num = tags'[ref].version
      BY <1>2, <2>2 DEF InputsStay
    <2>4. QED
      BY <2>3, Zenon DEF ExplainedNext
  <1>3. QED
    BY <1>1, <1>2

\* A step of a run keeps the invariant of the promotions other than r.
LEMMA OthersInvariant ==
    ASSUME PromoteInv, NEW r \in Runs, InputsStay, DuringGrows,
           \A q \in Runs : q # r => pc'[q] = pc[q] /\ loc'[q] = loc[q],
           DOMAIN tags \subseteq DOMAIN tags',
           \A ref \in DOMAIN tags' :
              \/ ref \in DOMAIN tags /\ tags'[ref] = tags[ref]
              \/ tags'[ref].version = <<>>
              \/ r \in Promotions /\ UnderWay(r) /\ tags'[ref].version = VersionOf(r)
    PROVE  \A p \in Promotions \ {r} : UnderWay(p)' => PromotionInv(p)'
  <1> SUFFICES ASSUME NEW p \in Promotions, p # r, UnderWay(p)' PROVE PromotionInv(p)'
    OBVIOUS
  <1>1. pc'[p] = pc[p] /\ loc'[p] = loc[p] /\ UnderWay(p)
    BY RunFacts DEF UnderWay
  <1>2. LocalsAreWhole(p) /\ NameComesFirst(p) /\ Advances(p) /\ during[p] \subseteq during'[p]
    BY <1>1 DEF PromoteInv, PromotionInv, DuringGrows
  <1>3. LocalsAreWhole(p)'
    BY <1>1, <1>2 DEF LocalsAreWhole, VersionOf
  <1>4. NameComesFirst(p)'
    BY <1>1, <1>2 DEF NameComesFirst, VersionOf
  <1>5. ASSUME r \in Promotions, UnderWay(r) PROVE ExplainedNext(p, VersionOf(r))
    <2>1. r \in during'[p]
      BY <1>1, <1>2, <1>5 DEF PromoteInv
    <2>2. "refs" \in DOMAIN loc[r]
      BY <1>5 DEF PromoteInv, PromotionInv, LocalsAreWhole
    <2>3. loc[r] # NoLocal
      BY <2>2 DEF NoLocal
    <2>4. loc'[r] # NoLocal /\ loc'[r].in.to.tag.num = VersionOf(r)
      BY <1>5, <2>3 DEF InputsStay, VersionOf
    <2>5. QED
      BY <1>5, <2>1, <2>4, Zenon DEF ExplainedNext
  <1>6. Advances(p)'
    <2>1. Pending(p)' \subseteq Pending(p)
      BY <1>1 DEF Pending
    <2>2. QED
      BY <1>1, <1>2, <1>5, <2>1, AdvancesStays
  <1>7. QED
    BY <1>3, <1>4, <1>6 DEF PromotionInv

\* A write keeps the versions named.
LEMMA NamedStays ==
    ASSUME VersionsAreNamed(tags), NEW ref, NEW image, Written(ref, image),
           \/ image.version = <<>>
           \/ /\ IsVersion(image.version)
              /\ \/ ref.tag.num = image.version
                 \/ /\ ref.tag \in MovingTags(image.version)
                    /\ [repo |-> ref.repo, tag |-> FullTag(image.version)] \in DOMAIN tags
    PROVE  VersionsAreNamed(tags')
  <1> SUFFICES ASSUME NEW other \in DOMAIN tags', tags'[other].version # <<>>
               PROVE  /\ IsVersion(tags'[other].version)
                      /\ \/ other.tag.num = tags'[other].version
                         \/ /\ other.tag \in MovingTags(tags'[other].version)
                            /\ [repo |-> other.repo, tag |-> FullTag(tags'[other].version)]
                                  \in DOMAIN tags'
    BY Zenon DEF VersionsAreNamed
  <1>1. DOMAIN tags \subseteq DOMAIN tags'
    BY DEF Written
  <1>2. CASE other = ref
    BY <1>1, <1>2 DEF Written
  <1>3. CASE other # ref
    <2>1. other \in DOMAIN tags /\ tags'[other] = tags[other]
      BY <1>3 DEF Written
    <2>2. /\ IsVersion(tags[other].version)
          /\ \/ other.tag.num = tags[other].version
             \/ /\ other.tag \in MovingTags(tags[other].version)
                /\ [repo |-> other.repo, tag |-> FullTag(tags[other].version)] \in DOMAIN tags
      BY <2>1, Zenon DEF VersionsAreNamed
    <2>3. QED
      BY <1>1, <2>1, <2>2
  <1>4. QED
    BY <1>2, <1>3

\* Steps of builds and fetches do not concern promotions.
LEMMA OutsideInvariant ==
    ASSUME PromoteInv, NEW r \in Runs, r \notin Promotions, Domains', DuringGrows,
           \A q \in Runs : q # r => pc'[q] = pc[q] /\ loc'[q] = loc[q],
           \/ UNCHANGED tags
           \/ \E ref, image : Written(ref, image) /\ IsImage(image) /\ image.version = <<>>
    PROVE  PromoteInv'
  <1>1. \A q \in Promotions : pc'[q] = pc[q] /\ loc'[q] = loc[q] /\ (UnderWay(q)' <=> UnderWay(q))
    BY RunFacts DEF UnderWay
  <1>2. /\ \A ref \in DOMAIN tags' : IsImage(tags'[ref])
        /\ DOMAIN tags \subseteq DOMAIN tags'
        /\ \A ref \in DOMAIN tags' : \/ ref \in DOMAIN tags /\ tags'[ref] = tags[ref]
                                     \/ tags'[ref].version = <<>>
    BY DEF PromoteInv, Written
  <1>3. VersionsAreNamed(tags')
    <2>1. CASE UNCHANGED tags
      BY <2>1 DEF PromoteInv
    <2>2. CASE \E ref, image : Written(ref, image) /\ image.version = <<>>
      BY <2>2, NamedStays DEF PromoteInv
    <2>3. QED
      BY <2>1, <2>2
  <1>4. \A p \in Promotions : pc'[p] = "start" => loc'[p] = NoLocal
    BY <1>1 DEF PromoteInv
  <1>5. \A p, q \in Promotions : p # q /\ UnderWay(p)' /\ UnderWay(q)' => q \in during'[p]
    BY <1>1 DEF PromoteInv, DuringGrows
  <1>6. \A p \in Promotions : UnderWay(p)' => PromotionInv(p)'
    <2>1. InputsStay
      BY <1>1 DEF InputsStay
    <2>2. QED
      BY <1>2, <2>1, OthersInvariant
  <1>7. QED
    BY <1>2, <1>3, <1>4, <1>5, <1>6 DEF PromoteInv

\* Builds and fetches keep the invariant of the promotions.
LEMMA BuildAndFetchKeepPromotions ==
    ASSUME PromoteInv,
           \/ \E b \in Builds : BuildStart(b) \/ Release(b)
           \/ \E f \in Fetches : FetchImage(f) \/ WriteLayer(f) \/ FetchOutputs(f)
    PROVE  PromoteInv'
  <1>0. Domains
    BY DEF PromoteInv
  <1>1. ASSUME NEW b \in Builds, BuildStart(b) PROVE PromoteInv'
    <2>1. UNCHANGED tags /\ \E to, local : Go(b, to, local)
      BY <1>1, Zenon DEF BuildStart, AlreadyPublished
    <2>2. /\ \A q \in Runs : q # b => pc'[q] = pc[q] /\ loc'[q] = loc[q]
          /\ Domains'
      BY <1>0, <1>1, <2>1, RunFacts, GoFacts DEF BuildStart, Begin, Domains
    <2>3. DuringGrows
      BY <1>0, <1>1, RunFacts DEF DuringGrows, BuildStart, Begin, Domains
    <2>4. QED
      BY <2>1, <2>2, <2>3, RunFacts, OutsideInvariant
  <1>2. ASSUME NEW b \in Builds, Release(b) PROVE PromoteInv'
    <2>1. Released(b, loc[b].in.ref)
      BY <1>0, <1>2, ReleaseFacts
    <2>2. DuringGrows
      BY <2>1 DEF DuringGrows, Released
    <2>3. QED
      BY <2>1, <2>2, RunFacts, OutsideInvariant DEF Released
  <1>3. ASSUME NEW f \in Fetches, FetchImage(f) \/ WriteLayer(f) \/ FetchOutputs(f)
        PROVE  PromoteInv'
    <2>1. UNCHANGED <<tags, during>> /\ \E to, local : Go(f, to, local)
      BY <1>3, Zenon DEF FetchImage, WriteLayer, FetchOutputs
    <2>2. /\ \A q \in Runs : q # f => pc'[q] = pc[q] /\ loc'[q] = loc[q]
          /\ Domains'
      BY <1>0, <2>1, RunFacts, GoFacts DEF Domains
    <2>3. DuringGrows
      BY <2>1 DEF DuringGrows
    <2>4. QED
      BY <2>1, <2>2, <2>3, RunFacts, OutsideInvariant
  <1>4. QED
    BY <1>1, <1>2, <1>3

\* What a promotion writes: the full name of its version first, and no tag of a newer
\* version whose full name it has seen.
LEMMA SemVerRefsFacts ==
    ASSUME NEW to, IsVersion(to.num), NEW T
    PROVE  /\ SemVerRefs(to, T) \in Seq({to, FullTag(to.num)} \cup MovingTags(to.num))
           /\ SemVerRefs(to, T) # <<>>
           /\ Head(SemVerRefs(to, T)) = FullTag(to.num) \/ SemVerRefs(to, T) = <<to>>
           /\ \A i \in 1..Len(SemVerRefs(to, T)) : \A w :
                 IsVersion(w) /\ FullTag(w) \in T /\ SemVerRefs(to, T)[i] \in MovingTags(w)
                 => ~Older(to.num, w)
  <1> DEFINE v == to.num
             S == {to, FullTag(v)} \cup MovingTags(v)
             refs == SemVerRefs(to, T)
             existing == ParseSemanticVersions(T)
  <1>1. CASE to.rel # ""
    <2>1. refs = <<to>>
      BY <1>1 DEF SemVerRefs
    <2>2. to \in S
      OBVIOUS
    <2>3. \A w : IsVersion(w) => to \notin MovingTags(w)
      BY MovingLengths DEF IsVersion
    <2> HIDE DEF S, refs
    <2>4. refs \in Seq(S) /\ refs # <<>> /\ \A i \in 1..Len(refs) : refs[i] = to
      BY <2>1, <2>2
    <2>5. QED
      BY <2>1, <2>3, <2>4 DEF refs, S
  <1>2. CASE to.rel = ""
    <2>1. refs = TagsToUpdate(v, existing)
      BY <1>2 DEF SemVerRefs
    <2> DEFINE R == {FullTag(v)} \cup MovingTags(v)
    <2>2. R \subseteq S
      OBVIOUS
    <2> HIDE DEF refs, existing
    <2>3. /\ refs \in Seq(R) /\ refs # <<>> /\ Head(refs) = FullTag(v)
          /\ \A i \in 1..Len(refs), w \in existing :
                 IsVersion(w) /\ refs[i] \in MovingTags(w) => ~Older(v, w)
      BY <2>1, TagsToUpdateFacts
    <2>4. ASSUME NEW w, IsVersion(w), FullTag(w) \in T PROVE w \in existing
      <3>1. FullTag(w).num = w /\ FullTag(w).rel = "" /\ Len(w) = 3
        BY <2>4 DEF FullTag, IsVersion
      <3>2. FullTag(w) \in { t \in T : Len(t.num) = 3 /\ t.rel = "" }
        BY <2>4, <3>1
      <3>3. QED
        BY <3>1, <3>2, Zenon DEF existing, ParseSemanticVersions
    <2>5. refs \in Seq(S)
      <3> HIDE DEF R, S
      <3>1. QED
        BY <2>2, <2>3
    <2>6. QED
      BY <2>3, <2>4, <2>5 DEF refs
  <1>3. QED
    BY <1>1, <1>2

\* No version is older than itself.
LEMMA NotOlder ==
    ASSUME NEW v, IsVersion(v) PROVE ~Older(v, v)
  BY OlderFacts, VersionFacts

\* The image for one platform is an image with a version.
LEMMA ImageOfFacts ==
    ASSUME NEW image, IsImage(image), ImageOf(image) # NoImage
    PROVE  IsImage(ImageOf(image))
  <1> DEFINE i == FindManifestForPlatform("linux/amd64", image.manifests)
  <1>1. CASE image.kind = "image"
    BY <1>1 DEF ImageOf
  <1>2. CASE image.kind # "image"
    <2> DEFINE one == [image EXCEPT !.kind = "image", !.manifests = <<image.manifests[i]>>]
    <2>1. ImageOf(image) = one
      BY <1>2 DEF ImageOf
    <2>2. DOMAIN one = DOMAIN image /\ one = [x \in DOMAIN one |-> one[x]]
      OBVIOUS
    <2> HIDE DEF one
    <2>3. QED
      BY <2>1, <2>2 DEF IsImage
  <1>3. QED
    BY <1>1, <1>2

\* No step but the writing of its tag takes a promotion from "write" to another place.
LEMMA OnlyCopyWriteWrites ==
    ASSUME Domains, [Next]_vars, NEW p \in Promotions, pc[p] = "write", pc'[p] # "write"
    PROVE  CopyWrite(p)
  <1>1. \A r \in Runs \ {p} : \A to, local : ~Go(r, to, local)
    BY RunFacts, GoFacts
  <1>2. ~UNCHANGED vars
    BY DEF vars
  <1>3. ~ListTags(p) /\ ~CopyRead(p)
    BY DEF ListTags, Begin, CopyRead
  <1>4. \A q \in Promotions \ {p} : ~ListTags(q) /\ ~CopyRead(q) /\ ~CopyWrite(q)
    BY <1>1, RunFacts, Zenon DEF ListTags, CopyRead, CopyWrite, Write
  <1>5. \A b \in Builds : ~BuildStart(b) /\ ~Release(b)
    BY <1>1, RunFacts, Zenon DEF BuildStart, AlreadyPublished, Release, Write
  <1>6. \A f \in Fetches : ~FetchImage(f) /\ ~WriteLayer(f) /\ ~FetchOutputs(f)
    BY <1>1, RunFacts, Zenon DEF FetchImage, WriteLayer, FetchOutputs
  <1>7. QED
    BY <1>2, <1>3, <1>4, <1>5, <1>6 DEF Next

\* A step of promotion p keeps the invariant if it leaves that of p.
LEMMA InsideInvariant ==
    ASSUME PromoteInv, NEW p \in Promotions, Domains', InputsStay, DuringGrows,
           \A q \in Runs : q # p => pc'[q] = pc[q] /\ loc'[q] = loc[q],
           pc'[p] # "start",
           \A q \in Promotions : q # p /\ UnderWay(q) /\ UnderWay(p)' =>
              q \in during'[p] /\ p \in during'[q],
           \/ UNCHANGED tags
           \/ UnderWay(p) /\ \E ref, image : /\ Written(ref, image) /\ IsImage(image)
                                             /\ image.version = VersionOf(p),
           VersionsAreNamed(tags'),
           UnderWay(p)' => PromotionInv(p)'
    PROVE  PromoteInv'
  <1>1. /\ \A ref \in DOMAIN tags' : IsImage(tags'[ref])
        /\ DOMAIN tags \subseteq DOMAIN tags'
        /\ \A ref \in DOMAIN tags' : \/ ref \in DOMAIN tags /\ tags'[ref] = tags[ref]
                                     \/ UnderWay(p) /\ tags'[ref].version = VersionOf(p)
    BY DEF PromoteInv, Written
  <1>2. \A q \in Promotions : q # p => /\ pc'[q] = pc[q] /\ loc'[q] = loc[q]
                                       /\ UnderWay(q)' <=> UnderWay(q)
    BY RunFacts DEF UnderWay
  <1>3. \A q \in Promotions : pc'[q] = "start" => loc'[q] = NoLocal
    BY <1>2 DEF PromoteInv
  <1>4. \A q, o \in Promotions : q # o /\ UnderWay(q)' /\ UnderWay(o)' => o \in during'[q]
    BY <1>2 DEF PromoteInv, DuringGrows
  <1>5. \A q \in Promotions : UnderWay(q)' => PromotionInv(q)'
    BY <1>1, RunFacts, OthersInvariant
  <1>6. QED
    BY <1>1, <1>3, <1>4, <1>5 DEF PromoteInv

\* A promotion that has listed the tags has nothing to write that goes back.
LEMMA ListTagsFacts ==
    ASSUME PromoteInv, NEW p \in Promotions, NEW in \in PromoteInputs, ParsePromoteInputs(in),
           loc'[p] = [in |-> in, refs |-> SemVerRefs(in.to.tag, TagsOf(in.to.repo))],
           pc'[p] = "read", UNCHANGED tags
    PROVE  PromotionInv(p)'
  <1> DEFINE v == in.to.tag.num
             repo == in.to.repo
             refs == SemVerRefs(in.to.tag, TagsOf(repo))
             local == [in |-> in, refs |-> refs]
  <1>1. IsVersion(v)
    BY PublishedAssumption DEF IsVersion, ParsePromoteInputs
  <1>2. /\ refs \in Seq(PromotionTags(in)) /\ refs # <<>>
        /\ Head(refs) = FullTag(v) \/ refs = <<in.to.tag>>
        /\ \A i \in 1..Len(refs) : \A w :
              IsVersion(w) /\ FullTag(w) \in TagsOf(repo) /\ refs[i] \in MovingTags(w)
              => ~Older(v, w)
    BY <1>1, SemVerRefsFacts DEF PromotionTags
  <1> HIDE DEF refs
  <1>3. /\ loc'[p] = local
        /\ local = [x \in DOMAIN local |-> local[x]] /\ "in" \in DOMAIN local /\ "refs" \in DOMAIN local
        /\ local.in = in /\ local.refs = refs
    BY DEF refs
  <1> HIDE DEF local
  <1>4. LocalsAreWhole(p)'
    BY <1>1, <1>2, <1>3 DEF LocalsAreWhole, VersionOf
  <1>5. NameComesFirst(p)'
    BY <1>2, <1>3 DEF NameComesFirst, VersionOf
  <1>6. Advances(p)'
    <2> SUFFICES ASSUME NEW ref \in Pending(p)', ref \in DOMAIN tags,
                        tags[ref].version # <<>>, Older(v, tags[ref].version)
                 PROVE  FALSE
      BY <1>3 DEF Advances, VersionOf
    <2> DEFINE w == tags[ref].version
    <2>1. PICK i \in 1..Len(refs) : ref.repo = repo /\ ref.tag = refs[i]
      BY <1>3 DEF Pending
    <2>2. /\ IsVersion(w)
          /\ \/ ref.tag.num = w
             \/ /\ ref.tag \in MovingTags(w)
                /\ [repo |-> ref.repo, tag |-> FullTag(w)] \in DOMAIN tags
      BY Zenon DEF PromoteInv, VersionsAreNamed
    <2>3. CASE ref.tag.num = w
      <3>1. refs[i] \in PromotionTags(in)
        BY <1>2
      <3>2. ref.tag = in.to.tag \/ ref.tag = FullTag(v) \/ ref.tag \in MovingTags(v)
        BY <2>1, <3>1 DEF PromotionTags
      <3>3. ref.tag \notin MovingTags(v)
        BY <1>1, <2>2, <2>3, MovingLengths DEF IsVersion
      <3>4. w = v
        <4>1. FullTag(v).num = v
          BY DEF FullTag
        <4>2. ref.tag.num = v
          BY <3>2, <3>3, <4>1, Zenon
        <4>3. QED
          BY <2>3, <4>2
      <3>5. QED
        BY <1>1, <3>4, NotOlder
    <2>4. CASE ref.tag \in MovingTags(w) /\ [repo |-> ref.repo, tag |-> FullTag(w)] \in DOMAIN tags
      <3>1. FullTag(w) \in TagsOf(repo)
        <4> DEFINE full == [repo |-> ref.repo, tag |-> FullTag(w)]
        <4>1. full.tag = FullTag(w) /\ full.repo = repo /\ full \in DOMAIN tags
          BY <2>1, <2>4
        <4> HIDE DEF full
        <4>2. full \in { other \in DOMAIN tags : other.repo = repo }
          BY <4>1
        <4>3. QED
          BY <4>1, <4>2, Zenon DEF TagsOf
      <3>2. QED
        BY <1>2, <2>1, <2>2, <2>4, <3>1
    <2>5. QED
      BY <2>2, <2>3, <2>4
  <1>7. QED
    BY <1>4, <1>5, <1>6 DEF PromotionInv

\* The listing of the tags keeps the invariant.
LEMMA ListTagsInvariant ==
    ASSUME PromoteInv, NEW p \in Promotions, ListTags(p)
    PROVE  PromoteInv'
  <1> DEFINE local(in) == [in |-> in, refs |-> SemVerRefs(in.to.tag, TagsOf(in.to.repo))]
  <1>1. PICK in \in PromoteInputs :
           \/ Go(p, "failed", NoLocal)
           \/ ParsePromoteInputs(in) /\ Go(p, "read", local(in))
    BY Zenon DEF ListTags
  <1>2. UNCHANGED tags /\ Begin(p, Promotions) /\ p \in Runs /\ Domains
    BY RunFacts DEF ListTags, PromoteInv
  <1>3. /\ \A q \in Runs : q # p => pc'[q] = pc[q] /\ loc'[q] = loc[q]
        /\ pc'[p] = "failed" \/ /\ pc'[p] = "read" /\ loc'[p] = local(in)
                                /\ ParsePromoteInputs(in)
    <2> HIDE DEF local
    <2>1. QED
      BY <1>1, <1>2, GoFacts
  <1>4. Domains'
    <2> HIDE DEF local
    <2>1. QED
      BY <1>1, <1>2, GoFacts DEF Begin, Domains
  <1>5. pc[p] = "start" /\ loc[p] = NoLocal /\ ~UnderWay(p)
    BY <1>2 DEF Begin, PromoteInv, UnderWay
  <1>6. \A q \in Promotions : UnderWay(q) =>
           q # p /\ q \in during'[p] /\ during'[q] = during[q] \cup {p}
    BY <1>2, <1>5 DEF Begin, Domains, UnderWay
  <1>7. InputsStay
    BY <1>3, <1>5, RunFacts DEF InputsStay
  <1>8. DuringGrows
    BY <1>6 DEF DuringGrows
  <1>9. UnderWay(p)' => PromotionInv(p)'
    BY <1>2, <1>3, ListTagsFacts DEF UnderWay
  <1>10. VersionsAreNamed(tags') /\ pc'[p] # "start"
    BY <1>2, <1>3 DEF PromoteInv
  <1>11. \A q \in Promotions : q # p /\ UnderWay(q) /\ UnderWay(p)' =>
            q \in during'[p] /\ p \in during'[q]
    BY <1>6
  <1> HIDE DEF local
  <1>12. QED
    BY <1>2, <1>3, <1>4, <1>7, <1>8, <1>9, <1>10, <1>11, InsideInvariant

\* The reading of the source keeps the invariant.
LEMMA CopyReadInvariant ==
    ASSUME PromoteInv, NEW p \in Promotions, CopyRead(p)
    PROVE  PromoteInv'
  <1> DEFINE local(image) == [in |-> loc[p].in, refs |-> loc[p].refs, image |-> image]
             from == loc[p].in.from
  <1>1. /\ pc[p] = "read" /\ UNCHANGED <<tags, during>>
        /\ \E image : \/ Go(p, "failed", loc[p])
                      \/ /\ Go(p, "write", local(image)) /\ image # NoImage
                         /\ from \in DOMAIN tags /\ image \in {tags[from], ImageOf(tags[from])}
    BY DEF CopyRead, Names
  <1>2. PICK image : \/ Go(p, "failed", loc[p])
                     \/ Go(p, "write", local(image)) /\ IsImage(image)
    BY <1>1, ImageOfFacts DEF PromoteInv
  <1>3. p \in Runs /\ Domains /\ UnderWay(p) /\ PromotionInv(p)
    BY <1>1, RunFacts DEF PromoteInv, UnderWay
  <1>4. /\ local(image) = [x \in DOMAIN local(image) |-> local(image)[x]]
        /\ "in" \in DOMAIN local(image) /\ "refs" \in DOMAIN local(image)
        /\ local(image).in = loc[p].in /\ local(image).refs = loc[p].refs
        /\ local(image).image = image
    OBVIOUS
  <1> HIDE DEF local
  <1>5. /\ \A q \in Runs : q # p => pc'[q] = pc[q] /\ loc'[q] = loc[q]
        /\ \/ pc'[p] = "failed" /\ loc'[p] = loc[p]
           \/ pc'[p] = "write" /\ loc'[p] = local(image) /\ IsImage(image)
        /\ Domains'
    BY <1>1, <1>2, <1>3, GoFacts DEF Domains
  <1>6. /\ loc[p] # NoLocal /\ loc'[p] # NoLocal
        /\ loc'[p].in = loc[p].in /\ loc'[p].refs = loc[p].refs
    <2>1. "refs" \in DOMAIN loc[p] /\ "refs" \in DOMAIN loc'[p]
      BY <1>3, <1>4, <1>5 DEF PromotionInv, LocalsAreWhole
    <2>2. QED
      BY <1>4, <1>5, <2>1 DEF NoLocal
  <1>7. InputsStay /\ DuringGrows
    BY <1>1, <1>5, <1>6, RunFacts DEF InputsStay, DuringGrows
  <1>8. ASSUME UnderWay(p)' PROVE PromotionInv(p)'
    <2>1. pc'[p] = "write" /\ loc'[p] = local(image) /\ IsImage(image)
      BY <1>5, <1>8 DEF UnderWay
    <2>2. LocalsAreWhole(p)'
      BY <1>3, <1>4, <2>1 DEF PromotionInv, LocalsAreWhole, VersionOf
    <2>3. NameComesFirst(p)'
      BY <1>1, <1>3, <1>6 DEF PromotionInv, NameComesFirst, VersionOf
    <2>4. Advances(p)'
      <3>1. Pending(p)' \subseteq Pending(p) /\ during[p] \subseteq during'[p]
        BY <1>1, <1>6 DEF Pending
      <3>2. Advances(p) /\ UNCHANGED tags
        BY <1>1, <1>3 DEF PromotionInv
      <3>3. QED
        BY <1>6, <1>7, <3>1, <3>2, AdvancesStays
    <2>5. QED
      BY <2>2, <2>3, <2>4 DEF PromotionInv
  <1>9. /\ VersionsAreNamed(tags') /\ pc'[p] # "start"
        /\ \A q \in Promotions : q # p /\ UnderWay(q) /\ UnderWay(p)' =>
              q \in during'[p] /\ p \in during'[q]
    BY <1>1, <1>3, <1>5 DEF PromoteInv
  <1>10. QED
    BY <1>1, <1>5, <1>7, <1>8, <1>9, InsideInvariant

\* What Head and Tail do.
LEMMA Rest ==
    ASSUME NEW S, NEW s \in Seq(S), s # <<>>
    PROVE  /\ Head(s) \in S /\ Head(s) = s[1] /\ 1 \in 1..Len(s)
           /\ Tail(s) \in Seq(S)
           /\ \A i \in 1..Len(Tail(s)) : i + 1 \in 1..Len(s) /\ Tail(s)[i] = s[i + 1]
  OBVIOUS

\* A tag is written, or the write has failed and may have taken effect all the same.
Promoted(p, ref, image) ==
    /\ pc[p] = "write" /\ UNCHANGED during
    /\ \A q \in Runs : q # p => pc'[q] = pc[q] /\ loc'[q] = loc[q]
    /\ Domains'
    /\ UNCHANGED tags \/ Written(ref, image)
    /\ \/ pc'[p] = "failed" /\ loc'[p] = loc[p]
       \/ /\ pc'[p] \in {"done", "read"} /\ (pc'[p] = "read" => Tail(loc[p].refs) # <<>>)
          /\ loc'[p] = [loc[p] EXCEPT !.refs = Tail(loc[p].refs)]
          /\ Written(ref, image)

\* What the writing of a tag does.
LEMMA CopyWriteFacts ==
    ASSUME Domains, NEW p \in Promotions, CopyWrite(p)
    PROVE  Promoted(p, [repo |-> loc[p].in.to.repo, tag |-> Head(loc[p].refs)],
                    [loc[p].image EXCEPT !.version = loc[p].in.to.tag.num])
  <1> DEFINE ref == [repo |-> loc[p].in.to.repo, tag |-> Head(loc[p].refs)]
             image == [loc[p].image EXCEPT !.version = loc[p].in.to.tag.num]
             to == IF Tail(loc[p].refs) = <<>> THEN "done" ELSE "read"
             local == [loc[p] EXCEPT !.refs = Tail(loc[p].refs)]
  <1>1. pc[p] = "write" /\ UNCHANGED during /\ Write(p, ref, image, to, local)
    BY Zenon DEF CopyWrite
  <1>2. to \in {"done", "read"} /\ (to = "read" => Tail(loc[p].refs) # <<>>)
    OBVIOUS
  <1> HIDE DEF ref, image, to, local
  <1>3. /\ UNCHANGED tags \/ Written(ref, image)
        /\ \/ Go(p, to, local) /\ Written(ref, image)
           \/ Go(p, "failed", loc[p])
    BY <1>1, WriteFacts
  <1>4. /\ \A q \in Runs : q # p => pc'[q] = pc[q] /\ loc'[q] = loc[q]
        /\ \/ pc'[p] = "failed" /\ loc'[p] = loc[p]
           \/ pc'[p] = to /\ loc'[p] = local /\ Written(ref, image)
        /\ Domains'
    BY <1>1, <1>3, RunFacts, GoFacts DEF Domains
  <1>5. Promoted(p, ref, image)
    BY <1>1, <1>2, <1>3, <1>4 DEF Promoted, local
  <1>6. QED
    BY <1>5 DEF ref, image

\* The writing of a tag keeps the invariant.
LEMMA CopyWriteInvariant ==
    ASSUME PromoteInv, NEW p \in Promotions, CopyWrite(p)
    PROVE  PromoteInv'
  <1> DEFINE v == loc[p].in.to.tag.num
             repo == loc[p].in.to.repo
             refs == loc[p].refs
             ref == [repo |-> repo, tag |-> Head(refs)]
             full == [repo |-> repo, tag |-> FullTag(v)]
             image == [loc[p].image EXCEPT !.version = v]
             local == [loc[p] EXCEPT !.refs = Tail(refs)]
             S == PromotionTags(loc[p].in)
  <1>1. Promoted(p, ref, image) /\ pc[p] = "write" /\ UnderWay(p) /\ p \in Runs
    BY CopyWriteFacts, RunFacts DEF PromoteInv, UnderWay, Promoted
  <1>2. /\ loc[p] = [x \in DOMAIN loc[p] |-> loc[p][x]]
        /\ "in" \in DOMAIN loc[p] /\ "refs" \in DOMAIN loc[p]
        /\ IsVersion(v) /\ refs \in Seq(S) /\ refs # <<>> /\ IsImage(loc[p].image)
        /\ NameComesFirst(p) /\ Advances(p)
    BY <1>1 DEF PromoteInv, PromotionInv, LocalsAreWhole, VersionOf
  <1>3. IsImage(image) /\ image.version = v
    BY <1>2 DEF IsImage
  <1>4. /\ local = [x \in DOMAIN local |-> local[x]] /\ "in" \in DOMAIN local /\ "refs" \in DOMAIN local
        /\ local.in = loc[p].in /\ local.refs = Tail(refs)
    BY <1>2
  <1>5. ref.repo = repo /\ ref.tag = Head(refs)
    OBVIOUS
  <1>6. /\ Head(refs) \in S /\ Head(refs) = refs[1] /\ 1 \in 1..Len(refs)
        /\ Tail(refs) \in Seq(S)
        /\ \A i \in 1..Len(Tail(refs)) : i + 1 \in 1..Len(refs) /\ Tail(refs)[i] = refs[i + 1]
    BY <1>2, Rest
  <1>7. full \in DOMAIN tags \/ Head(refs) = FullTag(v) \/ refs = <<loc[p].in.to.tag>>
    BY <1>2 DEF NameComesFirst, VersionOf
  <1> HIDE DEF image, local, ref, full
  <1>8. /\ \A q \in Runs : q # p => pc'[q] = pc[q] /\ loc'[q] = loc[q]
        /\ UNCHANGED tags \/ Written(ref, image)
        /\ UNCHANGED during /\ Domains' /\ pc'[p] \in {"failed", "done", "read"}
        /\ pc'[p] = "failed" => loc'[p] = loc[p]
        /\ pc'[p] # "failed" => loc'[p] = local /\ Written(ref, image)
        /\ pc'[p] = "read" => Tail(refs) # <<>>
    BY <1>1 DEF Promoted, local
  <1>9. /\ loc[p] # NoLocal /\ loc'[p] # NoLocal /\ loc'[p].in = loc[p].in
    <2>1. "refs" \in DOMAIN loc[p] /\ "refs" \in DOMAIN loc'[p]
      BY <1>2, <1>4, <1>8
    <2>2. QED
      BY <1>4, <1>8, <2>1 DEF NoLocal
  <1>10. InputsStay /\ DuringGrows
    BY <1>8, <1>9, RunFacts DEF InputsStay, DuringGrows
  <1>11. VersionsAreNamed(tags')
    <2>1. CASE UNCHANGED tags
      BY <2>1 DEF PromoteInv
    <2>2. CASE Written(ref, image)
      <3>1. ref.tag.num = v \/ (ref.tag \in MovingTags(v) /\ full \in DOMAIN tags)
        <4>1. FullTag(v).num = v
          BY DEF FullTag
        <4>2. CASE full \in DOMAIN tags
          <5>1. Head(refs) = loc[p].in.to.tag \/ Head(refs) = FullTag(v) \/ Head(refs) \in MovingTags(v)
            BY <1>6 DEF PromotionTags
          <5>2. QED
            BY <1>5, <4>1, <4>2, <5>1, Zenon
        <4>3. CASE Head(refs) = FullTag(v)
          BY <1>5, <4>1, <4>3, Zenon
        <4>4. CASE refs = <<loc[p].in.to.tag>>
          <5>1. Head(refs) = loc[p].in.to.tag
            BY <4>4
          <5>2. QED
            BY <1>5, <5>1, Zenon
        <4>5. QED
          BY <1>7, <4>2, <4>3, <4>4
      <3>2. full = [repo |-> ref.repo, tag |-> FullTag(image.version)]
        BY <1>3, <1>5 DEF full
      <3>3. VersionsAreNamed(tags)
        BY DEF PromoteInv
      <3>4. QED
        BY <1>2, <1>3, <2>2, <3>1, <3>2, <3>3, NamedStays
    <2>3. QED
      BY <1>8, <2>1, <2>2
  <1>12. ASSUME UnderWay(p)' PROVE PromotionInv(p)'
    <2>1. /\ pc'[p] = "read" /\ loc'[p] = local /\ Written(ref, image) /\ Tail(refs) # <<>>
      BY <1>8, <1>12 DEF UnderWay
    <2>2. LocalsAreWhole(p)'
      BY <1>2, <1>4, <1>6, <2>1 DEF LocalsAreWhole, VersionOf
    <2>3. NameComesFirst(p)'
      <3>1. full \in DOMAIN tags'
        <4>1. ASSUME refs = <<loc[p].in.to.tag>> PROVE FALSE
          <5>1. Len(refs) = 1
            BY <4>1
          <5> HIDE DEF refs
          <5>2. Len(Tail(refs)) \in Nat /\ Len(Tail(refs)) # 0
            <6>1. Tail(refs) \in Seq(S) /\ Tail(refs) # <<>>
              BY <1>6, <2>1, Zenon
            <6>2. QED
              BY <6>1, NotEmpty
          <5>3. 1 + 1 \in 1..1
            BY <1>6, <5>1, <5>2
          <5>4. QED
            BY <5>3
        <4>2. Head(refs) = FullTag(v) => ref = full
          BY DEF ref, full
        <4>3. QED
          BY <1>7, <2>1, <4>1, <4>2 DEF Written
      <3>2. QED
        BY <1>9, <3>1 DEF NameComesFirst, VersionOf, full
    <2>4. Advances(p)'
      <3>1. Pending(p)' \subseteq Pending(p)
        <4> SUFFICES ASSUME NEW other \in Pending(p)' PROVE other \in Pending(p)
          OBVIOUS
        <4>1. loc'[p].refs = Tail(refs) /\ loc'[p].in.to.repo = repo
          BY <1>4, <2>1
        <4>2. PICK i \in 1..Len(Tail(refs)) : other = [repo |-> repo, tag |-> Tail(refs)[i]]
          BY <4>1, Zenon DEF Pending
        <4>3. i + 1 \in 1..Len(refs) /\ other = [repo |-> repo, tag |-> refs[i + 1]]
          BY <1>6, <4>2
        <4>4. QED
          BY <4>3, Zenon DEF Pending
      <3>2. \A other \in DOMAIN tags' : \/ other \in DOMAIN tags /\ tags'[other] = tags[other]
                                        \/ tags'[other].version = v
        BY <1>3, <2>1 DEF Written
      <3>3. ~Older(VersionOf(p), v)
        BY <1>2, NotOlder DEF VersionOf
      <3>4. QED
        BY <1>2, <1>8, <1>9, <1>10, <3>1, <3>2, <3>3, AdvancesStays
    <2>5. QED
      BY <2>2, <2>3, <2>4 DEF PromotionInv
  <1>13. /\ pc'[p] # "start"
         /\ \A q \in Promotions : q # p /\ UnderWay(q) /\ UnderWay(p)' =>
               q \in during'[p] /\ p \in during'[q]
    BY <1>1, <1>8 DEF PromoteInv
  <1>14. \/ UNCHANGED tags
         \/ UnderWay(p) /\ \E r, i : Written(r, i) /\ IsImage(i) /\ i.version = VersionOf(p)
    BY <1>1, <1>3, <1>8 DEF VersionOf
  <1>15. QED
    BY <1>8, <1>10, <1>11, <1>12, <1>13, <1>14, InsideInvariant

-------------------------------------------------------------------------------
\* The invariant holds.
LEMMA PromoteInvariant ==
    Spec => []PromoteInv
  <1>1. Init => PromoteInv
    BY RunFacts, PublishedAssumption DEF Init, PromoteInv, Domains, IsImage, UnderWay
  <1>2. PromoteInv /\ [Next]_vars => PromoteInv'
    <2> SUFFICES ASSUME PromoteInv, [Next]_vars PROVE PromoteInv'
      OBVIOUS
    <2>1. CASE Next
      BY <2>1, BuildAndFetchKeepPromotions, ListTagsInvariant, CopyReadInvariant,
         CopyWriteInvariant DEF Next
    <2>2. CASE UNCHANGED vars
      <3>1. pc' = pc /\ loc' = loc /\ tags' = tags /\ during' = during
        BY <2>2 DEF vars
      <3>2. \A p \in Promotions : (UnderWay(p)' <=> UnderWay(p)) /\ (PromotionInv(p)' <=> PromotionInv(p))
        BY <3>1 DEF UnderWay, PromotionInv, LocalsAreWhole, NameComesFirst, Advances, Pending,
                    Explained, VersionOf
      <3>3. QED
        BY <3>1, <3>2 DEF PromoteInv, Domains
    <2>3. QED
      BY <2>1, <2>2
  <1>3. QED
    BY <1>1, <1>2, PTL DEF Spec

\* For any builds, promotions and fetches with any inputs, any versions in the registry
\* to begin with, and however often calls to the registry fail and wherever promotions
\* stop: a promotion takes a tag such as 1.2, 1 or latest from a newer version only if
\* the promotion of that version ran at the same time (SemVerRefs, CopyAll).
THEOREM RegistryMovingTagsAdvance ==
    Spec => MovingTagsAdvance
  <1> DEFINE Advance ==
        \A ref \in DOMAIN tags : \A p \in Promotions :
            /\ pc[p] = "write" /\ pc'[p] # "write"
            /\ tags'[ref] # tags[ref]
            /\ tags[ref].version # <<>> /\ Older(tags'[ref].version, tags[ref].version)
            => \E q \in during[p] \cap Promotions :
                  loc[q] # NoLocal /\ loc[q].in.to.tag.num = tags[ref].version
  <1>1. PromoteInv /\ [Next]_vars => [Advance]_vars
    <2> SUFFICES ASSUME PromoteInv, [Next]_vars, NEW ref \in DOMAIN tags, NEW p \in Promotions,
                        pc[p] = "write", pc'[p] # "write", tags'[ref] # tags[ref],
                        tags[ref].version # <<>>,
                        Older(tags'[ref].version, tags[ref].version)
                 PROVE  Explained(p, tags[ref].version)
      BY DEF Explained, VersionOf
    <2> DEFINE new == [repo |-> loc[p].in.to.repo, tag |-> Head(loc[p].refs)]
               image == [loc[p].image EXCEPT !.version = loc[p].in.to.tag.num]
    <2>1. Promoted(p, new, image)
      BY OnlyCopyWriteWrites, CopyWriteFacts DEF PromoteInv
    <2>2. PromotionInv(p)
      BY DEF PromoteInv, UnderWay
    <2>3. image.version = loc[p].in.to.tag.num
      BY <2>2 DEF PromotionInv, LocalsAreWhole, IsImage
    <2>4. new \in Pending(p)
      <3>1. Head(loc[p].refs) = loc[p].refs[1] /\ 1 \in 1..Len(loc[p].refs)
        BY <2>2, Rest DEF PromotionInv, LocalsAreWhole
      <3>2. QED
        BY <3>1 DEF Pending
    <2> HIDE DEF new, image
    <2>5. ref = new /\ tags'[ref].version = VersionOf(p)
      BY <2>1, <2>3 DEF Promoted, Written, VersionOf
    <2>6. QED
      BY <2>2, <2>4, <2>5 DEF PromotionInv, Advances
  <1>2. QED
    BY <1>1, PromoteInvariant, PTL DEF Spec, MovingTagsAdvance

-------------------------------------------------------------------------------
(*****************************************************************************)
(* What a build makes of its inputs                                          *)
(*****************************************************************************)

\* Sequences of sequences are put together to one.
LEMMA FlattenType ==
    ASSUME NEW S, NEW s, NEW n \in Nat, Len(s) = n, n = 0 => s = <<>>,
           \A i \in 1..n : s[i] \in Seq(S)
    PROVE  FlattenSeq(s) \in Seq(S)
  <1>1. CASE n = 0
    BY <1>1 DEF FlattenSeq
  <1>2. CASE n # 0
    <2> DEFINE Good(f) == f = [i \in 1..n |-> IF i = 1 THEN s[i] ELSE f[i - 1] \o s[i]]
               C == CHOOSE f : Good(f)
               step == [y \in (1..n) \X Seq(S) |-> IF y[1] = 1 THEN s[1] ELSE y[2] \o s[y[1]]]
    <2>1. FlattenSeq(s) = C[n]
      BY <1>2 DEF FlattenSeq
    <2>2. ASSUME NEW i \in 1..n, NEW x \in Seq(S)
          PROVE  /\ step[<<i, x>>] = IF i = 1 THEN s[i] ELSE x \o s[i]
                 /\ step[<<i, x>>] \in Seq(S)
      <3>1. step[<<i, x>>] = IF i = 1 THEN s[i] ELSE x \o s[i]
        OBVIOUS
      <3>2. x \o s[i] \in Seq(S) /\ s[i] \in Seq(S)
        OBVIOUS
      <3> HIDE DEF step
      <3>3. QED
        BY <3>1, <3>2
    <2> HIDE DEF step
    <2>3. <<>> \in Seq(S)
      OBVIOUS
    <2>4. PICK f : /\ f \in [0..n -> Seq(S)] /\ f[0] = <<>>
                   /\ \A i \in 1..n : f[i] = step[<<i, f[i - 1]>>]
      <3> DEFINE X == Seq(S)
                 base == <<>>
      <3>1. base \in X /\ \A i \in 1..n : \A x \in X : step[<<i, x>>] \in X
        BY <2>2, <2>3
      <3> HIDE DEF X, base
      <3>2. \E f : RecursiveTo(n, f, X, base, step)
        BY <3>1, BoundedRecursion
      <3>3. QED
        BY <3>2 DEF X, base, RecursiveTo
    <2> DEFINE g == [i \in 1..n |-> f[i]]
    <2>5. Good(g)
      <3>1. ASSUME NEW i \in 1..n PROVE g[i] = IF i = 1 THEN s[i] ELSE g[i - 1] \o s[i]
        <4>1. i - 1 \in 0..n /\ (i # 1 => i - 1 \in 1..n)
          OBVIOUS
        <4>2. f[i - 1] \in Seq(S)
          BY <2>4, <4>1
        <4>3. g[i] = f[i] /\ (i # 1 => g[i - 1] = f[i - 1])
          BY <4>1
        <4> HIDE DEF g
        <4>4. f[i] = IF i = 1 THEN s[i] ELSE f[i - 1] \o s[i]
          BY <2>2, <2>4, <4>2
        <4>5. QED
          BY <4>3, <4>4
      <3>2. g = [i \in 1..n |-> g[i]]
        OBVIOUS
      <3> HIDE DEF g
      <3>3. QED
        BY <3>1, <3>2, Zenon
    <2>6. Good(C)
      <3> HIDE DEF Good, g
      <3>1. QED
        BY <2>5
    <2>7. \A i \in 1..n : C[i] = IF i = 1 THEN s[i] ELSE C[i - 1] \o s[i]
      <3> HIDE DEF C
      <3>1. QED
        BY <2>6
    <2> HIDE DEF C, Good
    <2> DEFINE T == { i \in Nat : i + 1 <= n => C[i + 1] \in Seq(S) }
    <2>8. 0 \in T
      <3>1. 1 \in 1..n
        BY <1>2
      <3>2. C[1] = s[1]
        BY <2>7, <3>1
      <3>3. QED
        BY <3>1, <3>2
    <2>9. ASSUME NEW i \in Nat, i \in T PROVE i + 1 \in T
      <3> SUFFICES ASSUME i + 1 + 1 <= n PROVE C[i + 1 + 1] \in Seq(S)
        OBVIOUS
      <3>1. i + 1 + 1 \in 1..n /\ i + 1 + 1 # 1 /\ i + 1 + 1 - 1 = i + 1 /\ i + 1 <= n
        OBVIOUS
      <3>2. C[i + 1] \in Seq(S) /\ s[i + 1 + 1] \in Seq(S)
        BY <2>9, <3>1
      <3> DEFINE k == i + 1 + 1
      <3> HIDE DEF k
      <3>3. C[k] = IF k = 1 THEN s[k] ELSE C[k - 1] \o s[k]
        BY <2>7, <3>1, Zenon DEF k
      <3>4. C[k] = C[k - 1] \o s[k]
        BY <3>1, <3>3 DEF k
      <3>5. QED
        BY <3>1, <3>2, <3>4 DEF k
    <2> HIDE DEF T
    <2>10. \A i \in Nat : i \in T
      BY <2>8, <2>9, Induction
    <2>11. n - 1 \in Nat /\ n - 1 + 1 = n
      BY <1>2
    <2>12. QED
      BY <2>1, <2>10, <2>11 DEF T
  <1>3. QED
    BY <1>1, <1>2

\* Of some artifacts, those for a platform.
LEMMA ForPlatformType ==
    ASSUME NEW S, NEW s \in Seq(S), NEW p
    PROVE  ForPlatform(s, p) \in Seq(S)
  <1> DEFINE n == Len(s)
             Body(i, x) == IF s[i].platform = p THEN Append(x, s[i]) ELSE x
             Good(f) == f = [i \in 0..n |-> IF i = 0 THEN <<>> ELSE Body(i, f[i - 1])]
             C == CHOOSE f : Good(f)
             step == [y \in (1..n) \X Seq(S) |-> Body(y[1], y[2])]
  <1>1. ForPlatform(s, p) = C[n]
    BY DEF ForPlatform
  <1>2. n \in Nat /\ \A i \in 1..n : s[i] \in S
    OBVIOUS
  <1>3. ASSUME NEW i \in 1..n, NEW x \in Seq(S) PROVE Body(i, x) \in Seq(S)
    BY <1>2
  <1> HIDE DEF n, Body
  <1>4. ASSUME NEW i \in 1..n, NEW x \in Seq(S) PROVE step[<<i, x>>] = Body(i, x)
    OBVIOUS
  <1> HIDE DEF step
  <1>5. PICK f : /\ f \in [0..n -> Seq(S)] /\ f[0] = <<>>
                 /\ \A i \in 1..n : f[i] = step[<<i, f[i - 1]>>]
    <2> DEFINE X == Seq(S)
               base == <<>>
    <2>1. base \in X /\ \A i \in 1..n : \A x \in X : step[<<i, x>>] \in X
      BY <1>3, <1>4
    <2> HIDE DEF X, base
    <2>2. \E f : RecursiveTo(n, f, X, base, step)
      BY <1>2, <2>1, BoundedRecursion
    <2>3. QED
      BY <2>2 DEF X, base, RecursiveTo
  <1>6. Good(f)
    <2>1. ASSUME NEW i \in 0..n PROVE f[i] = IF i = 0 THEN <<>> ELSE Body(i, f[i - 1])
      <3>1. i # 0 => i \in 1..n /\ i - 1 \in 0..n
        BY <1>2
      <3>2. QED
        BY <1>4, <1>5, <3>1
    <2>2. f = [i \in 0..n |-> f[i]]
      BY <1>5
    <2>3. QED
      BY <2>1, <2>2, Zenon
  <1>7. Good(C)
    <2> HIDE DEF Good
    <2>1. QED
      BY <1>6
  <1>8. C[0] = <<>> /\ \A i \in 1..n : C[i] = Body(i, C[i - 1])
    <2> HIDE DEF C
    <2>1. \A i \in 0..n : C[i] = IF i = 0 THEN <<>> ELSE Body(i, C[i - 1])
      BY <1>7
    <2>2. 0 \in 0..n /\ \A i \in 1..n : i \in 0..n /\ i # 0
      BY <1>2
    <2>3. QED
      BY <2>1, <2>2
  <1> HIDE DEF C, Good
  <1> DEFINE T == { i \in Nat : i <= n => C[i] \in Seq(S) }
  <1>9. 0 \in T
    <2>1. <<>> \in Seq(S)
      OBVIOUS
    <2>2. C[0] \in Seq(S)
      BY <1>8, <2>1, Zenon
    <2>3. QED
      BY <2>2
  <1>10. ASSUME NEW i \in Nat, i \in T PROVE i + 1 \in T
    <2> SUFFICES ASSUME i + 1 <= n PROVE C[i + 1] \in Seq(S)
      OBVIOUS
    <2>1. i + 1 \in 1..n /\ i + 1 - 1 = i /\ i <= n
      BY <1>2
    <2>2. C[i] \in Seq(S) /\ C[i + 1] = Body(i + 1, C[i])
      BY <1>8, <1>10, <2>1
    <2>3. QED
      BY <1>3, <2>1, <2>2
  <1> HIDE DEF T
  <1>11. \A i \in Nat : i \in T
    BY <1>9, <1>10, Induction
  <1>12. QED
    BY <1>1, <1>2, <1>11 DEF T

\* The platforms that some artifacts are for.
LEMMA PlatformsFacts ==
    ASSUME NEW S, NEW s \in Seq(S)
    PROVE  LET P == { s[i].platform : i \in 1..Len(s) }
           IN  Platforms(s) \in Seq(P) /\ ToSet(Platforms(s)) = P
  <1> DEFINE n == Len(s)
             P == { s[i].platform : i \in 1..n }
             Body(i, x) == IF s[i].platform \in ToSet(x) THEN x ELSE Append(x, s[i].platform)
             Good(f) == f = [i \in 0..n |-> IF i = 0 THEN <<>> ELSE Body(i, f[i - 1])]
             C == CHOOSE f : Good(f)
             step == [y \in (1..n) \X Seq(P) |-> Body(y[1], y[2])]
  <1>1. Platforms(s) = C[n]
    BY DEF Platforms
  <1>2. n \in Nat /\ \A i \in 1..n : s[i].platform \in P
    OBVIOUS
  <1>3. ASSUME NEW i \in 1..n, NEW x \in Seq(P)
        PROVE  Body(i, x) \in Seq(P) /\ ToSet(Body(i, x)) = ToSet(x) \cup {s[i].platform}
    <2> DEFINE q == s[i].platform
    <2>1. q \in P
      BY <1>2
    <2> HIDE DEF q, P
    <2>2. Append(x, q) \in Seq(P) /\ ToSet(Append(x, q)) = ToSet(x) \cup {q}
      <3>1. Len(x) \in Nat /\ DOMAIN x = 1..Len(x)
        OBVIOUS
      <3> DEFINE y == Append(x, q)
      <3>2. /\ y \in Seq(P) /\ DOMAIN y = 1..Len(x) + 1 /\ y[Len(x) + 1] = q
            /\ \A k \in 1..Len(x) : y[k] = x[k]
        BY <2>1, <3>1
      <3> HIDE DEF y
      <3>3. /\ \A k \in DOMAIN x : k \in DOMAIN y /\ y[k] = x[k]
            /\ Len(x) + 1 \in DOMAIN y
            /\ \A k \in DOMAIN y : k \in DOMAIN x \/ k = Len(x) + 1
        BY <3>1, <3>2
      <3>4. ToSet(y) = ToSet(x) \cup {q}
        BY <3>2, <3>3 DEF ToSet
      <3>5. QED
        BY <3>2, <3>4 DEF y
    <2>3. CASE q \in ToSet(x)
      BY <2>3 DEF q
    <2>4. CASE q \notin ToSet(x)
      BY <2>2, <2>4 DEF q
    <2>5. QED
      BY <2>3, <2>4
  <1> HIDE DEF n, Body
  <1>4. ASSUME NEW i \in 1..n, NEW x \in Seq(P) PROVE step[<<i, x>>] = Body(i, x)
    <2> HIDE DEF P
    <2>1. QED
      OBVIOUS
  <1> HIDE DEF step
  <1>5. PICK f : /\ f \in [0..n -> Seq(P)] /\ f[0] = <<>>
                 /\ \A i \in 1..n : f[i] = step[<<i, f[i - 1]>>]
    <2> DEFINE X == Seq(P)
               base == <<>>
    <2>1. base \in X /\ \A i \in 1..n : \A x \in X : step[<<i, x>>] \in X
      <3> HIDE DEF P
      <3>1. QED
        BY <1>3, <1>4
    <2> HIDE DEF X, base
    <2>2. \E f : RecursiveTo(n, f, X, base, step)
      BY <1>2, <2>1, BoundedRecursion
    <2>3. QED
      BY <2>2 DEF X, base, RecursiveTo
  <1> HIDE DEF P
  <1>6. Good(f)
    <2>1. ASSUME NEW i \in 0..n PROVE f[i] = IF i = 0 THEN <<>> ELSE Body(i, f[i - 1])
      <3>1. i # 0 => i \in 1..n /\ i - 1 \in 0..n
        BY <1>2
      <3>2. QED
        BY <1>4, <1>5, <3>1
    <2>2. f = [i \in 0..n |-> f[i]]
      BY <1>5
    <2>3. QED
      BY <2>1, <2>2, Zenon
  <1>7. Good(C)
    <2> HIDE DEF Good
    <2>1. QED
      BY <1>6
  <1>8. C[0] = <<>> /\ \A i \in 1..n : C[i] = Body(i, C[i - 1])
    <2> HIDE DEF C
    <2>1. \A i \in 0..n : C[i] = IF i = 0 THEN <<>> ELSE Body(i, C[i - 1])
      BY <1>7
    <2>2. 0 \in 0..n /\ \A i \in 1..n : i \in 0..n /\ i # 0
      BY <1>2
    <2>3. QED
      BY <2>1, <2>2
  <1> HIDE DEF C, Good
  <1> DEFINE Q(i) == { s[k].platform : k \in 1..i }
             T == { i \in Nat : i <= n => C[i] \in Seq(P) /\ ToSet(C[i]) = Q(i) }
  <1>9. 0 \in T
    <2>1. ToSet(<<>>) = {} /\ Q(0) = {} /\ <<>> \in Seq(P)
      BY DEF ToSet
    <2> HIDE DEF Q
    <2>2. C[0] \in Seq(P) /\ ToSet(C[0]) = Q(0)
      BY <1>8, <2>1, Zenon
    <2>3. QED
      BY <2>2
  <1>10. ASSUME NEW i \in Nat, i \in T PROVE i + 1 \in T
    <2> SUFFICES ASSUME i + 1 <= n PROVE C[i + 1] \in Seq(P) /\ ToSet(C[i + 1]) = Q(i + 1)
      OBVIOUS
    <2>1. i + 1 \in 1..n /\ i + 1 - 1 = i /\ i <= n
      BY <1>2
    <2>2. C[i] \in Seq(P) /\ ToSet(C[i]) = Q(i) /\ C[i + 1] = Body(i + 1, C[i])
      BY <1>8, <1>10, <2>1
    <2>3. Q(i + 1) = Q(i) \cup {s[i + 1].platform}
      <3>1. i + 1 \in 1..i + 1 /\ \A k \in 1..i + 1 : k = i + 1 \/ k \in 1..i
        OBVIOUS
      <3>2. \A k \in 1..i : k \in 1..i + 1
        OBVIOUS
      <3>3. QED
        BY <3>1, <3>2
    <2> HIDE DEF Q
    <2>4. QED
      BY <1>3, <2>1, <2>2, <2>3
  <1> HIDE DEF T
  <1>11. \A i \in Nat : i \in T
    BY <1>9, <1>10, Induction
  <1>12. C[n] \in Seq(P) /\ ToSet(C[n]) = Q(n)
    <2> HIDE DEF Q
    <2>1. QED
      BY <1>2, <1>11 DEF T
  <1>13. QED
    BY <1>1, <1>12 DEF P, n

FileSet == [path : Seq(STRING), content : Seq(STRING)]

\* The artifacts that may be for a platform of P.
ArtifactsFor(P) == [platform : P, src : STRING, dst : Seq(STRING)]

\* The artifacts of one platform.
LEMMA BuildArtifactsFacts ==
    ASSUME NEW P, NEW platform \in P, NEW files \in Seq(STRING \X Seq(STRING))
    PROVE  BuildArtifacts(platform, files) \in Seq(ArtifactsFor(P))
  <1> DEFINE A(i) == NewArtifact(platform, files[i][1], files[i][2])
             n == Len(files)
  <1>1. n \in Nat /\ DOMAIN files = 1..n /\ \A i \in 1..n : files[i] \in STRING \X Seq(STRING)
    OBVIOUS
  <1>2. ASSUME NEW i \in 1..n PROVE A(i) \in ArtifactsFor(P)
    <2>1. files[i][1] \in STRING /\ files[i][2] \in Seq(STRING)
      BY <1>1
    <2>2. QED
      BY <2>1 DEF NewArtifact, ArtifactsFor
  <1>3. BuildArtifacts(platform, files) = [i \in 1..n |-> A(i)]
    BY <1>1 DEF BuildArtifacts
  <1>4. n \in Nat
    BY <1>1
  <1> HIDE DEF A, n
  <1>5. QED
    BY <1>2, <1>3, <1>4

\* The artifacts of all platforms.
LEMMA ParsePlatformsFacts ==
    ASSUME NEW in \in BuildInputs
    PROVE  LET P == { in.platforms[i].platform : i \in DOMAIN in.platforms }
           IN  /\ ParsePlatforms(in.platforms) \in Seq(ArtifactsFor(P))
               /\ ParseCommon(in.common) \in Seq(ArtifactsFor({PlatformGeneric}))
  <1> DEFINE ps == in.platforms
             n == Len(ps)
             P == { ps[i].platform : i \in DOMAIN ps }
             A(i) == BuildArtifacts(ps[i].platform, ps[i].files)
             s == [i \in 1..n |-> A(i)]
  <1>1. /\ n \in Nat /\ DOMAIN ps = 1..n
        /\ \A i \in 1..n : ps[i].files \in Seq(STRING \X Seq(STRING))
        /\ in.common \in Seq(STRING \X Seq(STRING))
    <2> DEFINE R == [platform : STRING, files : Seq(STRING \X Seq(STRING))]
    <2>1. ps \in Seq(R) /\ in.common \in Seq(STRING \X Seq(STRING))
      BY InputsAssumption
    <2> HIDE DEF ps, R
    <2>2. n \in Nat /\ DOMAIN ps = 1..n /\ \A i \in 1..n : ps[i] \in R
      BY <2>1
    <2>3. \A x \in R : x.files \in Seq(STRING \X Seq(STRING))
      BY DEF R
    <2>4. QED
      BY <2>1, <2>2, <2>3
  <1> HIDE DEF ps
  <1>2. ASSUME NEW i \in 1..n PROVE A(i) \in Seq(ArtifactsFor(P))
    <2> DEFINE p == ps[i].platform
               files == ps[i].files
    <2>1. p \in P /\ files \in Seq(STRING \X Seq(STRING))
      BY <1>1
    <2> HIDE DEF p, files, P
    <2>2. BuildArtifacts(p, files) \in Seq(ArtifactsFor(P))
      BY <2>1, BuildArtifactsFacts
    <2>3. QED
      BY <2>2 DEF p, files
  <1>3. ParsePlatforms(ps) = FlattenSeq(s)
    BY <1>1 DEF ParsePlatforms
  <1> HIDE DEF A, P, n
  <1>4. Len(s) = n /\ (n = 0 => s = <<>>) /\ \A i \in 1..n : s[i] = A(i)
    BY <1>1
  <1> HIDE DEF s
  <1>5. \A i \in 1..n : s[i] \in Seq(ArtifactsFor(P))
    BY <1>2, <1>4
  <1>6. FlattenSeq(s) \in Seq(ArtifactsFor(P))
    BY <1>1, <1>4, <1>5, FlattenType
  <1>7. ParseCommon(in.common) \in Seq(ArtifactsFor({PlatformGeneric}))
    <2> DEFINE g == PlatformGeneric
    <2> HIDE DEF g
    <2>1. BuildArtifacts(g, in.common) \in Seq(ArtifactsFor({g}))
      BY <1>1, BuildArtifactsFacts
    <2>2. QED
      BY <2>1 DEF g, ParseCommon
  <1>8. QED
    BY <1>3, <1>6, <1>7 DEF P, ps

\* The archive of an artifact whose source exists.
LEMMA BuildLayerFacts ==
    ASSUME NEW a, a.src \in DOMAIN Sources, a.dst \in Seq(STRING)
    PROVE  BuildLayer(a) \in Seq(FileSet)
  <1> DEFINE s == Sources[a.src]
             n == Len(s)
             E(i) == [path |-> a.dst \o s[i].path, content |-> s[i].content]
  <1>1. s \in Seq(FileSet)
    BY SourcesAssumption DEF FileSet
  <1> HIDE DEF s
  <1>2. n \in Nat /\ DOMAIN s = 1..n /\ \A i \in 1..n : s[i] \in FileSet
    BY <1>1
  <1>3. ASSUME NEW i \in 1..n PROVE E(i) \in FileSet
    <2> DEFINE q == s[i].path
    <2>1. q \in Seq(STRING) /\ s[i].content \in Seq(STRING) /\ a.dst \in Seq(STRING)
      BY <1>2 DEF FileSet
    <2> HIDE DEF q
    <2>2. a.dst \o q \in Seq(STRING)
      BY <2>1
    <2>3. QED
      BY <2>1, <2>2 DEF FileSet, q
  <1>4. BuildLayer(a) = [i \in 1..n |-> E(i)]
    BY <1>2 DEF BuildLayer, s
  <1> HIDE DEF E, n
  <1>5. QED
    BY <1>2, <1>3, <1>4

-------------------------------------------------------------------------------
(*****************************************************************************)
(* Fetches                                                                   *)
(*****************************************************************************)

\* A build has its sources, and what it makes of its inputs.
Built(in) ==
    LET platformSpecific == ParsePlatforms(in.platforms)
    IN  platformSpecific = <<>> \/ SourcesExist(ParseCommon(in.common) \o platformSpecific)
IndexOf(in) == BuildImageIndex(ParseCommon(in.common), ParsePlatforms(in.platforms))
IsBuilt(place, local) ==
    place \in {"done", "failed"} /\ local.in \in BuildInputs /\ Built(local.in)

IsWhole(image) ==
    /\ image = [x \in DOMAIN image |-> image[x]]
    /\ {"kind", "by", "version", "manifests"} \subseteq DOMAIN image

\* An index that a build has pushed is what the build made of its inputs.
Genuine(image, places, locals) ==
    /\ IsWhole(image)
    /\ image.by \in Builds =>
          /\ IsBuilt(places[image.by], locals[image.by])
          /\ image.kind = "index" => image.manifests = IndexOf(locals[image.by].in)

\* Directory dir holds the first n of the files in all, the last one of each path.
Laid(all, n, dir) ==
    /\ DOMAIN dir = { all[i].path : i \in 1..n }
    /\ \A path \in DOMAIN dir : dir[path] \in Seq(STRING)
    /\ \A i \in 1..n : (\A k \in (i + 1)..n : all[k].path # all[i].path) =>
           IsPrefix(all[i].content, dir[all[i].path])

\* A fetch that writes the files of a build has written the first of them.
Unpacks(local, in) ==
    \E platform \in Picked(local.in.platform, in) :
        LET all == FilesFor(in, platform) IN
        /\ all \in Seq(FileSet)
        /\ \E n \in 0..Len(all) :
              /\ local.entries = SubSeq(all, n + 1, Len(all))
              /\ Laid(all, n, local.dir)
HasAll(local) ==
    /\ local = [x \in DOMAIN local |-> local[x]]
    /\ {"in", "by", "dir", "entries"} \subseteq DOMAIN local
Fetching(place, local, places, locals) ==
    /\ HasAll(local)
    /\ place = "done" => local.entries = <<>>
    /\ local.by \in Builds => /\ IsBuilt(places[local.by], locals[local.by])
                              /\ Unpacks(local, locals[local.by].in)

\* The inductive invariant.
FetchInv ==
    /\ \A b \in Builds : pc[b] = "checked" => loc[b].in \in BuildInputs
    /\ \A ref \in DOMAIN tags : Genuine(tags[ref], pc, loc)
    /\ \A p \in Promotions : pc[p] = "write" => Genuine(loc[p].image, pc, loc)
    /\ \A f \in Fetches : pc[f] \in {"layers", "done"} => Fetching(pc[f], loc[f], pc, loc)

\* The elements of two sequences.
LEMMA ConcatElements ==
    ASSUME NEW A, NEW B, NEW s \in Seq(A), NEW t \in Seq(B)
    PROVE  /\ s \in Seq(ToSet(s \o t)) /\ t \in Seq(ToSet(s \o t))
           /\ \A x \in ToSet(s \o t) : x \in A \/ x \in B
  <1> DEFINE u == s \o t
             S == ToSet(u)
             m == Len(s)
             n == Len(t)
  <1>1. /\ m \in Nat /\ n \in Nat /\ DOMAIN s = 1..m /\ DOMAIN t = 1..n
        /\ \A i \in 1..m : s[i] \in A
        /\ \A i \in 1..n : t[i] \in B
    OBVIOUS
  <1>2. /\ DOMAIN u = 1..m + n
        /\ \A i \in 1..m : u[i] = s[i]
        /\ \A i \in 1..n : u[m + i] = t[i]
    <2>1. s \in Seq(A \cup B) /\ t \in Seq(A \cup B)
      OBVIOUS
    <2>2. QED
      BY <1>1, <2>1
  <1> HIDE DEF u
  <1>3. \A i \in 1..m : s[i] \in S
    BY <1>1, <1>2 DEF ToSet
  <1>4. \A i \in 1..n : t[i] \in S
    <2> TAKE i \in 1..n
    <2>1. m + i \in 1..m + n
      BY <1>1
    <2>2. QED
      BY <1>2, <2>1 DEF ToSet
  <1>5. \A x \in S : x \in A \/ x \in B
    <2> TAKE x \in S
    <2>1. PICK i \in 1..m + n : x = u[i]
      BY <1>2 DEF ToSet
    <2>2. CASE i \in 1..m
      BY <1>1, <1>2, <2>1, <2>2
    <2>3. CASE i \notin 1..m
      <3>1. i - m \in 1..n /\ m + (i - m) = i
        BY <1>1, <2>1, <2>3
      <3>2. QED
        BY <1>1, <1>2, <2>1, <3>1
    <2>4. QED
      BY <2>2, <2>3
  <1> HIDE DEF S
  <1>6. s \in Seq(S)
    BY <1>3
  <1>7. t \in Seq(S)
    BY <1>4
  <1>8. QED
    BY <1>5, <1>6, <1>7 DEF S, u

\* All files of an image that was built.
LEMMA FilesForType ==
    ASSUME NEW in \in BuildInputs, Built(in), NEW platform \in Offered(in)
    PROVE  FilesFor(in, platform) \in Seq(FileSet)
  <1> DEFINE common == ParseCommon(in.common)
             ps == ParsePlatforms(in.platforms)
             P == { in.platforms[i].platform : i \in DOMAIN in.platforms }
             S == ToSet(common \o ps)
             all == common \o ForPlatform(ps, platform)
             n == Len(all)
             layers == [i \in 1..n |-> BuildLayer(all[i])]
  <1>1. common \in Seq(ArtifactsFor({PlatformGeneric})) /\ ps \in Seq(ArtifactsFor(P))
    BY ParsePlatformsFacts
  <1>2. SourcesExist(common \o ps)
    <2>1. PICK a \in ToSet(ps) : TRUE
      BY DEF Offered
    <2>2. ps # <<>>
      BY <2>1 DEF ToSet
    <2> HIDE DEF common, ps
    <2>3. QED
      BY <2>2 DEF Built, common, ps
  <1>3. FilesFor(in, platform) = FlattenSeq(BuildImageLayers(all))
    BY DEF FilesFor
  <1> HIDE DEF common, ps, P
  <1>4. \A a \in S : a.src \in DOMAIN Sources
    BY <1>2 DEF SourcesExist
  <1>5. /\ common \in Seq(S) /\ ps \in Seq(S)
        /\ \A a \in S : a \in ArtifactsFor({PlatformGeneric}) \/ a \in ArtifactsFor(P)
    BY <1>1, ConcatElements
  <1> HIDE DEF S
  <1>6. \A a \in S : BuildLayer(a) \in Seq(FileSet)
    <2> TAKE a \in S
    <2>1. a.dst \in Seq(STRING)
      BY <1>5 DEF ArtifactsFor
    <2>2. QED
      BY <1>4, <2>1, BuildLayerFacts
  <1>7. all \in Seq(S)
    <2>1. ForPlatform(ps, platform) \in Seq(S)
      BY <1>5, ForPlatformType
    <2>2. QED
      BY <1>5, <2>1
  <1> HIDE DEF all
  <1>8. n \in Nat /\ DOMAIN all = 1..n /\ \A i \in 1..n : all[i] \in S
    BY <1>7
  <1>9. BuildImageLayers(all) = layers
    BY <1>8 DEF BuildImageLayers
  <1> HIDE DEF n
  <1>10. Len(layers) = n /\ (n = 0 => layers = <<>>) /\ \A i \in 1..n : layers[i] = BuildLayer(all[i])
    BY <1>8
  <1> HIDE DEF layers
  <1>11. \A i \in 1..n : layers[i] \in Seq(FileSet)
    BY <1>6, <1>8, <1>10
  <1>12. FlattenSeq(layers) \in Seq(FileSet)
    BY <1>8, <1>10, <1>11, FlattenType
  <1>13. QED
    BY <1>3, <1>9, <1>12

\* What is found for one platform fits best.
LEMMA FindFacts ==
    ASSUME NEW host, NEW manifests, NEW n \in Nat, DOMAIN manifests = 1..n,
           \A i \in 1..n : Rank(host, manifests[i].platform) \in Nat
    PROVE  LET found == FindManifestForPlatform(host, manifests)
               fit == { i \in 1..n : Rank(host, manifests[i].platform) # 0 }
           IN  \/ found = 0 /\ fit = {}
               \/ /\ found # 0 /\ found \in fit
                  /\ \A k \in fit : Rank(host, manifests[found].platform)
                                    <= Rank(host, manifests[k].platform)
  <1> DEFINE rank(i) == Rank(host, manifests[i].platform)
             fit == { i \in 1..n : rank(i) # 0 }
             First(i) == \A k \in fit : \/ rank(i) < rank(k)
                                        \/ rank(i) = rank(k) /\ i <= k
  <1>1. FindManifestForPlatform(host, manifests) =
           IF fit = {} THEN 0 ELSE CHOOSE i \in fit : First(i)
    BY DEF FindManifestForPlatform
  <1>2. \A i \in 1..n : rank(i) \in Nat
    OBVIOUS
  <1> HIDE DEF rank
  <1>3. \A i \in fit : i \in 1..n /\ rank(i) \in Nat /\ i # 0
    BY <1>2
  <1>4. CASE fit = {}
    BY <1>1, <1>4 DEF rank
  <1>5. CASE fit # {}
    <2> DEFINE R == { rank(i) : i \in fit }
    <2> HIDE DEF fit
    <2>1. R \subseteq Nat /\ R # {}
      BY <1>3, <1>5
    <2>2. PICK r \in R : \A q \in R : r <= q
      BY <2>1, Smallest
    <2> DEFINE I == { i \in fit : rank(i) = r }
    <2>3. I \subseteq Nat /\ I # {}
      BY <1>3, <2>2
    <2>4. PICK i \in I : \A k \in I : i <= k
      <3> HIDE DEF I
      <3>1. QED
        BY <2>3, Smallest
    <2>5. i \in fit /\ rank(i) = r
      BY <2>4
    <2>6. First(i)
      <3> SUFFICES ASSUME NEW k \in fit PROVE rank(i) < rank(k) \/ (rank(i) = rank(k) /\ i <= k)
        OBVIOUS
      <3>1. rank(k) \in R /\ r <= rank(k)
        BY <2>2
      <3>2. CASE rank(k) = r
        BY <2>4, <2>5, <3>2
      <3>3. CASE rank(k) # r
        BY <1>3, <2>5, <3>1, <3>3
      <3>4. QED
        BY <3>2, <3>3
    <2> HIDE DEF First
    <2> DEFINE found == CHOOSE x \in fit : First(x)
    <2>7. found \in fit /\ First(found)
      BY <2>5, <2>6
    <2> HIDE DEF found
    <2>8. ASSUME NEW k \in fit PROVE rank(found) <= rank(k)
      <3>1. rank(found) < rank(k) \/ rank(found) = rank(k)
        BY <2>7 DEF First
      <3>2. rank(found) \in Nat /\ rank(k) \in Nat
        BY <1>3, <2>7
      <3>3. QED
        BY <3>1, <3>2
    <2>9. FindManifestForPlatform(host, manifests) = found
      BY <1>1, <1>5 DEF found
    <2>10. QED
      BY <1>3, <2>7, <2>8, <2>9 DEF fit, rank
  <1>6. QED
    BY <1>4, <1>5

Hosts == { f.platform : f \in FetchInputs } \cup { PlatformGeneric }

\* The index of a build has one image for each platform that has files.
LEMMA IndexFacts ==
    ASSUME NEW in \in BuildInputs
    PROVE  \E n \in Nat :
              /\ DOMAIN IndexOf(in) = 1..n
              /\ \A i \in 1..n : /\ IndexOf(in)[i].platform \in Offered(in)
                                 /\ FlattenSeq(IndexOf(in)[i].layers)
                                    = FilesFor(in, IndexOf(in)[i].platform)
              /\ \A p \in Offered(in) : \E i \in 1..n : IndexOf(in)[i].platform = p
              /\ \A p \in Offered(in), host \in Hosts : Rank(host, p) \in Nat
  <1> DEFINE common == ParseCommon(in.common)
             ps == ParsePlatforms(in.platforms)
             P == { in.platforms[i].platform : i \in DOMAIN in.platforms }
             Q == { ps[i].platform : i \in 1..Len(ps) }
             all == Platforms(ps)
             n == Len(all)
  <1>1. ps \in Seq(ArtifactsFor(P))
    BY ParsePlatformsFacts
  <1>2. IndexOf(in) = [i \in DOMAIN all |->
              [platform |-> all[i],
               layers |-> BuildImageLayers(common \o ForPlatform(ps, all[i]))]]
    BY DEF IndexOf, BuildImageIndex
  <1>3. \A p : FilesFor(in, p) = FlattenSeq(BuildImageLayers(common \o ForPlatform(ps, p)))
    BY DEF FilesFor
  <1>4. Offered(in) = { a.platform : a \in ToSet(ps) }
    BY DEF Offered
  <1>5. \A p \in P, host \in Hosts : Rank(host, p) \in Nat
    BY RankAssumption DEF Hosts
  <1> HIDE DEF common, ps, P
  <1>6. /\ Offered(in) = Q
        /\ \A p \in Q : p \in P
    <2>1. DOMAIN ps = 1..Len(ps) /\ \A i \in 1..Len(ps) : ps[i] \in ArtifactsFor(P)
      BY <1>1
    <2>2. \A a \in ArtifactsFor(P) : a.platform \in P
      BY DEF ArtifactsFor
    <2>3. QED
      BY <1>4, <2>1, <2>2 DEF ToSet
  <1>7. all \in Seq(Q) /\ ToSet(all) = Q
    BY <1>1, PlatformsFacts
  <1> HIDE DEF Q, all
  <1>8. n \in Nat /\ DOMAIN all = 1..n /\ \A i \in 1..n : all[i] \in Q
    BY <1>7
  <1>9. \A p \in Q : \E i \in 1..n : all[i] = p
    BY <1>7, <1>8 DEF ToSet
  <1> HIDE DEF n
  <1>10. /\ DOMAIN IndexOf(in) = 1..n
         /\ \A i \in 1..n : /\ IndexOf(in)[i].platform = all[i]
                            /\ IndexOf(in)[i].layers = BuildImageLayers(common \o ForPlatform(ps, all[i]))
    BY <1>2, <1>8
  <1>11. QED
    BY <1>3, <1>5, <1>6, <1>8, <1>9, <1>10

\* What is found in the index of a build for one platform.
LEMMA FindBest ==
    ASSUME NEW in \in BuildInputs, NEW host \in Hosts
    PROVE  LET found == FindManifestForPlatform(host, IndexOf(in))
           IN  \/ found = 0 /\ Best(host, in) = {}
               \/ /\ found # 0 /\ found \in DOMAIN IndexOf(in)
                  /\ IndexOf(in)[found].platform \in Best(host, in)
  <1> DEFINE m == IndexOf(in)
             offered == Offered(in)
             found == FindManifestForPlatform(host, m)
  <1>1. PICK n \in Nat :
           /\ DOMAIN m = 1..n
           /\ \A i \in 1..n : m[i].platform \in offered
           /\ \A p \in offered : \E i \in 1..n : m[i].platform = p
           /\ \A p \in offered, h \in Hosts : Rank(h, p) \in Nat
    BY IndexFacts
  <1>2. Best(host, in) = { p \in offered : /\ Rank(host, p) # 0
                                           /\ \A q \in offered : Rank(host, q) # 0 =>
                                                 Rank(host, p) <= Rank(host, q) }
    BY DEF Best
  <1> HIDE DEF m, offered
  <1>3. \A i \in 1..n : Rank(host, m[i].platform) \in Nat
    BY <1>1
  <1> DEFINE fit == { i \in 1..n : Rank(host, m[i].platform) # 0 }
  <1>4. \/ found = 0 /\ fit = {}
        \/ /\ found # 0 /\ found \in fit
           /\ \A k \in fit : Rank(host, m[found].platform) <= Rank(host, m[k].platform)
    BY <1>1, <1>3, FindFacts
  <1> HIDE DEF found
  <1>5. CASE found = 0
    <2>1. fit = {}
      BY <1>4, <1>5
    <2>2. \A p \in offered : Rank(host, p) = 0
      BY <1>1, <2>1
    <2>3. Best(host, in) = {}
      BY <1>2, <2>2
    <2>4. QED
      BY <1>5, <2>3 DEF found, m
  <1>6. CASE found # 0
    <2> DEFINE p == m[found].platform
    <2>1. found \in 1..n /\ Rank(host, p) # 0 /\ p \in offered
      BY <1>1, <1>4, <1>6
    <2>2. ASSUME NEW q \in offered, Rank(host, q) # 0 PROVE Rank(host, p) <= Rank(host, q)
      <3>1. PICK k \in 1..n : m[k].platform = q
        BY <1>1
      <3>2. k \in fit
        BY <2>2, <3>1
      <3>3. QED
        BY <1>4, <1>6, <3>1, <3>2
    <2> HIDE DEF p
    <2>3. p \in Best(host, in)
      BY <1>2, <2>1, <2>2
    <2>4. QED
      BY <1>1, <1>6, <2>1, <2>3 DEF p, found, m
  <1>7. QED
    BY <1>5, <1>6

\* What a fetch takes from the index of a build.
LEMMA FindPicked ==
    ASSUME NEW in \in BuildInputs, NEW host \in { f.platform : f \in FetchInputs }, NEW m,
           m = FindManifestForPlatforms(<<host, PlatformGeneric>>, IndexOf(in)), m # 0
    PROVE  /\ IndexOf(in)[m].platform \in Picked(host, in)
           /\ IndexOf(in)[m].platform \in Offered(in)
           /\ FlattenSeq(IndexOf(in)[m].layers) = FilesFor(in, IndexOf(in)[m].platform)
  <1> DEFINE g == PlatformGeneric
             index == IndexOf(in)
             F(h) == FindManifestForPlatform(h, index)
             Found(i) == F(<<host, g>>[i])
             found == { i \in DOMAIN <<host, g>> : Found(i) # 0 }
  <1>1. host \in Hosts /\ g \in Hosts
    BY DEF Hosts
  <1>2. m = IF found = {} THEN 0 ELSE Found(Min(found))
    BY DEF FindManifestForPlatforms
  <1>3. \A h \in Hosts : \/ F(h) = 0 /\ Best(h, in) = {}
                         \/ /\ F(h) # 0 /\ F(h) \in DOMAIN index
                            /\ index[F(h)].platform \in Best(h, in)
    BY FindBest
  <1>4. /\ index[m].platform \in Best(host, in) \/ index[m].platform \in Best(g, in)
        /\ index[m].platform \in Picked(host, in) /\ m \in DOMAIN index
    <2> HIDE DEF g, index, F
    <2>1. Found(1) = F(host) /\ Found(2) = F(g) /\ DOMAIN <<host, g>> = 1..2
      OBVIOUS
    <2> HIDE DEF Found
    <2>2. CASE F(host) # 0
      <3>1. 1 \in found /\ \A i \in found : 1 <= i
        BY <2>1, <2>2
      <3>2. Min(found) = 1
        <4>1. \A i \in found : i \in 1..2
          BY <2>1
        <4> HIDE DEF found
        <4>2. QED
          BY <3>1, <4>1 DEF Min
      <3>3. m = F(host)
        BY <1>2, <2>1, <3>1, <3>2
      <3>4. QED
        BY <1>1, <1>3, <2>2, <3>3 DEF Picked
    <2>3. CASE F(host) = 0
      <3>1. found \subseteq {2}
        BY <2>1, <2>3
      <3>2. found # {}
        BY <1>2
      <3>3. found = {2}
        BY <3>1, <3>2
      <3>4. Min({2}) = 2
        BY DEF Min
      <3>5. m = F(g)
        BY <1>2, <2>1, <3>3, <3>4
      <3>6. index[m].platform \in Best(g, in) /\ m \in DOMAIN index /\ Best(host, in) = {}
        BY <1>1, <1>3, <2>3, <3>5
      <3>7. QED
        BY <3>6 DEF Picked, g
    <2>4. QED
      BY <2>2, <2>3
  <1>5. \A h : Best(h, in) \subseteq Offered(in)
    BY DEF Best
  <1>6. FlattenSeq(index[m].layers) = FilesFor(in, index[m].platform)
    <2>1. PICK n \in Nat : DOMAIN index = 1..n /\ \A i \in 1..n :
              FlattenSeq(index[i].layers) = FilesFor(in, index[i].platform)
      BY IndexFacts
    <2> HIDE DEF index
    <2>2. QED
      BY <1>4, <2>1
  <1>7. QED
    BY <1>4, <1>5, <1>6

\* A directory with one more file.
LEMMA LaidNext ==
    ASSUME NEW all \in Seq(FileSet), NEW n \in Nat, n + 1 <= Len(all), NEW dir,
           Laid(all, n, dir)
    PROVE  Laid(all, n + 1, WriteFile(dir, all[n + 1].path, all[n + 1].content))
  <1> DEFINE path == all[n + 1].path
             content == all[n + 1].content
             old == IF path \in DOMAIN dir THEN dir[path] ELSE <<>>
             now == content \o SubSeq(old, Len(content) + 1, Len(old))
             new == WriteFile(dir, path, content)
  <1>1. n + 1 \in 1..Len(all) /\ content \in Seq(STRING)
    <2>1. n + 1 \in 1..Len(all)
      OBVIOUS
    <2>2. all[n + 1] \in FileSet
      BY <2>1
    <2>3. QED
      BY <2>1, <2>2 DEF FileSet
  <1>2. /\ DOMAIN new = DOMAIN dir \cup {path}
        /\ new[path] = now
        /\ \A p \in DOMAIN dir : p # path => new[p] = dir[p]
    BY DEF WriteFile
  <1>3. old \in Seq(STRING)
    <2>1. <<>> \in Seq(STRING)
      OBVIOUS
    <2> HIDE DEF path
    <2>2. CASE path \in DOMAIN dir
      BY <2>2 DEF Laid
    <2>3. CASE path \notin DOMAIN dir
      BY <2>1, <2>3, Zenon
    <2>4. QED
      BY <2>2, <2>3
  <1> HIDE DEF old, path, content
  <1>4. now \in Seq(STRING) /\ IsPrefix(content, now)
    <2> DEFINE rest == SubSeq(old, Len(content) + 1, Len(old))
    <2>1. Len(content) \in Nat /\ Len(old) \in Nat
      BY <1>1, <1>3
    <2>2. rest \in Seq(STRING)
      BY <1>3, <2>1
    <2> HIDE DEF rest
    <2>3. content \o rest \in Seq(STRING) /\ Len(content \o rest) = Len(content) + Len(rest)
          /\ Len(rest) \in Nat
      BY <1>1, <2>2
    <2>4. \A i \in 1..Len(content) : (content \o rest)[i] = content[i]
      BY <1>1, <2>2
    <2> DEFINE u == content \o rest
    <2> HIDE DEF u
    <2>5. u \in Seq(STRING) /\ Len(u) >= Len(content) /\ \A i \in 1..Len(content) : u[i] = content[i]
      BY <2>1, <2>3, <2>4 DEF u
    <2>6. SubSeq(content, 1, Len(content)) = SubSeq(u, 1, Len(content))
      BY <1>1, <2>1, <2>5
    <2>7. IsPrefix(content, u)
      BY <2>1, <2>5, <2>6 DEF IsPrefix
    <2>8. QED
      BY <2>5, <2>7 DEF u, rest
  <1> HIDE DEF new, now
  <1>5. DOMAIN new = { all[i].path : i \in 1..n + 1 }
    <2>1. 1..n + 1 = (1..n) \cup {n + 1}
      OBVIOUS
    <2>2. DOMAIN dir = { all[i].path : i \in 1..n }
      BY DEF Laid
    <2>3. QED
      BY <1>2, <2>1, <2>2 DEF path
  <1>6. \A p \in DOMAIN new : new[p] \in Seq(STRING)
    <2> TAKE p \in DOMAIN new
    <2>1. \A q \in DOMAIN dir : dir[q] \in Seq(STRING)
      BY DEF Laid
    <2>2. QED
      BY <1>2, <1>4, <2>1
  <1>7. ASSUME NEW i \in 1..n + 1, \A k \in (i + 1)..(n + 1) : all[k].path # all[i].path
        PROVE  IsPrefix(all[i].content, new[all[i].path])
    <2>1. CASE i = n + 1
      BY <1>2, <1>4, <2>1 DEF path, content
    <2>2. CASE i # n + 1
      <3>1. /\ i \in 1..n /\ n + 1 \in (i + 1)..(n + 1)
            /\ \A k \in (i + 1)..n : k \in (i + 1)..(n + 1)
        BY <2>2
      <3>2. all[i].path # path /\ all[i].path \in DOMAIN dir
        BY <1>7, <3>1 DEF path, Laid
      <3>3. IsPrefix(all[i].content, dir[all[i].path])
        BY <1>7, <3>1 DEF Laid
      <3>4. QED
        BY <1>2, <3>2, <3>3
    <2>3. QED
      BY <2>1, <2>2
  <1>8. Laid(all, n + 1, new)
    BY <1>5, <1>6, <1>7 DEF Laid
  <1>9. QED
    BY <1>8 DEF new, path, content

\* What is left of a sequence.
LEMMA RestOf ==
    ASSUME NEW S, NEW all \in Seq(S), NEW n \in 0..Len(all)
    PROVE  LET s == SubSeq(all, n + 1, Len(all))
           IN  /\ s = <<>> <=> n = Len(all)
               /\ n # Len(all) => /\ Head(s) = all[n + 1]
                                  /\ Tail(s) = SubSeq(all, (n + 1) + 1, Len(all))
  <1> DEFINE m == Len(all)
             s == SubSeq(all, n + 1, m)
             t == SubSeq(all, (n + 1) + 1, m)
  <1>1. m \in Nat /\ n \in Nat /\ n <= m
    OBVIOUS
  <1>2. /\ s \in Seq(S) /\ Len(s) = m - n
        /\ \A i \in 1..m - n : s[i] = all[n + i]
    BY <1>1
  <1>3. ASSUME n # m
        PROVE  /\ t \in Seq(S) /\ Len(t) = m - (n + 1)
               /\ \A i \in 1..m - (n + 1) : t[i] = all[(n + 1) + i]
    BY <1>1, <1>3
  <1> HIDE DEF s, t, m
  <1>4. s = <<>> <=> n = m
    BY <1>1, <1>2
  <1>5. ASSUME n # m PROVE Head(s) = all[n + 1]
    <2>1. s # <<>> /\ 1 \in 1..m - n
      BY <1>1, <1>2, <1>5
    <2>2. QED
      BY <1>2, <2>1
  <1>6. ASSUME n # m PROVE Tail(s) = t
    <2>1. s # <<>> /\ m - n \in Nat \ {0}
      BY <1>1, <1>2, <1>6
    <2> DEFINE u == Tail(s)
    <2>2. u \in Seq(S) /\ Len(u) = m - n - 1 /\ \A i \in 1..m - n - 1 : u[i] = s[i + 1]
      BY <1>2, <2>1
    <2> HIDE DEF u
    <2>3. Len(u) = Len(t) /\ t \in Seq(S)
      BY <1>1, <1>3, <1>6, <2>2
    <2>4. ASSUME NEW i \in 1..Len(u) PROVE u[i] = t[i]
      <3>1. i \in 1..m - n - 1
        BY <2>2
      <3>2. i + 1 \in 1..m - n /\ i \in 1..m - (n + 1) /\ n + (i + 1) = (n + 1) + i
        BY <1>1, <3>1
      <3>3. u[i] = s[i + 1]
        BY <2>2, <3>1
      <3>4. s[i + 1] = all[n + (i + 1)]
        BY <1>2, <3>2
      <3>5. t[i] = all[(n + 1) + i]
        BY <1>3, <1>6, <3>2
      <3>6. QED
        BY <3>2, <3>3, <3>4, <3>5
    <2>5. u = t
      BY <2>2, <2>3, <2>4
    <2>6. QED
      BY <2>5 DEF u
  <1>7. QED
    BY <1>4, <1>5, <1>6 DEF s, t, m

\* A step of run r, which is no build that has ended.
Moves(r) ==
    /\ \A q \in Runs : q # r => pc'[q] = pc[q] /\ loc'[q] = loc[q]
    /\ r \in Builds => pc[r] \notin {"done", "failed"}

\* What a build has pushed stays what it made of its inputs.
LEMMA GenuineStays ==
    ASSUME NEW r, Moves(r)
    PROVE  /\ \A image : Genuine(image, pc, loc) => Genuine(image, pc', loc')
           /\ \A place, local : Fetching(place, local, pc, loc) => Fetching(place, local, pc', loc')
  <1>1. \A b \in Builds : IsBuilt(pc[b], loc[b]) => pc'[b] = pc[b] /\ loc'[b] = loc[b]
    BY RunFacts DEF Moves, IsBuilt
  <1>2. ASSUME NEW image, Genuine(image, pc, loc) PROVE Genuine(image, pc', loc')
    BY <1>1, <1>2 DEF Genuine
  <1>3. ASSUME NEW place, NEW local, Fetching(place, local, pc, loc)
        PROVE  Fetching(place, local, pc', loc')
    BY <1>1, <1>3 DEF Fetching
  <1>4. QED
    BY <1>2, <1>3

\* A step keeps the invariant if what it changes has it.
LEMMA FetchInvStep ==
    ASSUME FetchInv, NEW r \in Runs, Moves(r),
           r \in Builds /\ pc'[r] = "checked" => loc'[r].in \in BuildInputs,
           \A ref \in DOMAIN tags' : \/ ref \in DOMAIN tags /\ tags'[ref] = tags[ref]
                                     \/ Genuine(tags'[ref], pc', loc'),
           r \in Promotions /\ pc'[r] = "write" => Genuine(loc'[r].image, pc', loc'),
           r \in Fetches /\ pc'[r] \in {"layers", "done"} => Fetching(pc'[r], loc'[r], pc', loc')
    PROVE  FetchInv'
  <1>1. \A q \in Runs : q # r => pc'[q] = pc[q] /\ loc'[q] = loc[q]
    BY DEF Moves
  <1>2. \A b \in Builds : pc'[b] = "checked" => loc'[b].in \in BuildInputs
    BY <1>1, RunFacts DEF FetchInv
  <1>3. \A ref \in DOMAIN tags' : Genuine(tags'[ref], pc', loc')
    BY GenuineStays DEF FetchInv
  <1>4. \A p \in Promotions : pc'[p] = "write" => Genuine(loc'[p].image, pc', loc')
    BY <1>1, RunFacts, GenuineStays DEF FetchInv
  <1>5. \A f \in Fetches : pc'[f] \in {"layers", "done"} => Fetching(pc'[f], loc'[f], pc', loc')
    BY <1>1, RunFacts, GenuineStays DEF FetchInv
  <1>6. QED
    BY <1>2, <1>3, <1>4, <1>5 DEF FetchInv

\* A build reads its inputs.
LEMMA BuildStartFetch ==
    ASSUME Domains, FetchInv, NEW b \in Builds, BuildStart(b)
    PROVE  FetchInv'
  <1>1. PICK in \in BuildInputs :
           \/ Go(b, "failed", NoLocal)
           \/ Go(b, "checked", [in |-> in, head |-> "error"])
           \/ Go(b, "checked", [in |-> in, head |-> "absent"])
    BY DEF BuildStart, AlreadyPublished
  <1>2. UNCHANGED tags /\ pc[b] = "start"
    BY DEF BuildStart, Begin
  <1>3. /\ \A q \in Runs : q # b => pc'[q] = pc[q] /\ loc'[q] = loc[q]
        /\ pc'[b] = "checked" => loc'[b].in = in
    BY <1>1, RunFacts DEF Go, Domains
  <1>4. Moves(b)
    BY <1>2, <1>3 DEF Moves
  <1>5. QED
    BY <1>2, <1>3, <1>4, RunFacts, FetchInvStep

\* A build pushes what it made of its inputs.
LEMMA ReleaseFetch ==
    ASSUME Domains, FetchInv, NEW b \in Builds, Release(b)
    PROVE  FetchInv'
  <1> DEFINE in == loc[b].in
             image == [kind |-> "index", by |-> b, version |-> <<>>, manifests |-> IndexOf(in)]
  <1>1. /\ pc[b] = "checked"
        /\ \/ Go(b, "failed", loc[b]) /\ UNCHANGED tags
           \/ Built(in) /\ Write(b, in.ref, image, "done", loc[b])
    BY Zenon DEF Release, Built, IndexOf
  <1>2. /\ image.by = b /\ image.kind = "index" /\ image.manifests = IndexOf(in)
        /\ IsWhole(image)
    BY DEF IsWhole
  <1> HIDE DEF image
  <1>3. /\ Go(b, "failed", loc[b]) \/ Go(b, "done", loc[b])
        /\ UNCHANGED tags \/ (Built(in) /\ Written(in.ref, image))
    BY <1>1, WriteFacts
  <1>4. /\ \A q \in Runs : q # b => pc'[q] = pc[q] /\ loc'[q] = loc[q]
        /\ pc'[b] \in {"done", "failed"} /\ loc'[b] = loc[b]
    BY <1>3, RunFacts, GoFacts
  <1>5. Moves(b)
    BY <1>1, <1>4 DEF Moves
  <1>6. ASSUME NEW ref \in DOMAIN tags', ~(ref \in DOMAIN tags /\ tags'[ref] = tags[ref])
        PROVE  Genuine(tags'[ref], pc', loc')
    <2>1. Built(in) /\ tags'[ref] = image
      BY <1>3, <1>6 DEF Written
    <2>2. IsBuilt(pc'[b], loc'[b])
      BY <1>1, <1>4, <2>1 DEF FetchInv, IsBuilt
    <2>3. QED
      BY <1>2, <1>4, <2>1, <2>2 DEF Genuine
  <1>7. QED
    BY <1>4, <1>5, <1>6, RunFacts, FetchInvStep

\* The image for one platform of an index is no index.
LEMMA ImageOfGenuine ==
    ASSUME NEW image, Genuine(image, pc, loc), ImageOf(image) # NoImage
    PROVE  Genuine(ImageOf(image), pc, loc)
  <1> DEFINE i == FindManifestForPlatform("linux/amd64", image.manifests)
  <1>1. CASE image.kind = "image"
    BY <1>1 DEF ImageOf
  <1>2. CASE image.kind # "image"
    <2> DEFINE one == [image EXCEPT !.kind = "image", !.manifests = <<image.manifests[i]>>]
    <2>1. ImageOf(image) = one
      BY <1>2 DEF ImageOf
    <2>2. /\ DOMAIN one = DOMAIN image /\ one = [x \in DOMAIN one |-> one[x]]
          /\ one.kind = "image" /\ one.by = image.by
      BY DEF Genuine, IsWhole
    <2> HIDE DEF one
    <2>3. QED
      BY <2>1, <2>2 DEF Genuine, IsWhole
  <1>3. QED
    BY <1>1, <1>2

\* A promotion copies what a build has pushed.
LEMMA PromotionFetch ==
    ASSUME Domains, FetchInv, NEW p \in Promotions, ListTags(p) \/ CopyRead(p) \/ CopyWrite(p)
    PROVE  FetchInv'
  <1>1. p \in Runs /\ p \notin Builds /\ p \notin Fetches
    BY RunFacts
  <1>2. CASE ListTags(p)
    <2>1. UNCHANGED tags /\ \E to \in {"failed", "read"} : \E local : Go(p, to, local)
      BY <1>2, Zenon DEF ListTags
    <2>2. pc'[p] # "write" /\ \A q \in Runs : q # p => pc'[q] = pc[q] /\ loc'[q] = loc[q]
      BY <1>1, <2>1, GoFacts
    <2>3. QED
      BY <1>1, <2>1, <2>2, FetchInvStep DEF Moves
  <1>3. CASE CopyRead(p)
    <2> DEFINE local(image) == [in |-> loc[p].in, refs |-> loc[p].refs, image |-> image]
               from == loc[p].in.from
    <2>1. /\ pc[p] = "read" /\ UNCHANGED tags
          /\ \E image : \/ Go(p, "failed", loc[p])
                        \/ /\ Go(p, "write", local(image)) /\ image # NoImage
                           /\ from \in DOMAIN tags /\ image \in {tags[from], ImageOf(tags[from])}
      BY <1>3 DEF CopyRead, Names
    <2>2. PICK image : \/ Go(p, "failed", loc[p])
                       \/ Go(p, "write", local(image)) /\ Genuine(image, pc, loc)
      BY <2>1, ImageOfGenuine DEF FetchInv
    <2>3. local(image).image = image
      OBVIOUS
    <2> HIDE DEF local
    <2>4. /\ \A q \in Runs : q # p => pc'[q] = pc[q] /\ loc'[q] = loc[q]
          /\ pc'[p] = "write" => loc'[p].image = image /\ Genuine(image, pc, loc)
      BY <1>1, <2>2, <2>3, GoFacts
    <2>5. Moves(p)
      BY <1>1, <2>4 DEF Moves
    <2>6. pc'[p] = "write" => Genuine(loc'[p].image, pc', loc')
      BY <2>4, <2>5, GenuineStays
    <2>7. QED
      BY <1>1, <2>1, <2>5, <2>6, FetchInvStep
  <1>4. CASE CopyWrite(p)
    <2> DEFINE ref == [repo |-> loc[p].in.to.repo, tag |-> Head(loc[p].refs)]
               old == loc[p].image
               v == loc[p].in.to.tag.num
               image == [old EXCEPT !.version = v]
    <2>1. Promoted(p, ref, image)
      BY <1>4, CopyWriteFacts
    <2> HIDE DEF ref
    <2>2. Genuine(old, pc, loc)
      BY <2>1 DEF Promoted, FetchInv
    <2> HIDE DEF old, v
    <2>3. /\ DOMAIN image = DOMAIN old /\ image = [x \in DOMAIN image |-> image[x]]
          /\ image.kind = old.kind /\ image.by = old.by /\ image.manifests = old.manifests
      BY <2>2 DEF Genuine, IsWhole
    <2> HIDE DEF image
    <2>4. Genuine(image, pc, loc)
      BY <2>2, <2>3 DEF Genuine, IsWhole
    <2>5. Moves(p) /\ pc'[p] # "write"
      BY <1>1, <2>1 DEF Moves, Promoted
    <2>6. Genuine(image, pc', loc')
      BY <2>4, <2>5, GenuineStays
    <2>7. \A r \in DOMAIN tags' : \/ r \in DOMAIN tags /\ tags'[r] = tags[r]
                                  \/ Genuine(tags'[r], pc', loc')
      BY <2>1, <2>6 DEF Promoted, Written
    <2>8. QED
      BY <1>1, <2>5, <2>7, FetchInvStep
  <1>5. QED
    BY <1>2, <1>3, <1>4

\* A fetch begins with the image that fits best and an empty directory.
LEMMA FetchImageFetch ==
    ASSUME Domains, FetchInv, NEW f \in Fetches, FetchImage(f)
    PROVE  FetchInv'
  <1>1. f \in Runs /\ f \notin Builds /\ f \notin Promotions
    BY RunFacts
  <1> DEFINE Local(in, image, m) ==
                [in |-> in, by |-> image.by, dir |-> <<>>,
                 entries |-> FlattenSeq(image.manifests[m].layers)]
  <1>2. /\ UNCHANGED tags
        /\ \/ Go(f, "failed", NoLocal)
           \/ \E in \in FetchInputs : \E image, m :
                 /\ image.kind = "index" /\ m # 0 /\ in.ref \in DOMAIN tags /\ image = tags[in.ref]
                 /\ m = FindManifestForPlatforms(<<in.platform, PlatformGeneric>>, image.manifests)
                 /\ Go(f, "layers", Local(in, image, m))
    BY DEF FetchImage, Names, NoImage
  <1>3. CASE Go(f, "failed", NoLocal)
    <2>1. pc'[f] = "failed" /\ Moves(f)
      BY <1>1, <1>3, GoFacts DEF Moves
    <2>2. QED
      BY <1>1, <1>2, <2>1, FetchInvStep
  <1>4. CASE ~Go(f, "failed", NoLocal)
    <2>1. PICK in \in FetchInputs : \E image, m :
             /\ image.kind = "index" /\ m # 0 /\ in.ref \in DOMAIN tags /\ image = tags[in.ref]
             /\ m = FindManifestForPlatforms(<<in.platform, PlatformGeneric>>, image.manifests)
             /\ Go(f, "layers", Local(in, image, m))
      BY <1>2, <1>4
    <2>2. PICK image, m :
             /\ image.kind = "index" /\ m # 0 /\ in.ref \in DOMAIN tags /\ image = tags[in.ref]
             /\ m = FindManifestForPlatforms(<<in.platform, PlatformGeneric>>, image.manifests)
             /\ Go(f, "layers", Local(in, image, m))
      BY <2>1
    <2> DEFINE local == Local(in, image, m)
    <2>3. /\ HasAll(local)
          /\ local.in = in /\ local.by = image.by /\ local.dir = <<>>
          /\ local.entries = FlattenSeq(image.manifests[m].layers)
      BY DEF HasAll
    <2> HIDE DEF local
    <2>4. Moves(f) /\ pc'[f] = "layers" /\ loc'[f] = local
      BY <1>1, <2>2, GoFacts DEF Moves, local
    <2>5. Genuine(image, pc, loc)
      BY <2>2 DEF FetchInv
    <2>6. ASSUME image.by \in Builds
          PROVE  IsBuilt(pc[image.by], loc[image.by]) /\ Unpacks(local, loc[image.by].in)
      <3> DEFINE bin == loc[image.by].in
                 p == IndexOf(bin)[m].platform
                 all == FilesFor(bin, p)
      <3>1. /\ IsBuilt(pc[image.by], loc[image.by]) /\ bin \in BuildInputs /\ Built(bin)
            /\ image.manifests = IndexOf(bin)
        BY <2>2, <2>5, <2>6 DEF Genuine, IsBuilt
      <3> HIDE DEF bin
      <3>2. p \in Picked(in.platform, bin) /\ p \in Offered(bin)
            /\ FlattenSeq(image.manifests[m].layers) = all
        BY <2>2, <3>1, FindPicked
      <3>3. all \in Seq(FileSet)
        BY <3>1, <3>2, FilesForType
      <3> HIDE DEF p, all
      <3>4. /\ 0 \in 0..Len(all) /\ SubSeq(all, 0 + 1, Len(all)) = all
        BY <3>3
      <3>5. Laid(all, 0, <<>>)
        <4>1. DOMAIN <<>> = {} /\ 1..0 = {}
          OBVIOUS
        <4>2. QED
          BY <4>1 DEF Laid
      <3>6. Unpacks(local, bin)
        BY <2>3, <3>2, <3>3, <3>4, <3>5 DEF Unpacks, all
      <3>7. QED
        BY <3>1, <3>6 DEF bin
    <2>7. Fetching("layers", local, pc, loc)
      BY <2>3, <2>6 DEF Fetching
    <2>8. Fetching(pc'[f], loc'[f], pc', loc')
      BY <2>4, <2>7, GenuineStays
    <2>9. QED
      BY <1>1, <1>2, <2>4, <2>8, FetchInvStep
  <1>5. QED
    BY <1>3, <1>4

\* A fetch writes a file, or it ends.
LEMMA WriteLayerFetch ==
    ASSUME Domains, FetchInv, NEW f \in Fetches, WriteLayer(f) \/ FetchOutputs(f)
    PROVE  FetchInv'
  <1>1. f \in Runs /\ f \notin Builds /\ f \notin Promotions
    BY RunFacts
  <1> DEFINE old == loc[f]
             entry == Head(old.entries)
             dir == WriteFile(old.dir, entry.path, entry.content)
             new == [old EXCEPT !.dir = dir, !.entries = Tail(old.entries)]
  <1>2. /\ UNCHANGED tags /\ pc[f] = "layers"
        /\ \/ Go(f, "failed", old)
           \/ old.entries = <<>> /\ Go(f, "done", old)
           \/ old.entries # <<>> /\ Go(f, "layers", new)
    BY DEF WriteLayer, FetchOutputs
  <1>3. Fetching("layers", old, pc, loc)
    BY <1>2 DEF FetchInv
  <1> HIDE DEF old
  <1>4. CASE Go(f, "failed", old)
    <2>1. pc'[f] = "failed" /\ Moves(f)
      BY <1>1, <1>4, GoFacts DEF Moves
    <2>2. QED
      BY <1>1, <1>2, <2>1, FetchInvStep
  <1>5. CASE old.entries = <<>> /\ Go(f, "done", old)
    <2>1. pc'[f] = "done" /\ loc'[f] = old /\ Moves(f)
      BY <1>1, <1>5, GoFacts DEF Moves
    <2>2. Fetching("done", old, pc, loc)
      BY <1>3, <1>5 DEF Fetching
    <2>3. Fetching(pc'[f], loc'[f], pc', loc')
      BY <2>1, <2>2, GenuineStays
    <2>4. QED
      BY <1>1, <1>2, <2>1, <2>3, FetchInvStep
  <1>6. CASE old.entries # <<>> /\ Go(f, "layers", new)
    <2>1. /\ HasAll(new)
          /\ new.in = old.in /\ new.by = old.by /\ new.dir = dir /\ new.entries = Tail(old.entries)
      <3> HIDE DEF dir
      <3>1. QED
        BY <1>3 DEF Fetching, HasAll
    <2> HIDE DEF new
    <2>2. pc'[f] = "layers" /\ loc'[f] = new /\ Moves(f)
      BY <1>1, <1>6, GoFacts DEF Moves
    <2>3. ASSUME NEW in, Unpacks(old, in) PROVE Unpacks(new, in)
      <3>1. PICK platform \in Picked(old.in.platform, in) :
               LET all == FilesFor(in, platform) IN
               /\ all \in Seq(FileSet)
               /\ \E n \in 0..Len(all) :
                     /\ old.entries = SubSeq(all, n + 1, Len(all))
                     /\ Laid(all, n, old.dir)
        BY <2>3 DEF Unpacks
      <3> DEFINE all == FilesFor(in, platform)
      <3> HIDE DEF all
      <3>2. PICK n \in 0..Len(all) : /\ old.entries = SubSeq(all, n + 1, Len(all))
                                     /\ Laid(all, n, old.dir)
        BY <3>1 DEF all
      <3>3. all \in Seq(FileSet)
        BY <3>1 DEF all
      <3>4. n # Len(all)
        BY <1>6, <3>2, <3>3, RestOf
      <3>5. n \in Nat /\ n + 1 <= Len(all) /\ n + 1 \in 0..Len(all)
        BY <3>3, <3>4
      <3>6. entry = all[n + 1] /\ Tail(old.entries) = SubSeq(all, (n + 1) + 1, Len(all))
        BY <3>2, <3>3, <3>4, RestOf
      <3>7. Laid(all, n + 1, dir)
        BY <3>2, <3>3, <3>5, <3>6, LaidNext
      <3> HIDE DEF dir, entry
      <3>8. QED
        BY <2>1, <3>1, <3>3, <3>5, <3>6, <3>7 DEF Unpacks, all
    <2>4. Fetching("layers", new, pc, loc)
      BY <1>3, <2>1, <2>3 DEF Fetching
    <2>5. Fetching(pc'[f], loc'[f], pc', loc')
      BY <2>2, <2>4, GenuineStays
    <2>6. QED
      BY <1>1, <1>2, <2>2, <2>5, FetchInvStep
  <1>7. QED
    BY <1>2, <1>4, <1>5, <1>6

-------------------------------------------------------------------------------
\* The invariant holds.
LEMMA FetchedInvariant ==
    Spec => []FetchInv
  <1>1. Init => FetchInv
    <2> SUFFICES ASSUME Init PROVE FetchInv
      OBVIOUS
    <2>1. \A r \in Runs : pc[r] = "start"
      BY DEF Init
    <2>2. \A ref \in DOMAIN tags : Genuine(tags[ref], pc, loc)
      BY PublishedAssumption DEF Init, Genuine, IsWhole
    <2>3. QED
      BY <2>1, <2>2, RunFacts DEF FetchInv
  <1>2. Domains /\ FetchInv /\ [Next]_vars => FetchInv'
    <2> SUFFICES ASSUME Domains, FetchInv, [Next]_vars PROVE FetchInv'
      OBVIOUS
    <2>1. CASE Next
      BY <2>1, BuildStartFetch, ReleaseFetch, PromotionFetch, FetchImageFetch, WriteLayerFetch DEF Next
    <2>2. CASE UNCHANGED vars
      BY <2>2 DEF vars, FetchInv
    <2>3. QED
      BY <2>1, <2>2
  <1>3. PromoteInv => Domains
    BY DEF PromoteInv
  <1>4. QED
    BY <1>1, <1>2, <1>3, PromoteInvariant, PTL DEF Spec

\* For any builds, promotions and fetches with any inputs, any sources, any hosts and
\* any ranking of platforms, and however the tags move meanwhile: a step that was
\* fetched has the files that its build had for the platform that fits the host best,
\* and each one begins with the content of the last artifact that names it
\* (Client.Pull, DiskLayerWriter).
THEOREM RegistryFetchedFilesAreReleased ==
    Spec => []FetchedFilesAreReleased
  <1>1. FetchInv => FetchedFilesAreReleased
    <2> DEFINE LastOf(all, path) == SelectLastInSeq(all, LAMBDA e : e.path = path)
               Complete(all, dir) ==
                  /\ DOMAIN dir = { e.path : e \in ToSet(all) }
                  /\ \A path \in DOMAIN dir : IsPrefix(all[LastOf(all, path)].content, dir[path])
    <2>1. ASSUME NEW all \in Seq(FileSet), NEW dir, Laid(all, Len(all), dir)
          PROVE  Complete(all, dir)
      <3> DEFINE n == Len(all)
      <3>1. n \in Nat /\ DOMAIN all = 1..n
        OBVIOUS
      <3> HIDE DEF n
      <3>2. DOMAIN dir = { all[i].path : i \in 1..n }
        BY <2>1 DEF Laid, n
      <3>3. DOMAIN dir = { e.path : e \in ToSet(all) }
        BY <3>1, <3>2 DEF ToSet
      <3>4. ASSUME NEW path \in DOMAIN dir
            PROVE  IsPrefix(all[LastOf(all, path)].content, dir[path])
        <4> DEFINE I == { i \in 1..n : all[i].path = path }
        <4>1. LastOf(all, path) = IF I # {} THEN Max(I) ELSE 0
          BY DEF SelectLastInSeq, n
        <4>2. I \subseteq 1..n /\ I # {}
          BY <3>2, <3>4
        <4>3. PICK x \in I : \A y \in I : x >= y
          <5> HIDE DEF I
          <5>1. QED
            BY <3>1, <4>2, Largest
        <4> DEFINE last == Max(I)
        <4>4. last \in I /\ \A y \in I : last >= y
          <5> HIDE DEF I
          <5>1. QED
            BY <4>3 DEF Max
        <4> HIDE DEF last
        <4>5. last \in 1..n /\ all[last].path = path
          BY <4>4
        <4>6. ASSUME NEW k \in (last + 1)..n PROVE all[k].path # all[last].path
          <5>1. k \in 1..n /\ ~(last >= k)
            BY <3>1, <4>5
          <5>2. k \notin I
            BY <4>4, <5>1
          <5>3. QED
            BY <4>5, <5>1, <5>2
        <4>7. IsPrefix(all[last].content, dir[all[last].path])
          BY <2>1, <4>5, <4>6 DEF Laid, n
        <4> HIDE DEF I, LastOf
        <4>8. LastOf(all, path) = last
          BY <4>1, <4>2 DEF last
        <4>9. QED
          BY <4>5, <4>7, <4>8
      <3> HIDE DEF LastOf
      <3>5. QED
        BY <3>3, <3>4
    <2> HIDE DEF Complete
    <2>2. ASSUME FetchInv, NEW f \in Fetches, pc[f] = "done", loc[f].by \in Builds
          PROVE  \E platform \in Picked(loc[f].in.platform, loc[loc[f].by].in) :
                    Complete(FilesFor(loc[loc[f].by].in, platform), loc[f].dir)
      <3> DEFINE local == loc[f]
                 in == loc[loc[f].by].in
      <3>1. local.entries = <<>> /\ Unpacks(local, in)
        BY <2>2 DEF FetchInv, Fetching
      <3> HIDE DEF local, in
      <3>2. PICK platform \in Picked(local.in.platform, in) :
               LET all == FilesFor(in, platform) IN
               /\ all \in Seq(FileSet)
               /\ \E n \in 0..Len(all) :
                     /\ local.entries = SubSeq(all, n + 1, Len(all))
                     /\ Laid(all, n, local.dir)
        BY <3>1 DEF Unpacks
      <3> DEFINE all == FilesFor(in, platform)
      <3> HIDE DEF all
      <3>3. PICK n \in 0..Len(all) : /\ local.entries = SubSeq(all, n + 1, Len(all))
                                     /\ Laid(all, n, local.dir)
        BY <3>2 DEF all
      <3>4. all \in Seq(FileSet)
        BY <3>2 DEF all
      <3>5. n = Len(all)
        BY <3>1, <3>3, <3>4, RestOf
      <3>6. Complete(all, local.dir)
        BY <2>1, <3>3, <3>4, <3>5
      <3>7. QED
        BY <3>2, <3>6 DEF all, local, in
    <2>3. QED
      BY <2>2 DEF FetchedFilesAreReleased, Complete
  <1>2. QED
    BY <1>1, FetchedInvariant, PTL
===============================================================================
