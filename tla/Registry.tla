------------------------------- MODULE Registry -------------------------------
(*****************************************************************************)
(* The steps that build, promote and fetch steps as OCI images               *)
(* (dist/steps/step/oci), run by any number of jobs against one registry.    *)
(* The registry is external: it maps references to what they name, and any   *)
(* call to it may fail, a write also after it took effect.                   *)
(*****************************************************************************)
EXTENDS StepImage, FiniteSets

CONSTANTS
    Builds, Promotions, Fetches,            \* runs of the three steps
    BuildInputs, PromoteInputs, FetchInputs,
    Published,  \* what the registry holds to begin with
    Private,    \* repositories that need credentials
    DockerAuth, \* DOCKER_AUTH_CONFIG: "unset", "empty", "invalid" or "set", and the
                \* repositories and registries that it has credentials for
    MaxFaults   \* calls to the registry that fail

ASSUME RegistryAssumption ==
    /\ MaxFaults \in Nat
    /\ Builds \cap Promotions = {} /\ Builds \cap Fetches = {} /\ Promotions \cap Fetches = {}

\* A version is x.y.z.  Besides the tag that is its full name, a promotion may give it
\* the tags x.y, x and latest.
IsVersion(v) == v \in Seq(Nat) /\ Len(v) = 3
FullTag(v) == [num |-> v, rel |-> ""]
MovingTags(v) ==
    { [num |-> SubSeq(v, 1, n), rel |-> ""] : n \in 1..2 } \cup { Latest }

\* The tags of registry t that name a version are its own, or they move and its full
\* name is there too.
VersionsAreNamed(t) ==
    \A ref \in DOMAIN t : LET v == t[ref].version IN
        v = <<>> \/ /\ IsVersion(v)
                    /\ \/ ref.tag.num = v
                       \/ /\ ref.tag \in MovingTags(v)
                          /\ [repo |-> ref.repo, tag |-> FullTag(v)] \in DOMAIN t

\* The registry begins with what other builds and promotions may have left there.
ASSUME PublishedAssumption ==
    /\ VersionsAreNamed(Published)
    /\ \A ref \in DOMAIN Published :
          LET image == Published[ref]
          IN  /\ image = [x \in DOMAIN image |-> image[x]]
              /\ {"kind", "by", "version", "manifests"} \subseteq DOMAIN image
              /\ image.by \notin Builds
    /\ \A in \in PromoteInputs : in.to.tag.num \in Seq(Nat)

\* The files of a build are pairs of a source and a destination.
ASSUME InputsAssumption ==
    \A in \in BuildInputs :
        /\ in.common \in Seq(STRING \X Seq(STRING))
        /\ in.platforms \in Seq([platform : STRING, files : Seq(STRING \X Seq(STRING))])

\* Whether a host runs the images of a build is known for the hosts that fetch.
ASSUME RankAssumption ==
    \A in \in BuildInputs : \A i \in DOMAIN in.platforms :
        \A host \in { f.platform : f \in FetchInputs } \cup { PlatformGeneric } :
            Rank(host, in.platforms[i].platform) \in Nat

Runs == Builds \cup Promotions \cup Fetches
NoLocal == [in |-> "none"]

VARIABLES
    tags,       \* tags[ref]: the image a reference names: an index or a single
                \* image, and of a promotion also the version
    pc,         \* pc[r]: where run r is
    loc,        \* loc[r]: its variables
    faults,     \* calls that have failed
    during      \* during[r]: the runs of its step that were under way while r was
                \* (history)

vars == <<tags, pc, loc, faults, during>>

Init ==
    /\ tags = Published
    /\ pc = [r \in Runs |-> "start"]
    /\ loc = [r \in Runs |-> NoLocal]
    /\ faults = 0
    /\ during = [r \in Builds \cup Promotions |-> {}]

Fault ==
    /\ faults < MaxFaults
    /\ faults' = faults + 1
NoFault == UNCHANGED faults

Go(r, to, local) ==
    /\ pc' = [pc EXCEPT ![r] = to]
    /\ loc' = [loc EXCEPT ![r] = local]

Begin(r, step) ==
    LET active == { q \in step : pc[q] \notin {"start", "done", "failed"} }
    IN  /\ pc[r] = "start"
        /\ during' = [q \in DOMAIN during |-> IF q = r THEN active
                                              ELSE IF q \in active THEN during[q] \cup {r}
                                              ELSE during[q]]

-------------------------------------------------------------------------------
(*****************************************************************************)
(* Calls to the registry.  A reference is [repo, tag], a repository          *)
(* [registry, name].                                                         *)
(*****************************************************************************)

AuthConfig(repo) ==
    repo \in DockerAuth.repos \/ repo.registry \in DockerAuth.registries
Resolve(repo) ==
    CASE DockerAuth.config \in {"unset", "empty"} -> "anonymous"
      [] DockerAuth.config = "invalid" -> "error"
      [] OTHER -> IF AuthConfig(repo) THEN "credentials" ELSE "anonymous"

Allowed(repo, auth) ==
    auth # "error" /\ (repo \in Private => auth = "credentials")
Names(ref, auth) == ref \in DOMAIN tags /\ Allowed(ref.repo, auth)
TagsOf(repo) == { ref.tag : ref \in { ref \in DOMAIN tags : ref.repo = repo } }

\* A write that succeeds goes on with `to`.  One that fails may have taken effect;
\* so may one after which the outputs of the step cannot be written.
Write(r, ref, image, to, local) ==
    LET written == [t \in DOMAIN tags \cup {ref} |-> IF t = ref THEN image ELSE tags[t]]
        allowed == Allowed(ref.repo, Resolve(ref.repo))
    IN  \/ /\ allowed /\ tags' = written
           /\ Go(r, to, local) /\ NoFault
        \/ /\ allowed /\ Fault /\ tags' \in {tags, written}
           /\ Go(r, "failed", loc[r])
        \/ /\ ~allowed /\ UNCHANGED tags
           /\ Go(r, "failed", loc[r]) /\ NoFault

\* All three steps require a registry, a repository and a tag.
NoTag == [num |-> <<>>, rel |-> ""]
ParseImageRef(ref) == ref.tag # NoTag /\ "" \notin {ref.repo.registry, ref.repo.name}

-------------------------------------------------------------------------------
(*****************************************************************************)
(* build                                                                     *)
(*****************************************************************************)

ParseBuildInputs(in) ==
    /\ ParseImageRef(in.ref)
    /\ FilesAreNamed(in.common) /\ PlatformsAreValid(in.platforms)

\* Any answer but a descriptor, an error too, counts as not published.
AlreadyPublished_Never(b, in) ==
    Go(b, "checked", [in |-> in, head |-> "absent"]) /\ NoFault
AlreadyPublished(b, in) ==
    \/ /\ Names(in.ref, Resolve(in.ref.repo))
       /\ Go(b, "failed", NoLocal) /\ NoFault
    \/ /\ ~Names(in.ref, Resolve(in.ref.repo))
       /\ Go(b, "checked", [in |-> in, head |-> "absent"]) /\ NoFault
    \/ /\ Fault
       /\ Go(b, "checked", [in |-> in, head |-> "error"])

BuildStart(b) ==
    /\ Begin(b, Builds)
    /\ \E in \in BuildInputs :
          \/ ~ParseBuildInputs(in) /\ Go(b, "failed", NoLocal) /\ NoFault
          \/ ParseBuildInputs(in) /\ AlreadyPublished(b, in)
    /\ UNCHANGED tags

\* The index is new for each build: it holds the time.  A directory of archives
\* lives from here to the end of the push.
Release(b) ==
    LET in == loc[b].in
        common == ParseCommon(in.common)
        platformSpecific == ParsePlatforms(in.platforms)
        built == platformSpecific = <<>> \/ SourcesExist(common \o platformSpecific)
    IN  /\ pc[b] = "checked"
        /\ \/ ~built /\ Go(b, "failed", loc[b]) /\ NoFault /\ UNCHANGED tags
           \/ /\ built
              /\ Write(b, in.ref,
                       [kind |-> "index", by |-> b, version |-> <<>>,
                        manifests |-> BuildImageIndex(common, platformSpecific)],
                       "done", loc[b])
        /\ UNCHANGED during

-------------------------------------------------------------------------------
(*****************************************************************************)
(* promote                                                                   *)
(*****************************************************************************)

\* The image must be named with a tag or a digest, the version be x.y.z or x.y.z-rel.
ParsePromoteInputs(in) ==
    ParseImageRef(in.from) /\ ParseImageRef(in.to) /\ Len(in.to.tag.num) = 3

ListTags(p) ==
    /\ Begin(p, Promotions)
    /\ \E in \in PromoteInputs :
          LET repo == in.to.repo
              refs == SemVerRefs(in.to.tag, TagsOf(repo))
              fails == ~ParsePromoteInputs(in) \/ ~Allowed(repo, Resolve(repo))
          IN  \/ fails /\ Go(p, "failed", NoLocal) /\ NoFault
              \/ ~fails /\ Go(p, "read", [in |-> in, refs |-> refs]) /\ NoFault
              \/ ~fails /\ Go(p, "failed", NoLocal) /\ Fault
    /\ UNCHANGED tags

\* remote.Image of an index gives its image for linux/amd64.
NoImage == [kind |-> "none"]
ImageOf(image) ==
    LET i == FindManifestForPlatform("linux/amd64", image.manifests)
    IN  CASE image.kind = "image" -> image
          [] image.kind = "index" /\ i = 0 -> NoImage
          [] OTHER -> [image EXCEPT !.kind = "image", !.manifests = <<image.manifests[i]>>]

\* Each copy reads the source again.  If that fails as an index, it is read as an
\* image, which may then succeed for an index as well.
CopyRead(p) ==
    LET from == loc[p].in.from
        Copy(image) ==
            IF image = NoImage THEN Go(p, "failed", loc[p])
            ELSE Go(p, "write", [in |-> loc[p].in, refs |-> loc[p].refs, image |-> image])
    IN  /\ pc[p] = "read"
        /\ \/ /\ Names(from, Resolve(from.repo))
              /\ Copy(tags[from]) /\ NoFault
           \/ /\ Names(from, Resolve(from.repo))
              /\ Copy(ImageOf(tags[from])) /\ Fault
           \/ ~Names(from, Resolve(from.repo)) /\ Go(p, "failed", loc[p]) /\ NoFault
           \/ Go(p, "failed", loc[p]) /\ Fault
        /\ UNCHANGED <<tags, during>>

CopyWrite(p) ==
    LET in == loc[p].in
        rest == Tail(loc[p].refs)
    IN  /\ pc[p] = "write"
        /\ Write(p, [repo |-> in.to.repo, tag |-> Head(loc[p].refs)],
                 [loc[p].image EXCEPT !.version = in.to.tag.num],
                 IF rest = <<>> THEN "done" ELSE "read",
                 [loc[p] EXCEPT !.refs = rest])
        /\ UNCHANGED during

-------------------------------------------------------------------------------
(*****************************************************************************)
(* fetch: Client.Pull, which does not authenticate                           *)
(*****************************************************************************)

\* What is fetched is the index that the tag names now: the rest goes by digest.
FetchImage(f) ==
    /\ pc[f] = "start"
    /\ \E in \in FetchInputs :
          LET image == IF Names(in.ref, "anonymous") THEN tags[in.ref] ELSE NoImage
              m == IF image.kind # "index" THEN 0
                   ELSE FindManifestForPlatforms(<<in.platform, PlatformGeneric>>,
                                                 image.manifests)
              fails == ~ParseImageRef(in.ref) \/ m = 0
          IN  \/ fails /\ Go(f, "failed", NoLocal) /\ NoFault
              \/ ~fails /\ Go(f, "failed", NoLocal) /\ Fault
              \/ /\ ~fails /\ NoFault
                 /\ Go(f, "layers", [in |-> in, by |-> image.by, dir |-> <<>>,
                                     entries |-> FlattenSeq(image.manifests[m].layers)])
    /\ UNCHANGED <<tags, during>>

\* One file of a layer.  After an error what is written stays on disk.
WriteLayer(f) ==
    LET entries == loc[f].entries
        entry == Head(entries)
        dir == loc[f].dir
    IN  /\ pc[f] = "layers"
        /\ entries # <<>>
        /\ \/ /\ IF MayOpen(dir, entry.path, loc[f].in.root)
                 THEN Go(f, "layers",
                         [loc[f] EXCEPT !.dir = WriteFile(dir, entry.path, entry.content),
                                        !.entries = Tail(entries)])
                 ELSE Go(f, "failed", loc[f])
              /\ NoFault
           \/ Go(f, "failed", loc[f]) /\ Fault
        /\ UNCHANGED <<tags, during>>

\* The outputs tell the directory.
FetchOutputs(f) ==
    /\ pc[f] = "layers" /\ loc[f].entries = <<>>
    /\ \/ Go(f, "done", loc[f]) /\ NoFault
       \/ Go(f, "failed", loc[f]) /\ Fault
    /\ UNCHANGED <<tags, during>>

-------------------------------------------------------------------------------
Next ==
    \/ \E b \in Builds : BuildStart(b) \/ Release(b)
    \/ \E p \in Promotions : ListTags(p) \/ CopyRead(p) \/ CopyWrite(p)
    \/ \E f \in Fetches : FetchImage(f) \/ WriteLayer(f) \/ FetchOutputs(f)

Spec == Init /\ [][Next]_vars

-------------------------------------------------------------------------------
(*****************************************************************************)
(* Properties                                                                *)
(*****************************************************************************)

\* A release is replaced under its tag only by a build that looked for the tag
\* before the other one pushed it, or that got an error instead of an answer
\* (Releaser.Release, alreadyPublished).
ReleasesAreKept ==
    [][\A ref \in DOMAIN tags : \A b \in Builds :
          tags'[ref] # tags[ref] /\ pc[b] = "checked" /\ pc'[b] # "checked" =>
             loc[b].head = "error" \/ tags[ref].by \in during[b]]_vars

Older(v, w) ==
    \E i \in 1..3 : v[i] < w[i] /\ SubSeq(v, 1, i - 1) = SubSeq(w, 1, i - 1)

\* A promotion takes a tag such as 1.2, 1 or latest from a newer version to an
\* older one only if the promotion of the newer one ran at the same time, whatever
\* promotions failed before and wherever they stopped (SemVerRefs, CopyAll).
MovingTagsAdvance ==
    [][\A ref \in DOMAIN tags : \A p \in Promotions :
          /\ pc[p] = "write" /\ pc'[p] # "write"
          /\ tags'[ref] # tags[ref]
          /\ tags[ref].version # <<>> /\ Older(tags'[ref].version, tags[ref].version)
          => \E q \in during[p] \cap Promotions :
                loc[q] # NoLocal /\ loc[q].in.to.tag.num = tags[ref].version]_vars

\* The platforms that a build has files for; those of them that fit a host best; the
\* ones of which a host may get the image; and all files in the image for one.
Offered(in) == { a.platform : a \in ToSet(ParsePlatforms(in.platforms)) }
Best(host, in) ==
    LET fit == { p \in Offered(in) : Rank(host, p) # 0 }
    IN  { p \in fit : \A q \in fit : Rank(host, p) <= Rank(host, q) }
Picked(host, in) ==
    IF Best(host, in) # {} THEN Best(host, in) ELSE Best(PlatformGeneric, in)
FilesFor(in, platform) ==
    FlattenSeq(BuildImageLayers(ParseCommon(in.common)
                                \o ForPlatform(ParsePlatforms(in.platforms), platform)))

\* The files of a step that was fetched are those that the build of the image had
\* for the platform that fits best, and each one begins with the content of the last
\* artifact that names it, even if the tag moved meanwhile (Client.Pull,
\* DiskLayerWriter).
FetchedFilesAreReleased ==
    \A f \in Fetches : pc[f] = "done" /\ loc[f].by \in Builds =>
        \E platform \in Picked(loc[f].in.platform, loc[loc[f].by].in) :
            LET all == FilesFor(loc[loc[f].by].in, platform)
                last(path) == SelectLastInSeq(all, LAMBDA e : e.path = path)
            IN  /\ DOMAIN loc[f].dir = { e.path : e \in ToSet(all) }
                /\ \A path \in DOMAIN loc[f].dir :
                      IsPrefix(all[last(path)].content, loc[f].dir[path])
===============================================================================
