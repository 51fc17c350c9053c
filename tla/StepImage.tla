------------------------------- MODULE StepImage -------------------------------
(*****************************************************************************)
(* The data of the oci steps: what build makes of its inputs, the image that *)
(* fetch picks for a platform, and the tags that promote gives a version.    *)
(*                                                                           *)
(* A path is a sequence of names, the content of a file a sequence of blocks.*)
(* A tag is a record: num holds the numbers of 1.2.3, 1.2 or 1, and rel what *)
(* follows them ("-rc") or, without numbers, the whole tag ("latest").       *)
(*****************************************************************************)
EXTENDS Naturals, Sequences, SequencesExt

CONSTANTS
    Sources,    \* Sources[src]: the files below a path that build may copy
    Rank(_, _)  \* Rank(p, q): how well a host p runs an image for q; 0: it does not

ASSUME SourcesAssumption ==
    \A src \in DOMAIN Sources :
        Sources[src] \in Seq([path : Seq(STRING), content : Seq(STRING)])

PlatformGeneric == "generic"

-------------------------------------------------------------------------------
(*****************************************************************************)
(* build: from inputs to layers                                              *)
(*****************************************************************************)

NewArtifact(platform, src, dst) == [platform |-> platform, src |-> src, dst |-> dst]

\* files holds pairs of a source and a destination, in the order of the sources.  A
\* destination is a path, as filepath.Clean leaves it.
FilesAreNamed(files) == \A i \in DOMAIN files : files[i][1] # "" /\ files[i][2] # <<>>
BuildArtifacts(platform, files) ==
    [i \in DOMAIN files |-> NewArtifact(platform, files[i][1], files[i][2])]

ForPlatform(artifacts, platform) ==
    LET Of[n \in 0..Len(artifacts)] ==
          IF n = 0 THEN <<>>
          ELSE IF artifacts[n].platform = platform THEN Append(Of[n - 1], artifacts[n])
          ELSE Of[n - 1]
    IN  Of[Len(artifacts)]

Platforms(artifacts) ==
    LET Of[n \in 0..Len(artifacts)] ==
          IF n = 0 THEN <<>>
          ELSE LET unique == Of[n - 1] IN
               IF artifacts[n].platform \in ToSet(unique) THEN unique
               ELSE Append(unique, artifacts[n].platform)
    IN  Of[Len(artifacts)]

\* platforms holds records of a platform, "" unless its name is os/arch, and files.
\* Two names may be one platform, which is an error if the first one has files.
PlatformsAreValid(platforms) ==
    /\ platforms # <<>>
    /\ \A i \in DOMAIN platforms :
          /\ platforms[i].platform # "" /\ FilesAreNamed(platforms[i].files)
          /\ \A k \in 1..(i - 1) : platforms[k].platform = platforms[i].platform
                                  => platforms[k].files = <<>>
ParsePlatforms(platforms) ==
    FlattenSeq([i \in DOMAIN platforms |->
                   BuildArtifacts(platforms[i].platform, platforms[i].files)])

ParseCommon(files) == BuildArtifacts(PlatformGeneric, files)

\* The entries of the archive of one artifact: a file below its destination for
\* each one below its source.
BuildLayer(a) ==
    [i \in DOMAIN Sources[a.src] |->
        [path |-> a.dst \o Sources[a.src][i].path,
         content |-> Sources[a.src][i].content]]

SourcesExist(artifacts) == \A a \in ToSet(artifacts) : a.src \in DOMAIN Sources
BuildImageLayers(artifacts) == [i \in DOMAIN artifacts |-> BuildLayer(artifacts[i])]

\* A platform without files of its own is not among Platforms: it gets no image.
BuildImageIndex(common, platformSpecific) ==
    LET all == Platforms(platformSpecific)
    IN  [i \in DOMAIN all |->
            [platform |-> all[i],
             layers |-> BuildImageLayers(common \o ForPlatform(platformSpecific, all[i]))]]

-------------------------------------------------------------------------------
(*****************************************************************************)
(* fetch: from an index to files                                             *)
(*****************************************************************************)

\* The first of the manifests that fit best; 0 if none fits.
FindManifestForPlatform(platform, manifests) ==
    LET rank(i) == Rank(platform, manifests[i].platform)
        fit == { i \in DOMAIN manifests : rank(i) # 0 }
    IN  IF fit = {} THEN 0
        ELSE CHOOSE i \in fit : \A k \in fit :
                 \/ rank(i) < rank(k)
                 \/ rank(i) = rank(k) /\ i <= k

\* The one for the first of the platforms that has one.
FindManifestForPlatforms(findFor, manifests) ==
    LET Found(i) == FindManifestForPlatform(findFor[i], manifests)
        found == { i \in DOMAIN findFor : Found(i) # 0 }
    IN  IF found = {} THEN 0 ELSE Found(Min(found))

\* Files are created read-only: only root may open one again.  No file can be where a
\* directory is, nor a directory where a file is.
MayOpen(dir, path, root) ==
    /\ path \in DOMAIN dir => root
    /\ \A p \in DOMAIN dir \ {path} : ~IsPrefix(p, path) /\ ~IsPrefix(path, p)

\* A file is opened without O_TRUNC, so the end of a longer old content stays.
WriteFile_KeepsOld(dir, path, content) ==
    [p \in DOMAIN dir \cup {path} |-> IF p \in DOMAIN dir THEN dir[p] ELSE content]
WriteFile(dir, path, content) ==
    LET old == IF path \in DOMAIN dir THEN dir[path] ELSE <<>>
    IN  [p \in DOMAIN dir \cup {path} |->
            IF p # path THEN dir[p]
            ELSE content \o SubSeq(old, Len(content) + 1, Len(old))]

-------------------------------------------------------------------------------
(*****************************************************************************)
(* promote: from a version to tags                                           *)
(*****************************************************************************)

Latest == [num |-> <<>>, rel |-> "latest"]

\* Tags such as 1.2, latest or 1.2.3-rc are no versions.
ParseSemanticVersions(tags) == { t.num : t \in { t \in tags : Len(t.num) = 3 /\ t.rel = "" } }

IsMostRecentPatchForMajorMinor(v, existing) ==
    \A e \in existing : e[1] = v[1] /\ e[2] = v[2] => e[3] <= v[3]
IsMostRecentMinorForMajor(v, existing) ==
    \A e \in existing : e[1] = v[1] => e[2] <= v[2]
IsMostRecentMajor(v, existing) ==
    \A e \in existing : e[1] <= v[1]

TagsToUpdate(v, existing) ==
    LET patch == IsMostRecentPatchForMajorMinor(v, existing)
        minor == patch /\ IsMostRecentMinorForMajor(v, existing)
        major == minor /\ IsMostRecentMajor(v, existing)
        Tag(n) == [num |-> SubSeq(v, 1, n), rel |-> ""]
    IN  <<Tag(3)>> \o (IF patch THEN <<Tag(2)>> ELSE <<>>)
                   \o (IF minor THEN <<Tag(1)>> ELSE <<>>)
                   \o (IF major THEN <<Latest>> ELSE <<>>)

SemVerRefs_MovingFirst(to, tags) ==
    Reverse(TagsToUpdate(to.num, ParseSemanticVersions(tags)))
SemVerRefs(to, tags) ==
    IF to.rel # "" THEN <<to>>
    ELSE TagsToUpdate(to.num, ParseSemanticVersions(tags))
===============================================================================
