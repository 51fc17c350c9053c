-------------------------------- MODULE GitCache --------------------------------
(*****************************************************************************)
(* The cache of git repositories (pkg/cache/git).  Its directory is the same *)
(* for all processes on a host; a mutex only keeps the calls of one process  *)
(* apart.  The model has one repository, with what clone and fetch of go-git *)
(* leave on disk as far as GitFetcher relies on it.                          *)
(*                                                                           *)
(* A commit stands for its hash and its tree.  An annotated tag only differs *)
(* from its commit in the name of the directory, and is left out.            *)
(*****************************************************************************)
EXTENDS Naturals, FiniteSets, SequencesExt

CONSTANTS
    Calls,          \* calls of Get
    ProcessOf,      \* ProcessOf[g]: the process that makes call g
    VersionOf,      \* VersionOf[g]: the version that call g asks for
    Names,          \* names of tags and branches; any other version is a commit
    Commits,
    Tags,           \* Tags[n]: the commit of a tag, once it is pushed
    Branches,       \* Branches[n]: the commits of a branch, in the order of pushes
    MaxCrashes      \* processes that may die

Processes == { ProcessOf[g] : g \in Calls }
None == "none"

\* A branch or a tag that is never pushed has no commits.  A hash is never one of
\* the words that the model uses for other outcomes of Get.
ASSUME GitAssumption ==
    /\ Commits \cap {None, "error", "not found"} = {}
    /\ Tags \in [Names -> Commits \cup {None}]
    /\ Branches \in [Names -> Seq(Commits)]

NoRefs == [tag |-> [n \in Names |-> None], branch |-> [n \in Names |-> None],
           commits |-> {}]

VARIABLES
    remote,     \* what the remote repository has: its refs, and their commits
    local,      \* what the repository in the cache has of it
    gitDir,     \* the directory of that: "absent", "partial" or "whole"
    stepDirs,   \* stepDirs[c]: the directory that holds the tree of c
    mu,         \* mu[p]: the call that holds the mutex of process p
    pc, commit, worktree,   \* state of the calls; worktree is the temporary copy
    result,     \* what a call has returned
    named,      \* the remote had the version when the call began
    cloneFailed,    \* a clone has failed and removed its directory
    dead        \* the processes that have died

shared == <<local, gitDir, stepDirs>>
gitVars == <<remote, shared, mu, pc, commit, worktree, result, named, cloneFailed, dead>>

GitInit ==
    /\ remote = NoRefs /\ local = NoRefs
    /\ gitDir = "absent"
    /\ stepDirs = [c \in Commits |-> "absent"]
    /\ mu = [p \in Processes |-> None]
    /\ pc = [g \in Calls |-> "call"]
    /\ commit = [g \in Calls |-> None]
    /\ worktree = [g \in Calls |-> "absent"]
    /\ result = [g \in Calls |-> None]
    /\ named = [g \in Calls |-> FALSE]
    /\ cloneFailed = FALSE
    /\ dead = {}

-------------------------------------------------------------------------------
(*****************************************************************************)
(* The remote repository, and processes that die                             *)
(*****************************************************************************)

Tips(refs) ==
    (UNION { {refs.tag[n], refs.branch[n]} : n \in Names }) \ {None}
SetRef(kind, n, c) ==
    LET refs == IF kind = "tag" THEN [remote EXCEPT !.tag[n] = c]
                ELSE [remote EXCEPT !.branch[n] = c]
    IN  remote' = [refs EXCEPT !.commits = Tips(refs)]

Push ==
    /\ \E n \in Names :
          \/ remote.tag[n] = None /\ Tags[n] # None /\ SetRef("tag", n, Tags[n])
          \/ \E i \in DOMAIN Branches[n] :
                /\ remote.branch[n] = IF i = 1 THEN None ELSE Branches[n][i - 1]
                /\ SetRef("branch", n, Branches[n][i])
    /\ UNCHANGED <<shared, mu, pc, commit, worktree, result, named, cloneFailed, dead>>

\* What a process leaves behind stays as it is, and nobody waits for its mutex.
Crash(p) ==
    /\ p \notin dead /\ Cardinality(dead) < MaxCrashes
    /\ dead' = dead \cup {p}
    /\ pc' = [g \in Calls |-> IF ProcessOf[g] = p THEN "dead" ELSE pc[g]]
    /\ UNCHANGED <<remote, shared, mu, commit, worktree, result, named,
                   cloneFailed>>

-------------------------------------------------------------------------------
(*****************************************************************************)
(* Get                                                                       *)
(*****************************************************************************)

Goto(g, next) == pc' = [pc EXCEPT ![g] = next]

\* Get returns r; the deferred calls remove the temporary copy and unlock.
Return(g, r) ==
    /\ Goto(g, "done")
    /\ result' = [result EXCEPT ![g] = r]
    /\ worktree' = [worktree EXCEPT ![g] = "absent"]
    /\ mu' = [mu EXCEPT ![ProcessOf[g]] = None]

\* Mutant of Lookup: a commit that is not known is replaced by a branch.
Lookup_Default(refs, version) ==
    IF version \in Names \/ version \in refs.commits \/ Tips(refs) = {}
    THEN IF version \in Names /\ refs.tag[version] # None THEN refs.tag[version]
         ELSE IF version \in Names THEN refs.branch[version]
         ELSE IF version \in refs.commits THEN version ELSE None
    ELSE CHOOSE c \in Tips(refs) : TRUE

\* find: a tag, a branch, or a commit that is known; with a depth of 1, that is
\* one that a tag or a branch leads to or has led to.
Lookup(refs, version) ==
    CASE version \in Names /\ refs.tag[version] # None -> refs.tag[version]
      [] version \in Names /\ refs.tag[version] = None -> refs.branch[version]
      [] version \notin Names /\ version \in refs.commits -> version
      [] OTHER -> None

Lock(g) ==
    /\ pc[g] = "call" /\ mu[ProcessOf[g]] = None
    /\ mu' = [mu EXCEPT ![ProcessOf[g]] = g]
    /\ named' = [named EXCEPT ![g] = VersionOf[g] \in Names
                                     /\ Lookup(remote, VersionOf[g]) # None]
    /\ Goto(g, "stat")
    /\ UNCHANGED <<remote, shared, commit, worktree, result, cloneFailed, dead>>

\* Whatever is at the place of the repository is opened, which may fail.
Stat(g) ==
    /\ pc[g] = "stat"
    /\ \/ gitDir = "absent" /\ Goto(g, "clone") /\ UNCHANGED <<mu, worktree, result>>
       \/ gitDir # "absent" /\ Goto(g, "find") /\ UNCHANGED <<mu, worktree, result>>
       \/ Return(g, "error")
    /\ UNCHANGED <<remote, shared, commit, named, cloneFailed, dead>>

\* A clone begins with a directory that another process can see.  It fails if
\* that process has been faster.
CloneBegin(g) ==
    /\ pc[g] = "clone"
    /\ \/ /\ gitDir = "absent"
          /\ gitDir' = "partial" /\ local' = NoRefs
          /\ Goto(g, "cloning")
          /\ UNCHANGED <<mu, worktree, result>>
       \/ Return(g, "error") /\ UNCHANGED <<gitDir, local>>
    /\ UNCHANGED <<remote, stepDirs, commit, named, cloneFailed, dead>>

\* A clone that fails removes its directory.
CloneEnd(g) ==
    /\ pc[g] = "cloning"
    /\ \/ /\ gitDir' = "whole" /\ local' = remote
          /\ Goto(g, "find")
          /\ UNCHANGED <<mu, worktree, result, cloneFailed>>
       \/ /\ gitDir' = "absent" /\ local' = NoRefs
          /\ cloneFailed' = TRUE
          /\ Return(g, "error")
    /\ UNCHANGED <<remote, stepDirs, commit, named, dead>>

\* findFetchAndFindAgain: a version that the repository has is not looked for in
\* the remote one.
Find(g) ==
    /\ pc[g] \in {"find", "again"}
    /\ LET c == Lookup(local, VersionOf[g]) IN
       \/ /\ c # None /\ gitDir # "absent"
          /\ commit' = [commit EXCEPT ![g] = c]
          /\ Goto(g, "worktree")
          /\ UNCHANGED <<mu, worktree, result>>
       \/ /\ c = None /\ gitDir # "absent" /\ pc[g] = "find"
          /\ Goto(g, "fetch")
          /\ UNCHANGED <<mu, commit, worktree, result>>
       \/ /\ c = None /\ gitDir # "absent" /\ pc[g] = "again"
          /\ Return(g, "not found") /\ UNCHANGED commit
       \/ Return(g, "error") /\ UNCHANGED commit
    /\ UNCHANGED <<remote, shared, named, cloneFailed, dead>>

\* The refs are those of the remote; commits that were there before stay.
Fetch(g) ==
    /\ pc[g] = "fetch"
    /\ \/ /\ gitDir # "absent"
          /\ local' = [remote EXCEPT !.commits = @ \cup local.commits]
          /\ Goto(g, "again")
          /\ UNCHANGED <<gitDir, mu, worktree, result>>
       \/ Return(g, "error") /\ UNCHANGED <<gitDir, local>>
    /\ UNCHANGED <<remote, stepDirs, commit, named, cloneFailed, dead>>

\* Mutant of Worktree: the tree is copied to its place.
Worktree_InPlace(g) ==
    /\ pc[g] = "worktree"
    /\ stepDirs' = [stepDirs EXCEPT ![commit[g]] = IF @ = "absent" THEN "partial" ELSE @]
    /\ worktree' = [worktree EXCEPT ![g] = "partial"]
    /\ Goto(g, "copy")
    /\ UNCHANGED <<remote, local, gitDir, mu, commit, result, named, cloneFailed, dead>>

\* The tree is copied to a temporary directory, file by file ...
Worktree(g) ==
    /\ pc[g] = "worktree"
    /\ \/ /\ worktree' = [worktree EXCEPT ![g] = "partial"]
          /\ Goto(g, "copy")
          /\ UNCHANGED <<mu, result>>
       \/ Return(g, "error")
    /\ UNCHANGED <<remote, shared, commit, named, cloneFailed, dead>>

Copy(g) ==
    /\ pc[g] = "copy"
    /\ \/ /\ worktree' = [worktree EXCEPT ![g] = "whole"]
          /\ Goto(g, "rename")
          /\ UNCHANGED <<mu, result>>
       \/ Return(g, "error")
    /\ UNCHANGED <<remote, shared, commit, named, cloneFailed, dead>>

\* ... which is renamed, unless the directory of the commit exists.
Rename(g) ==
    /\ pc[g] = "rename"
    /\ \/ /\ stepDirs[commit[g]] = "absent"
          /\ stepDirs' = [stepDirs EXCEPT ![commit[g]] = worktree[g]]
          /\ Return(g, commit[g])
       \/ /\ stepDirs[commit[g]] # "absent"
          /\ Return(g, commit[g])
          /\ UNCHANGED stepDirs
       \/ Return(g, "error") /\ UNCHANGED stepDirs
    /\ UNCHANGED <<remote, local, gitDir, commit, named, cloneFailed, dead>>

GetStep(g) ==
    \/ Lock(g) \/ Stat(g) \/ CloneBegin(g) \/ CloneEnd(g) \/ Find(g) \/ Fetch(g)
    \/ Worktree(g) \/ Copy(g) \/ Rename(g)

GitNext ==
    \/ Push
    \/ \E p \in Processes : Crash(p)
    \/ \E g \in Calls : GetStep(g)

GitSpec == GitInit /\ [][GitNext]_gitVars

-------------------------------------------------------------------------------
(*****************************************************************************)
(* Properties                                                                *)
(*****************************************************************************)

\* The directory of a commit holds its whole tree, whichever processes die or
\* overlap: whoever finds it there runs steps from it without a further look.
StepDirsAreWhole == \A c \in Commits : stepDirs[c] \in {"absent", "whole"}

\* Get returns the directory of a commit that its version names in the remote
\* repository or has named before, and the directory is there.  A version that is in
\* the remote repository is found, also when the cached one is older or only half
\* cloned; otherwise there is an error.  The exception: a process whose clone fails
\* removes the directory that others have opened.
GetReturnsTheVersion ==
    \A g \in Calls :
        /\ result[g] \in Commits =>
              /\ stepDirs[result[g]] = "whole"
              /\ IF VersionOf[g] \in Names
                 THEN result[g] \in {Tags[VersionOf[g]]} \cup ToSet(Branches[VersionOf[g]])
                 ELSE result[g] = VersionOf[g]
        /\ named[g] /\ ~cloneFailed => result[g] # "not found"
===============================================================================
