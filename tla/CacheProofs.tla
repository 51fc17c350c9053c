------------------------------ MODULE CacheProofs ------------------------------
(*****************************************************************************)
(* The safety properties of the two caches, proved for any number of         *)
(* processes, calls, versions and commits.                                   *)
(*****************************************************************************)
EXTENDS GitCache, DistCache, TLAPS

-------------------------------------------------------------------------------
(*****************************************************************************)
(* The git cache                                                             *)
(*****************************************************************************)

RefSet == [tag : [Names -> Commits \cup {None}],
           branch : [Names -> Commits \cup {None}],
           commits : SUBSET Commits]

\* A repository only has tags and branches that were pushed.
Genuine(refs) ==
    /\ refs \in RefSet
    /\ \A n \in Names : /\ refs.tag[n] \in {Tags[n], None}
                        /\ refs.branch[n] \in ToSet(Branches[n]) \cup {None}

\* The commit c is what the version of g names, or has named.
IsVersion(g, c) ==
    /\ c \in Commits
    /\ IF VersionOf[g] \in Names
       THEN c \in {Tags[VersionOf[g]]} \cup ToSet(Branches[VersionOf[g]])
       ELSE c = VersionOf[g]

GitTypes ==
    /\ stepDirs \in [Commits -> {"absent", "whole"}]
    /\ pc \in [Calls -> {"call", "stat", "clone", "cloning", "find", "fetch", "again",
                         "worktree", "copy", "rename", "done", "dead"}]
    /\ commit \in [Calls -> Commits \cup {None}]
    /\ worktree \in [Calls -> {"absent", "partial", "whole"}]
    /\ result \in [Calls -> Commits \cup {None, "error", "not found"}]
    /\ named \in [Calls -> BOOLEAN]
    /\ cloneFailed \in BOOLEAN

\* A call that copies a tree copies that of its version, and the copy is whole
\* before it is renamed.
CopiesTheVersion ==
    \A g \in Calls :
        /\ pc[g] \in {"worktree", "copy", "rename"} => IsVersion(g, commit[g])
        /\ pc[g] = "rename" => worktree[g] = "whole"

\* What a call returned is the directory of its version.
ReturnsADirectory ==
    \A g \in Calls :
        /\ pc[g] \notin {"done", "dead"} => result[g] = None
        /\ result[g] \in Commits =>
              IsVersion(g, result[g]) /\ stepDirs[result[g]] = "whole"

\* A version that was there stays there, and once fetched it is in the repository
\* of the cache until a clone fails.
NamedIsFound ==
    \A g \in Calls : named[g] =>
        /\ VersionOf[g] \in Names /\ Lookup(remote, VersionOf[g]) # None
        /\ ~cloneFailed /\ pc[g] = "again" =>
              gitDir # "absent" /\ Lookup(local, VersionOf[g]) # None
        /\ ~cloneFailed => result[g] # "not found"

GitInv ==
    /\ GitTypes
    /\ Genuine(remote) /\ Genuine(local)
    /\ CopiesTheVersion
    /\ ReturnsADirectory
    /\ NamedIsFound

\* What find returns is named by the version.
LEMMA LookupIsVersion ==
    ASSUME NEW refs, Genuine(refs), NEW g \in Calls, Lookup(refs, VersionOf[g]) # None
    PROVE  IsVersion(g, Lookup(refs, VersionOf[g]))
  BY DEF Genuine, RefSet, Lookup, IsVersion

\* A tag goes before a branch of the same name.
LEMMA LookupName ==
    ASSUME NEW refs, NEW n \in Names
    PROVE  Lookup(refs, n) = IF refs.tag[n] # None THEN refs.tag[n] ELSE refs.branch[n]
  BY DEF Lookup

\* The words for other outcomes are not commits.
LEMMA NotCommits ==
    None \notin Commits /\ "error" \notin Commits /\ "not found" \notin Commits
  BY GitAssumption

\* An empty repository is genuine, and so is what a fetch makes of two.
LEMMA GenuineRepositories ==
    /\ Genuine(NoRefs)
    /\ \A refs, old : Genuine(refs) /\ Genuine(old) =>
          Genuine([refs EXCEPT !.commits = @ \cup old.commits])
  BY DEF Genuine, RefSet, NoRefs

\* The commits of a remote repository are those of its tags and branches.
LEMMA TipsAreCommits ==
    ASSUME NEW refs \in RefSet
    PROVE  Tips(refs) \subseteq Commits
  <1> SUFFICES ASSUME NEW c \in Tips(refs) PROVE c \in Commits
    OBVIOUS
  <1>1. PICK n \in Names : c \in {refs.tag[n], refs.branch[n]} /\ c # None
    <2>1. PICK S \in { {refs.tag[n], refs.branch[n]} : n \in Names } : c \in S
      BY DEF Tips
    <2>2. c # None
      BY DEF Tips
    <2>3. QED
      BY <2>1, <2>2
  <1>2. QED
    BY <1>1 DEF RefSet

\* A push adds a tag or moves a branch, and no version vanishes.
KeepsVersions ==
    /\ Genuine(remote')
    /\ \A n \in Names : Lookup(remote, n) # None => Lookup(remote', n) # None

\* A push to the remote repository takes no version away.
LEMMA PushKeepsVersions ==
    ASSUME Genuine(remote), Push
    PROVE  KeepsVersions
  <1>1. ASSUME NEW n \in Names, Tags[n] # None, SetRef("tag", n, Tags[n])
        PROVE  KeepsVersions
    <2> DEFINE refs == [remote EXCEPT !.tag[n] = Tags[n]]
    <2>1. /\ refs \in RefSet /\ refs.branch = remote.branch
          /\ refs.tag = [remote.tag EXCEPT ![n] = Tags[n]]
      BY <1>1, GitAssumption DEF Genuine, RefSet
    <2>2. remote' = [refs EXCEPT !.commits = Tips(refs)]
      BY <1>1 DEF SetRef
    <2>3. Tips(refs) \subseteq Commits
      BY <2>1, TipsAreCommits
    <2> HIDE DEF refs
    <2>4. remote' \in RefSet /\ remote'.tag = refs.tag /\ remote'.branch = refs.branch
      BY <2>1, <2>2, <2>3 DEF RefSet
    <2>5. QED
      BY <1>1, <2>1, <2>4 DEF KeepsVersions, Genuine, RefSet, Lookup
  <1>2. ASSUME NEW n \in Names, NEW i \in DOMAIN Branches[n],
               SetRef("branch", n, Branches[n][i])
        PROVE  KeepsVersions
    <2> DEFINE refs == [remote EXCEPT !.branch[n] = Branches[n][i]]
    <2>0. Branches[n][i] \in ToSet(Branches[n]) /\ Branches[n][i] \in Commits
      <3>1. Branches[n] \in Seq(Commits)
        BY GitAssumption
      <3>2. Branches[n][i] \in Commits
        BY <3>1
      <3>3. Branches[n][i] \in ToSet(Branches[n])
        BY Zenon DEF ToSet
      <3>4. QED
        BY <3>2, <3>3
    <2>1. /\ refs \in RefSet /\ refs.tag = remote.tag
          /\ refs.branch = [remote.branch EXCEPT ![n] = Branches[n][i]]
      BY <2>0 DEF Genuine, RefSet
    <2>2. remote' = [refs EXCEPT !.commits = Tips(refs)]
      BY <1>2 DEF SetRef
    <2>3. Tips(refs) \subseteq Commits
      BY <2>1, TipsAreCommits
    <2> HIDE DEF refs
    <2>4. remote' \in RefSet /\ remote'.tag = refs.tag /\ remote'.branch = refs.branch
      BY <2>1, <2>2, <2>3 DEF RefSet
    <2>5. QED
      <3>1. Genuine(remote')
        BY <2>0, <2>1, <2>4 DEF Genuine, RefSet
      <3>2. \A m \in Names : Lookup(remote, m) # None => Lookup(remote', m) # None
        <4> SUFFICES ASSUME NEW m \in Names, Lookup(remote, m) # None
                     PROVE  Lookup(remote', m) # None
          OBVIOUS
        <4>1. remote'.tag[m] = remote.tag[m]
          BY <2>1, <2>4
        <4>2. remote'.branch[m] = IF m = n THEN Branches[n][i] ELSE remote.branch[m]
          BY <2>1, <2>4 DEF Genuine, RefSet
        <4>3. QED
          BY <2>0, <4>1, <4>2, NotCommits, LookupName
      <3>3. QED
        BY <3>1, <3>2 DEF KeepsVersions
  <1>3. QED
    BY <1>1, <1>2 DEF Push

\* Get ends: with an error, or with a commit whose directory is there.
LEMMA ReturnInvariant ==
    ASSUME GitInv, NEW g \in Calls, NEW r, Return(g, r),
           \/ r = "error"
           \/ r = "not found" /\ ~(named[g] /\ ~cloneFailed')
           \/ r \in Commits /\ IsVersion(g, r) /\ stepDirs'[r] = "whole",
           stepDirs' \in [Commits -> {"absent", "whole"}],
           \A c \in Commits : stepDirs[c] = "whole" => stepDirs'[c] = "whole",
           cloneFailed' \in BOOLEAN, cloneFailed => cloneFailed',
           Genuine(remote), Genuine(local'), UNCHANGED <<remote, commit, named>>,
           UNCHANGED <<local, gitDir>> \/ cloneFailed'
    PROVE  GitInv'
  <1> USE NotCommits DEF GitInv, Return, Goto
  <1>1. GitTypes'
    BY DEF GitTypes
  <1>2. Genuine(remote)' /\ Genuine(local)'
    BY DEF Genuine
  <1>3. CopiesTheVersion'
    BY DEF GitTypes, CopiesTheVersion, IsVersion
  <1>4. ReturnsADirectory'
    <2>1. ASSUME NEW h \in Calls, h # g
          PROVE  /\ pc'[h] \notin {"done", "dead"} => result'[h] = None
                 /\ result'[h] \in Commits =>
                       IsVersion(h, result'[h]) /\ stepDirs'[result'[h]] = "whole"
      BY <2>1 DEF GitTypes, ReturnsADirectory
    <2>2. pc'[g] = "done" /\ result'[g] = r
      BY DEF GitTypes
    <2>3. QED
      BY <2>1, <2>2 DEF ReturnsADirectory, IsVersion
  <1>5. NamedIsFound'
    <2> SUFFICES ASSUME NEW h \in Calls, named[h]
                 PROVE  /\ VersionOf[h] \in Names /\ Lookup(remote, VersionOf[h]) # None
                        /\ ~cloneFailed' /\ pc'[h] = "again" =>
                              gitDir' # "absent" /\ Lookup(local', VersionOf[h]) # None
                        /\ ~cloneFailed' => result'[h] # "not found"
      BY DEF NamedIsFound
    <2>1. VersionOf[h] \in Names /\ Lookup(remote, VersionOf[h]) # None
      BY DEF NamedIsFound
    <2>2. CASE cloneFailed'
      BY <2>1, <2>2
    <2>3. CASE ~cloneFailed'
      <3>1. ~cloneFailed /\ UNCHANGED <<local, gitDir>>
        BY <2>3
      <3>2. pc'[h] = "again" => pc[h] = "again"
        BY DEF GitTypes
      <3>3. result'[h] # "not found"
        BY <2>3, <3>1 DEF GitTypes, NamedIsFound
      <3>4. QED
        BY <2>1, <3>1, <3>2, <3>3 DEF NamedIsFound
    <2>4. QED
      BY <2>2, <2>3
  <1>6. QED
    BY <1>1, <1>2, <1>3, <1>4, <1>5

\* What happens outside of Get.
LEMMA OutsideInvariant ==
    ASSUME GitInv, Push \/ \E p \in Processes : Crash(p)
    PROVE  GitInv'
  <1>1. CASE Push
    <2>1. KeepsVersions /\ UNCHANGED <<shared, pc, commit, worktree, result, named, cloneFailed>>
      BY <1>1, PushKeepsVersions DEF GitInv, Push
    <2>2. QED
      BY <2>1 DEF GitInv, GitTypes, Genuine, CopiesTheVersion, IsVersion,
                  ReturnsADirectory, NamedIsFound, KeepsVersions, shared
  <1>2. ASSUME NEW p \in Processes, Crash(p) PROVE GitInv'
    BY <1>2 DEF Crash, GitInv, GitTypes, Genuine, CopiesTheVersion, IsVersion,
                ReturnsADirectory, NamedIsFound, shared
  <1>3. QED
    BY <1>1, <1>2

\* Lock takes down whether the remote repository has the version.
LEMMA LockInvariant ==
    ASSUME GitInv, NEW g \in Calls, Lock(g)
    PROVE  GitInv'
  <1>1. /\ named' \in [Calls -> BOOLEAN]
        /\ \A h \in Calls : h # g => named'[h] = named[h]
        /\ named'[g] => VersionOf[g] \in Names /\ Lookup(remote, VersionOf[g]) # None
    BY Zenon DEF GitInv, GitTypes, Lock
  <1>2. result[g] # "not found"
    BY DEF GitInv, ReturnsADirectory, Lock, None
  <1>3. UNCHANGED <<remote, local, gitDir, stepDirs, commit, worktree, result, cloneFailed>>
    BY DEF Lock, shared
  <1>4. pc' = [pc EXCEPT ![g] = "stat"] /\ pc[g] = "call"
    BY DEF Lock, Goto
  <1>5. GitTypes' /\ Genuine(remote)' /\ Genuine(local)'
    BY <1>1, <1>3, <1>4 DEF GitInv, GitTypes, Genuine
  <1>6. CopiesTheVersion' /\ ReturnsADirectory'
    BY <1>3, <1>4 DEF GitInv, GitTypes, CopiesTheVersion, ReturnsADirectory, IsVersion
  <1>7. NamedIsFound'
    BY <1>1, <1>2, <1>3, <1>4 DEF GitInv, GitTypes, NamedIsFound
  <1>8. QED
    BY <1>5, <1>6, <1>7 DEF GitInv

\* Get goes on, with its version if it has found it.
LEMMA MoveInvariant ==
    ASSUME GitInv, NEW g \in Calls, pc[g] \notin {"done", "dead"}, NEW to, Goto(g, to),
           to \in {"clone", "cloning", "find", "fetch", "again", "worktree", "copy", "rename"},
           UNCHANGED <<remote, stepDirs, result, named, cloneFailed>>,
           commit' = [commit EXCEPT ![g] = commit'[g]],
           commit'[g] \in Commits \cup {None},
           to \in {"worktree", "copy", "rename"} => IsVersion(g, commit'[g]),
           worktree' = [worktree EXCEPT ![g] = worktree'[g]],
           worktree'[g] \in {"absent", "partial", "whole"},
           to = "rename" => worktree'[g] = "whole",
           Genuine(local'),
           \/ to # "again" /\ UNCHANGED <<local, gitDir>>
           \/ to # "again" /\ gitDir = "absent"
           \/ gitDir' # "absent" /\ \A n \in Names : Lookup(local', n) = Lookup(remote, n)
    PROVE  GitInv'
  <1> USE DEF GitInv, Goto
  <1>1. GitTypes'
    BY DEF GitTypes
  <1>2. Genuine(remote)' /\ Genuine(local)'
    BY DEF Genuine
  <1>3. CopiesTheVersion'
    BY DEF GitTypes, CopiesTheVersion, IsVersion
  <1>4. ReturnsADirectory'
    BY DEF GitTypes, ReturnsADirectory, IsVersion
  <1>5. NamedIsFound'
    BY DEF GitTypes, NamedIsFound
  <1>6. QED
    BY <1>1, <1>2, <1>3, <1>4, <1>5

\* A call that moves on has its commit and its copy as before, if it leaves them.
LEMMA Untouched ==
    ASSUME GitInv, NEW g \in Calls
    PROVE  /\ commit = [commit EXCEPT ![g] = commit[g]]
           /\ worktree = [worktree EXCEPT ![g] = worktree[g]]
           /\ commit[g] \in Commits \cup {None}
           /\ worktree[g] \in {"absent", "partial", "whole"}
           /\ \A c : [commit EXCEPT ![g] = c][g] = c
           /\ \A w : [worktree EXCEPT ![g] = w][g] = w
           /\ Genuine(remote) /\ Genuine(local)
           /\ stepDirs \in [Commits -> {"absent", "whole"}]
           /\ cloneFailed \in BOOLEAN
  BY DEF GitInv, GitTypes

\* The repository of the cache is made, or found to be there.
LEMMA CloneInvariant ==
    ASSUME GitInv, NEW g \in Calls, Stat(g) \/ CloneBegin(g) \/ CloneEnd(g)
    PROVE  GitInv'
  <1> USE GenuineRepositories, Untouched DEF shared
  <1>1. CASE Return(g, "error") /\ UNCHANGED <<local, gitDir, stepDirs, cloneFailed>>
    BY <1>1, ReturnInvariant DEF Stat, CloneBegin, CloneEnd
  <1>2. CASE CloneEnd(g) /\ Return(g, "error") /\ local' = NoRefs /\ cloneFailed'
    BY <1>2, ReturnInvariant DEF CloneEnd
  <1>3. CASE Stat(g) /\ (Goto(g, "clone") \/ Goto(g, "find"))
             /\ UNCHANGED <<worktree, result>>
    BY <1>3, MoveInvariant DEF Stat
  <1>4. CASE CloneBegin(g) /\ gitDir = "absent" /\ local' = NoRefs /\ gitDir' = "partial"
             /\ Goto(g, "cloning") /\ UNCHANGED <<worktree, result>>
    BY <1>4, MoveInvariant DEF CloneBegin
  <1>5. CASE CloneEnd(g) /\ local' = remote /\ Goto(g, "find") /\ gitDir' = "whole"
             /\ UNCHANGED <<worktree, result, cloneFailed>>
    BY <1>5, MoveInvariant DEF CloneEnd, GitInv, NamedIsFound
  <1>6. QED
    BY <1>1, <1>2, <1>3, <1>4, <1>5 DEF Stat, CloneBegin, CloneEnd

\* The version is looked for, in the remote repository too.
LEMMA FindInvariant ==
    ASSUME GitInv, NEW g \in Calls, Find(g) \/ Fetch(g)
    PROVE  GitInv'
  <1> USE GenuineRepositories, Untouched DEF shared
  <1>1. CASE Return(g, "error") /\ UNCHANGED <<commit, local, gitDir>>
    <2>1. UNCHANGED <<remote, local, gitDir, stepDirs, commit, named, cloneFailed>>
      BY <1>1 DEF Find, Fetch
    <2>2. QED
      BY <1>1, <2>1, ReturnInvariant
  <1>2. CASE Find(g) /\ Return(g, "not found") /\ pc[g] = "again" /\ UNCHANGED commit
             /\ Lookup(local, VersionOf[g]) = None
    BY <1>2, ReturnInvariant DEF Find, GitInv, NamedIsFound
  <1>3. CASE Find(g) /\ Goto(g, "worktree") /\ UNCHANGED <<worktree, result>>
             /\ Lookup(local, VersionOf[g]) # None
             /\ commit' = [commit EXCEPT ![g] = Lookup(local, VersionOf[g])]
    <2>1. IsVersion(g, Lookup(local, VersionOf[g]))
      BY <1>3, LookupIsVersion
    <2>2. QED
      BY <1>3, <2>1, MoveInvariant DEF Find, IsVersion
  <1>4. CASE Find(g) /\ Goto(g, "fetch") /\ UNCHANGED <<worktree, result, commit>>
    BY <1>4, MoveInvariant DEF Find
  <1>5. CASE Fetch(g) /\ Goto(g, "again") /\ UNCHANGED <<gitDir, worktree, result>>
             /\ local' = [remote EXCEPT !.commits = @ \cup local.commits]
             /\ gitDir # "absent"
    <2>1. Genuine(local')
      BY <1>5
    <2>2. \A n \in Names : Lookup(local', n) = Lookup(remote, n)
      <3>1. local'.tag = remote.tag /\ local'.branch = remote.branch
        BY <1>5 DEF Genuine, RefSet
      <3>2. QED
        BY <3>1, LookupName
    <2>3. QED
      <3>1. UNCHANGED <<remote, stepDirs, result, named, cloneFailed, commit, worktree>>
            /\ pc[g] = "fetch"
        BY <1>5 DEF Fetch
      <3>2. QED
        BY <1>5, <2>1, <2>2, <3>1, MoveInvariant
  <1>6. QED
    BY <1>1, <1>2, <1>3, <1>4, <1>5 DEF Find, Fetch

\* The tree is copied and the copy is renamed.
LEMMA CopyInvariant ==
    ASSUME GitInv, NEW g \in Calls, Worktree(g) \/ Copy(g) \/ Rename(g)
    PROVE  GitInv'
  <1> USE Untouched DEF shared
  <1>1. CASE Return(g, "error") /\ UNCHANGED stepDirs
    <2>1. UNCHANGED <<remote, local, gitDir, stepDirs, commit, named, cloneFailed>>
      BY <1>1 DEF Worktree, Copy, Rename
    <2>2. QED
      BY <1>1, <2>1, ReturnInvariant
  <1>2. CASE Worktree(g) /\ Goto(g, "copy") /\ UNCHANGED result
             /\ worktree' = [worktree EXCEPT ![g] = "partial"]
    BY <1>2, MoveInvariant DEF Worktree, GitInv, CopiesTheVersion
  <1>3. CASE Copy(g) /\ Goto(g, "rename") /\ UNCHANGED result
             /\ worktree' = [worktree EXCEPT ![g] = "whole"]
    BY <1>3, MoveInvariant DEF Copy, GitInv, CopiesTheVersion
  <1>4. CASE Rename(g) /\ Return(g, commit[g])
             /\ \/ stepDirs[commit[g]] # "absent" /\ UNCHANGED stepDirs
                \/ stepDirs' = [stepDirs EXCEPT ![commit[g]] = worktree[g]]
    <2>1. commit[g] \in Commits /\ IsVersion(g, commit[g]) /\ worktree[g] = "whole"
      BY <1>4 DEF Rename, GitInv, CopiesTheVersion, IsVersion
    <2>2. /\ stepDirs' \in [Commits -> {"absent", "whole"}]
          /\ stepDirs'[commit[g]] = "whole"
          /\ \A c \in Commits : stepDirs[c] = "whole" => stepDirs'[c] = "whole"
      <3>1. CASE UNCHANGED stepDirs /\ stepDirs[commit[g]] # "absent"
        BY <2>1, <3>1
      <3>2. CASE stepDirs' = [stepDirs EXCEPT ![commit[g]] = worktree[g]]
        BY <2>1, <3>2
      <3>3. QED
        BY <1>4, <3>1, <3>2
    <2>3. UNCHANGED <<remote, local, gitDir, commit, named, cloneFailed>>
      BY <1>4 DEF Rename
    <2>4. PICK r : r = commit[g]
      OBVIOUS
    <2>5. Return(g, r) /\ r \in Commits /\ IsVersion(g, r) /\ stepDirs'[r] = "whole"
      BY <1>4, <2>1, <2>2, <2>4 DEF Return, Goto
    <2>6. /\ cloneFailed' \in BOOLEAN /\ (cloneFailed => cloneFailed')
          /\ Genuine(local') /\ Genuine(remote)
      BY <2>3 DEF Genuine
    <2>7. QED
      BY <2>2, <2>3, <2>5, <2>6, ReturnInvariant
  <1>5. QED
    BY <1>1, <1>2, <1>3, <1>4 DEF Worktree, Copy, Rename

\* GitInv holds initially and is inductive.
LEMMA GitInvariance == GitSpec => []GitInv
  <1>1. GitInit => GitInv
    BY GenuineRepositories, NotCommits
       DEF GitInit, GitInv, GitTypes, CopiesTheVersion, ReturnsADirectory, NamedIsFound
  <1>2. GitInv /\ [GitNext]_gitVars => GitInv'
    <2>1. ASSUME GitInv, UNCHANGED gitVars PROVE GitInv'
      <3> USE <2>1 DEF gitVars, shared, GitInv
      <3>1. GitTypes'
        BY DEF GitTypes
      <3>2. Genuine(remote)' /\ Genuine(local)'
        BY DEF Genuine
      <3>3. CopiesTheVersion' /\ ReturnsADirectory'
        BY DEF CopiesTheVersion, ReturnsADirectory, IsVersion
      <3>4. NamedIsFound'
        BY DEF NamedIsFound
      <3>5. QED
        BY <3>1, <3>2, <3>3, <3>4
    <2>2. QED
      BY <2>1, OutsideInvariant, LockInvariant, CloneInvariant, FindInvariant, CopyInvariant
         DEF GitNext, GetStep
  <1>3. QED
    BY <1>1, <1>2, PTL DEF GitSpec

\* The directory of a commit holds its whole tree, for any number of processes
\* that share the cache and die at any point.
THEOREM GitStepDirsAreWhole == GitSpec => []StepDirsAreWhole
  <1>1. GitInv => StepDirsAreWhole
    BY DEF GitInv, GitTypes, StepDirsAreWhole
  <1>2. QED
    BY <1>1, GitInvariance, PTL

\* Get returns the directory of what its version names, and finds a version that
\* the remote repository has, unless a clone has failed.
THEOREM GitGetReturnsTheVersion == GitSpec => []GetReturnsTheVersion
  <1>1. GitInv => GetReturnsTheVersion
    BY DEF GitInv, ReturnsADirectory, NamedIsFound, IsVersion, GetReturnsTheVersion
  <1>2. QED
    BY <1>1, GitInvariance, PTL

-------------------------------------------------------------------------------
(*****************************************************************************)
(* The cache of embedded steps                                               *)
(*****************************************************************************)

\* One call at most is between the lock and the unlock, and only it, or a copy that
\* failed, leaves a step half copied.
DistInv ==
    /\ copies \in [Steps -> {"absent", "partial", "whole"}]
    /\ distPc \in [Fetches -> {"call", "stat", "copy", "done"}]
    /\ fetched \in [Fetches -> {"", "ok", "error"}]
    /\ botched \subseteq Steps
    /\ \A f \in Fetches : distPc[f] \in {"stat", "copy"} => workDirMu = f
    /\ \A s \in Steps : copies[s] = "partial" =>
          s \in botched \/ \E f \in Fetches : distPc[f] = "copy" /\ StepOf[f] = s

\* What a call fetches is a step.
LEMMA StepOfFetch == \A f \in Fetches : StepOf[f] \in Steps
  BY DEF Steps

\* Fetch returns.
LEMMA DistReturns ==
    ASSUME DistInv, NEW f \in Fetches, NEW r \in {"ok", "error"}, DistReturn(f, r)
    PROVE  /\ distPc' \in [Fetches -> {"call", "stat", "copy", "done"}]
           /\ fetched' \in [Fetches -> {"", "ok", "error"}]
           /\ distPc'[f] = "done" /\ fetched'[f] = r
           /\ \A g \in Fetches \ {f} : distPc'[g] = distPc[g] /\ fetched'[g] = fetched[g]
  BY DEF DistInv, DistReturn

\* DistInv holds initially and is inductive.
LEMMA DistInvariance == DistSpec => []DistInv
  <1>1. DistInit => DistInv
    BY DEF DistInit, DistInv
  <1>2. DistInv /\ [DistNext]_distVars => DistInv'
    <2> SUFFICES ASSUME DistInv, [DistNext]_distVars PROVE DistInv'
      OBVIOUS
    <2> USE StepOfFetch, DistAssumption DEF DistInv
    <2>1. CASE CleanUp
      BY <2>1 DEF CleanUp
    <2>2. ASSUME NEW f \in Fetches, FetchLock(f) PROVE DistInv'
      BY <2>2 DEF FetchLock
    <2>3. ASSUME NEW f \in Fetches, FetchStat(f) PROVE DistInv'
      BY <2>3 DEF FetchStat, DistReturn
    <2>4. ASSUME NEW f \in Fetches, FetchCopy(f) PROVE DistInv'
      <3>1. \A g \in Fetches : distPc[g] \in {"stat", "copy"} => g = f
        BY <2>4 DEF FetchCopy
      <3>2. /\ distPc' \in [Fetches -> {"call", "stat", "copy", "done"}]
            /\ fetched' \in [Fetches -> {"", "ok", "error"}]
            /\ \A g \in Fetches : distPc'[g] \notin {"stat", "copy"}
        BY <2>4, <3>1, DistReturns DEF FetchCopy
      <3>3. \A s \in Steps \ {StepOf[f]} : copies[s] = "partial" => s \in botched
        BY <3>1
      <3>4. CASE copies' = [copies EXCEPT ![StepOf[f]] = "whole"] /\ UNCHANGED botched
        <4>1. copies' \in [Steps -> {"absent", "partial", "whole"}]
          BY <3>4
        <4>2. ASSUME NEW s \in Steps, copies'[s] = "partial" PROVE s \in botched'
          BY <3>3, <3>4, <4>2
        <4>3. QED
          BY <3>2, <3>4, <4>1, <4>2
      <3>5. CASE botched' = botched \cup {StepOf[f]} /\ UNCHANGED copies
        <4>1. botched' \subseteq Steps
          BY <3>5
        <4>2. ASSUME NEW s \in Steps, copies'[s] = "partial" PROVE s \in botched'
          BY <3>3, <3>5, <4>2
        <4>3. QED
          BY <3>2, <3>5, <4>1, <4>2
      <3>6. QED
        BY <2>4, <3>4, <3>5 DEF FetchCopy
    <2>5. CASE UNCHANGED distVars
      BY <2>5 DEF distVars
    <2>6. QED
      BY <2>1, <2>2, <2>3, <2>4, <2>5 DEF DistNext
  <1>3. QED
    BY <1>1, <1>2, PTL DEF DistSpec

\* When Fetch returns, the step is there as a whole, for any number of jobs that
\* fetch steps, unless the copy of the step has failed before.
THEOREM DistFetchedStepsAreWhole == DistSpec => FetchedStepsAreWhole
  <1> DEFINE Whole == \A f \in Fetches : fetched[f] = "" /\ fetched'[f] = "ok" =>
                         StepOf[f] \in botched \/ copies'[StepOf[f]] = "whole"
  <1>1. DistInv /\ [DistNext]_distVars => [Whole]_distVars
    <2> SUFFICES ASSUME DistInv, DistNext PROVE Whole
      OBVIOUS
    <2> USE StepOfFetch DEF DistInv
    <2>1. CASE CleanUp
      BY <2>1 DEF CleanUp
    <2>2. ASSUME NEW f \in Fetches, FetchLock(f) PROVE Whole
      BY <2>2 DEF FetchLock
    <2>3. ASSUME NEW f \in Fetches, FetchStat(f) PROVE Whole
      <3>1. \A g \in Fetches : g # f => fetched'[g] = fetched[g]
        BY <2>3, DistReturns DEF FetchStat
      <3>2. fetched[f] = "" /\ fetched'[f] = "ok" =>
               copies[StepOf[f]] # "absent" /\ UNCHANGED copies
        BY <2>3, DistReturns DEF FetchStat
      <3>3. \A g \in Fetches : distPc[g] # "copy"
        BY <2>3 DEF FetchStat
      <3>4. copies[StepOf[f]] # "absent" => StepOf[f] \in botched \/ copies[StepOf[f]] = "whole"
        BY <3>3
      <3>5. QED
        BY <3>1, <3>2, <3>4
    <2>4. ASSUME NEW f \in Fetches, FetchCopy(f) PROVE Whole
      <3>1. \A g \in Fetches : g # f => fetched'[g] = fetched[g]
        BY <2>4, DistReturns DEF FetchCopy
      <3>2. fetched[f] = "" /\ fetched'[f] = "ok" => copies'[StepOf[f]] = "whole"
        BY <2>4, DistReturns DEF FetchCopy
      <3>3. QED
        BY <3>1, <3>2
    <2>5. QED
      BY <2>1, <2>2, <2>3, <2>4 DEF DistNext
  <1>2. QED
    BY <1>1, DistInvariance, PTL DEF DistSpec, FetchedStepsAreWhole
===============================================================================
