------------------------------- MODULE StepsProofs -------------------------------
(*****************************************************************************)
(* What holds of the execution of steps whatever the documents, the data and *)
(* the environments are: a sequence that succeeds ran all its steps, the job *)
(* gets a result, but for one case, and commands get the variables that they *)
(* should.                                                                   *)
(*****************************************************************************)
EXTENDS Steps, InductionLemmas, TLAPS

\* A sequence, whatever its elements.
IsSeq(s) == s \in Seq(ToSet(s))

\* The length of a sequence.
LEMMA LenFacts ==
    ASSUME NEW s, IsSeq(s)
    PROVE  /\ Len(s) \in Nat /\ DOMAIN s = 1..Len(s)
           /\ s # <<>> <=> Len(s) > 0
  BY DEF IsSeq

\* A sequence over any set is one.
LEMMA SeqIsSeq ==
    ASSUME NEW S, NEW s \in Seq(S) PROVE IsSeq(s)
  <1>1. s \in [1..Len(s) -> ToSet(s)] /\ Len(s) \in Nat
    BY DEF ToSet
  <1>2. QED
    BY <1>1 DEF IsSeq

\* What Append does.
LEMMA AppendFacts ==
    ASSUME NEW s, IsSeq(s), NEW x
    PROVE  /\ IsSeq(Append(s, x)) /\ Len(Append(s, x)) = Len(s) + 1
           /\ \A i \in 1..Len(s) : Append(s, x)[i] = s[i]
           /\ Append(s, x)[Len(s) + 1] = x
  <1> DEFINE S == ToSet(s) \cup {x}
  <1>1. s \in Seq(S)
    <2>1. s \in [1..Len(s) -> S] /\ Len(s) \in Nat
      BY DEF IsSeq
    <2>2. QED
      BY <2>1
  <1>2. Append(s, x) \in Seq(S)
    BY <1>1
  <1> HIDE DEF S
  <1>3. IsSeq(Append(s, x))
    BY <1>2, SeqIsSeq
  <1>4. QED
    BY <1>1, <1>3, x \in {x} DEF S

\* The part of a sequence up to one of its elements.
LEMMA PrefixFacts ==
    ASSUME NEW s, IsSeq(s), NEW n \in 0..Len(s)
    PROVE  /\ IsSeq(SubSeq(s, 1, n)) /\ Len(SubSeq(s, 1, n)) = n
           /\ \A i \in 1..n : SubSeq(s, 1, n)[i] = s[i]
  <1>1. SubSeq(s, 1, n) \in Seq(ToSet(s))
    BY DEF IsSeq
  <1>2. IsSeq(SubSeq(s, 1, n))
    BY <1>1, SeqIsSeq
  <1>3. QED
    BY <1>1, <1>2 DEF IsSeq

\* What Front and Last do.
LEMMA FrontFacts ==
    ASSUME NEW s, IsSeq(s), s # <<>>
    PROVE  /\ IsSeq(Front(s)) /\ Len(Front(s)) = Len(s) - 1
           /\ \A i \in 1..Len(s) - 1 : Front(s)[i] = s[i]
           /\ Last(s) = s[Len(s)]
  <1>1. Len(s) - 1 \in 0..Len(s) /\ Len(s) \in Nat
    BY LenFacts
  <1>2. QED
    BY <1>1, PrefixFacts DEF Front, Last

\* What Tail does.
LEMMA HeadTailFacts ==
    ASSUME NEW s, IsSeq(s), s # <<>>
    PROVE  IsSeq(Tail(s)) /\ Len(Tail(s)) = Len(s) - 1
  <1>1. Tail(s) \in Seq(ToSet(s)) /\ Len(Tail(s)) = Len(s) - 1
    BY DEF IsSeq
  <1>2. QED
    BY <1>1, SeqIsSeq

\* A sequence with an element put before it.
LEMMA ConsFacts ==
    ASSUME NEW s, IsSeq(s), NEW x
    PROVE  IsSeq(<<x>> \o s) /\ Len(<<x>> \o s) = Len(s) + 1
  <1> DEFINE S == ToSet(s) \cup {x}
  <1>1. s \in Seq(S)
    <2>1. s \in [1..Len(s) -> S] /\ Len(s) \in Nat
      BY DEF IsSeq
    <2>2. QED
      BY <2>1
  <1>2. <<x>> \in Seq(S)
    OBVIOUS
  <1>3. <<x>> \o s \in Seq(S) /\ Len(<<x>> \o s) = 1 + Len(s)
    BY <1>1, <1>2
  <1> HIDE DEF S
  <1>4. IsSeq(<<x>> \o s)
    BY <1>3, SeqIsSeq
  <1>5. Len(s) \in Nat
    BY LenFacts
  <1>6. QED
    BY <1>3, <1>4, <1>5

\* Two elements at the end are two elements appended.
LEMMA TwoFacts ==
    ASSUME NEW s, IsSeq(s), NEW x, NEW y
    PROVE  s \o <<x, y>> = Append(Append(s, x), y)
  <1> DEFINE S == ToSet(s) \cup {x, y}
  <1>1. s \in Seq(S)
    <2>1. s \in [1..Len(s) -> S] /\ Len(s) \in Nat
      BY DEF IsSeq
    <2>2. QED
      BY <2>1
  <1>2. <<x, y>> \in Seq(S) /\ x \in S /\ y \in S
    OBVIOUS
  <1> HIDE DEF S
  <1>3. /\ s \o <<x, y>> \in Seq(S) /\ Append(Append(s, x), y) \in Seq(S)
        /\ Len(s \o <<x, y>>) = Len(s) + 2 /\ Len(Append(Append(s, x), y)) = Len(s) + 2
        /\ Len(s) \in Nat
    BY <1>1, <1>2
  <1>4. \A i \in 1..Len(s) + 2 : (s \o <<x, y>>)[i] = Append(Append(s, x), y)[i]
    <2> TAKE i \in 1..Len(s) + 2
    <2>1. CASE i <= Len(s)
      BY <1>1, <1>2, <1>3, <2>1
    <2>2. CASE i = Len(s) + 1
      BY <1>1, <1>2, <1>3, <2>2
    <2>3. CASE i = Len(s) + 2
      BY <1>1, <1>2, <1>3, <2>3
    <2>4. QED
      BY <1>3, <2>1, <2>2, <2>3
  <1>5. QED
    BY <1>3, <1>4

-------------------------------------------------------------------------------
(*****************************************************************************)
(* The inductive invariant                                                   *)
(*****************************************************************************)

\* A frame; no step that failed is among the results of a sequence.
Fields == { "def", "name", "inputs", "env", "pc", "subs", "results", "args", "vars",
            "base", "known" }
IsFrame(f) ==
    /\ f = [x \in Fields |-> f[x]]
    /\ f.base \in Nat /\ IsSeq(f.subs)
    /\ \A i \in 1..Len(f.subs) : f.subs[i] = "success"

\* A result goes with its error.
Errors == {"invalid", "other", "killed", "context"}
Settled(r) ==
    \/ r.status = "success" /\ r.err = "nil"
    \/ r.status \in {"failure", "nil"} /\ r.err \in Errors

\* What a call of Run added to the heap lies above what its caller has added.
BasesNest(j) ==
    \A i, k \in 1..Len(stack[j]) : i <= k =>
        /\ 1 <= stack[j][i].base /\ stack[j][i].base <= stack[j][k].base
        /\ stack[j][k].base <= Len(heap[j]) + 1

JobInv(j) ==
    /\ IsSeq(stack[j]) /\ IsSeq(heap[j])
    /\ \A i \in 1..Len(stack[j]) : IsFrame(stack[j][i])
    /\ BasesNest(j)
    /\ globalEnv[j] = 0 => stack[j] = <<>>
    /\ stack[j] # <<>> /\ Top(j).pc = "call" => Settled(ret[j])

Domains ==
    /\ stack = [j \in Jobs |-> stack[j]] /\ heap = [j \in Jobs |-> heap[j]]
    /\ ret = [j \in Jobs |-> ret[j]] /\ globalEnv = [j \in Jobs |-> globalEnv[j]]

StepsInv == Domains /\ \A j \in Jobs : JobInv(j)

-------------------------------------------------------------------------------
(*****************************************************************************)
(* Every step of a job starts it, or pops, replaces or pushes a frame        *)
(*****************************************************************************)

\* The heap of a job grows, but for a call that returns.
Grows(j) == IsSeq(heap'[j]) /\ Len(heap'[j]) >= Len(heap[j])

Pops(j) ==
    /\ stack[j] # <<>> /\ stack'[j] = Front(stack[j])
    /\ IsSeq(heap'[j]) /\ Len(heap'[j]) + 1 = Top(j).base
    /\ globalEnv'[j] = globalEnv[j]
    /\ Settled(ret'[j])
    /\ ret'[j].status = "nil" =>
          ret'[j].err = "other" /\ Top(j).def.type = "exec" /\ Top(j).pc = "enter"
    /\ ret'[j].status = "success" /\ Top(j).def.type = "steps" =>
          Len(Top(j).subs) = Len(Refs(j))

Replaces(j) ==
    /\ stack[j] # <<>> /\ Grows(j)
    /\ \E f : /\ stack'[j] = Append(Front(stack[j]), f)
              /\ IsFrame(f) /\ f.base = Top(j).base
              /\ f.pc = "call" => Settled(ret'[j])
    /\ globalEnv'[j] = globalEnv[j]

Pushes(j) ==
    /\ stack[j] # <<>> /\ Grows(j)
    /\ \E f, g : /\ stack'[j] = Append(Append(Front(stack[j]), f), g)
                 /\ IsFrame(f) /\ f.base = Top(j).base
                 /\ IsFrame(g) /\ g.base = Len(heap[j]) + 1 /\ g.pc = "enter"
    /\ globalEnv'[j] = globalEnv[j]

Starts(j) ==
    /\ globalEnv[j] = 0 /\ globalEnv'[j] # 0 /\ Grows(j)
    /\ \E f : /\ stack'[j] = <<f>>
              /\ IsFrame(f) /\ f.base = Len(heap'[j]) + 1 /\ f.pc = "enter"

\* The other jobs have their own.
OthersStay(j) ==
    /\ Domains'
    /\ \A i \in Jobs \ {j} :
          /\ stack'[i] = stack[i] /\ heap'[i] = heap[i] /\ ret'[i] = ret[i]
          /\ globalEnv'[i] = globalEnv[i]

\* The frame on top of the stack, and where its environments begin.
LEMMA TopFacts ==
    ASSUME NEW j \in Jobs, JobInv(j), stack[j] # <<>>
    PROVE  /\ Len(stack[j]) \in Nat \ {0} /\ Top(j) = stack[j][Len(stack[j])]
           /\ IsFrame(Top(j))
           /\ Top(j).base \in Nat /\ 1 <= Top(j).base /\ Top(j).base <= Len(heap[j]) + 1
           /\ Len(heap[j]) \in Nat
  <1>1. Len(stack[j]) \in Nat \ {0} /\ Len(heap[j]) \in Nat
    BY LenFacts DEF JobInv
  <1>2. Top(j) = stack[j][Len(stack[j])]
    BY DEF Top, Last
  <1>3. IsFrame(Top(j)) /\ 1 <= Top(j).base /\ Top(j).base <= Len(heap[j]) + 1
    BY <1>1, <1>2 DEF JobInv, BasesNest
  <1>4. Top(j).base \in Nat
    BY <1>3 DEF IsFrame
  <1>5. QED
    BY <1>1, <1>2, <1>3, <1>4

\* The return of a call keeps the invariant of its job.
LEMMA PopInvariant ==
    ASSUME NEW j \in Jobs, JobInv(j), Pops(j) PROVE JobInv(j)'
  <1> DEFINE n == Len(stack[j])
  <1>1. /\ n \in Nat \ {0} /\ IsSeq(stack'[j]) /\ Len(stack'[j]) = n - 1
        /\ \A i \in 1..n - 1 : stack'[j][i] = stack[j][i]
        /\ Top(j) = stack[j][n]
    BY TopFacts, FrontFacts DEF Pops, JobInv
  <1>2. \A i \in 1..Len(stack'[j]) : IsFrame(stack'[j][i])
    BY <1>1 DEF JobInv
  <1>3. BasesNest(j)'
    <2> SUFFICES ASSUME NEW i \in 1..n - 1, NEW k \in 1..n - 1, i <= k
                 PROVE  /\ 1 <= stack'[j][i].base /\ stack'[j][i].base <= stack'[j][k].base
                        /\ stack'[j][k].base <= Len(heap'[j]) + 1
      BY <1>1 DEF BasesNest
    <2>1. i \in 1..n /\ k \in 1..n /\ n \in 1..n /\ k <= n
      BY <1>1
    <2>2. /\ 1 <= stack[j][i].base /\ stack[j][i].base <= stack[j][k].base
          /\ stack[j][k].base <= stack[j][n].base
      BY <2>1 DEF JobInv, BasesNest
    <2>3. QED
      BY <1>1, <2>2 DEF Pops
  <1>4. QED
    BY <1>1, <1>2, <1>3 DEF JobInv, Pops

\* A step within a call keeps the invariant of its job.
LEMMA ReplaceInvariant ==
    ASSUME NEW j \in Jobs, JobInv(j), Replaces(j) PROVE JobInv(j)'
  <1> DEFINE n == Len(stack[j])
  <1> PICK f : /\ stack'[j] = Append(Front(stack[j]), f)
               /\ IsFrame(f) /\ f.base = Top(j).base
               /\ f.pc = "call" => Settled(ret'[j])
    BY DEF Replaces
  <1>1. n \in Nat \ {0} /\ Top(j) = stack[j][n] /\ stack[j] # <<>>
    BY TopFacts DEF Replaces
  <1>2. /\ IsSeq(Front(stack[j])) /\ Len(Front(stack[j])) = n - 1
        /\ \A i \in 1..n - 1 : Front(stack[j])[i] = stack[j][i]
    BY <1>1, FrontFacts DEF JobInv
  <1>3. /\ IsSeq(stack'[j]) /\ Len(stack'[j]) = n
        /\ \A i \in 1..n - 1 : stack'[j][i] = stack[j][i]
        /\ stack'[j][n] = f
    BY <1>1, <1>2, AppendFacts
  <1>4. \A i \in 1..n : IsFrame(stack'[j][i]) /\ stack'[j][i].base = stack[j][i].base
    BY <1>1, <1>3 DEF JobInv
  <1>5. BasesNest(j)'
    <2> SUFFICES ASSUME NEW i \in 1..n, NEW k \in 1..n, i <= k
                 PROVE  /\ 1 <= stack'[j][i].base /\ stack'[j][i].base <= stack'[j][k].base
                        /\ stack'[j][k].base <= Len(heap'[j]) + 1
      BY <1>3 DEF BasesNest
    <2>1. /\ 1 <= stack[j][i].base /\ stack[j][i].base <= stack[j][k].base
          /\ stack[j][k].base <= Len(heap[j]) + 1
      BY DEF JobInv, BasesNest
    <2>2. Len(heap[j]) \in Nat /\ Len(heap'[j]) \in Nat /\ Len(heap'[j]) >= Len(heap[j])
      BY LenFacts DEF JobInv, Replaces, Grows
    <2>3. stack[j][k].base \in Nat
      BY DEF JobInv, IsFrame
    <2>4. stack'[j][i].base = stack[j][i].base /\ stack'[j][k].base = stack[j][k].base
      BY <1>4
    <2>5. stack[j][k].base <= Len(heap'[j]) + 1
      BY <2>1, <2>2, <2>3
    <2>6. QED
      BY <2>1, <2>4, <2>5
  <1>6. Top(j)' = f /\ stack'[j] # <<>>
    BY <1>1, <1>3, LenFacts DEF Top, Last
  <1>7. globalEnv'[j] # 0
    BY <1>1, <1>3 DEF JobInv, Replaces
  <1>8. QED
    BY <1>3, <1>4, <1>5, <1>6, <1>7 DEF JobInv, Replaces, Grows

\* A call of a step from a sequence keeps the invariant of its job.
LEMMA PushInvariant ==
    ASSUME NEW j \in Jobs, JobInv(j), Pushes(j) PROVE JobInv(j)'
  <1> DEFINE n == Len(stack[j])
  <1> PICK f, g : /\ stack'[j] = Append(Append(Front(stack[j]), f), g)
                  /\ IsFrame(f) /\ f.base = Top(j).base
                  /\ IsFrame(g) /\ g.base = Len(heap[j]) + 1 /\ g.pc = "enter"
    BY DEF Pushes
  <1> DEFINE s == Append(Front(stack[j]), f)
  <1>1. n \in Nat \ {0} /\ Top(j) = stack[j][n] /\ stack[j] # <<>>
    BY TopFacts DEF Pushes
  <1>2. /\ IsSeq(Front(stack[j])) /\ Len(Front(stack[j])) = n - 1
        /\ \A i \in 1..n - 1 : Front(stack[j])[i] = stack[j][i]
    BY <1>1, FrontFacts DEF JobInv
  <1>3. /\ IsSeq(s) /\ Len(s) = n
        /\ \A i \in 1..n - 1 : s[i] = stack[j][i]
        /\ s[n] = f
    BY <1>1, <1>2, AppendFacts
  <1> HIDE DEF s
  <1>4. /\ IsSeq(stack'[j]) /\ Len(stack'[j]) = n + 1
        /\ \A i \in 1..n : stack'[j][i] = s[i]
        /\ stack'[j][n + 1] = g
    BY <1>3, AppendFacts DEF s
  <1>5. \A i \in 1..n : IsFrame(stack'[j][i]) /\ stack'[j][i].base = stack[j][i].base
    <2> TAKE i \in 1..n
    <2>1. CASE i \in 1..n - 1
      BY <1>3, <1>4, <2>1 DEF JobInv
    <2>2. CASE i = n
      BY <1>1, <1>3, <1>4, <2>2
    <2>3. i \in 1..n - 1 \/ i = n
      BY <1>1
    <2>4. QED
      BY <2>1, <2>2, <2>3
  <1>6. \A i \in 1..n + 1 : IsFrame(stack'[j][i])
    BY <1>1, <1>4, <1>5
  <1>7. BasesNest(j)'
    <2> SUFFICES ASSUME NEW i \in 1..n + 1, NEW k \in 1..n + 1, i <= k
                 PROVE  /\ 1 <= stack'[j][i].base /\ stack'[j][i].base <= stack'[j][k].base
                        /\ stack'[j][k].base <= Len(heap'[j]) + 1
      BY <1>4 DEF BasesNest
    <2>1. Len(heap[j]) \in Nat /\ Len(heap'[j]) \in Nat /\ Len(heap'[j]) >= Len(heap[j])
      BY LenFacts DEF JobInv, Pushes, Grows
    <2>2. \A l, m \in 1..n : l <= m =>
             /\ stack[j][m].base \in Nat
             /\ 1 <= stack[j][l].base /\ stack[j][l].base <= stack[j][m].base
             /\ stack[j][m].base <= Len(heap[j]) + 1
      BY DEF JobInv, BasesNest, IsFrame
    <2>3. CASE k \in 1..n
      <3>1. i \in 1..n
        BY <1>1, <2>3
      <3>2. stack'[j][i].base = stack[j][i].base /\ stack'[j][k].base = stack[j][k].base
        BY <1>5, <2>3, <3>1
      <3>3. /\ stack[j][k].base \in Nat
            /\ 1 <= stack[j][i].base /\ stack[j][i].base <= stack[j][k].base
            /\ stack[j][k].base <= Len(heap[j]) + 1
        BY <2>2, <2>3, <3>1
      <3>4. QED
        BY <2>1, <3>2, <3>3
    <2>4. CASE k = n + 1 /\ i \in 1..n
      <3>1. stack'[j][i].base = stack[j][i].base /\ stack'[j][k].base = Len(heap[j]) + 1
        BY <1>4, <1>5, <2>4
      <3>2. 1 <= stack[j][i].base /\ stack[j][i].base <= Len(heap[j]) + 1
        BY <2>2, <2>4
      <3>3. QED
        BY <2>1, <3>1, <3>2
    <2>5. CASE k = n + 1 /\ i = n + 1
      BY <1>4, <2>1, <2>5
    <2>6. (k \in 1..n \/ k = n + 1) /\ (i \in 1..n \/ i = n + 1)
      BY <1>1
    <2>7. QED
      BY <2>3, <2>4, <2>5, <2>6
  <1>8. Top(j)' = g /\ stack'[j] # <<>>
    BY <1>1, <1>4, LenFacts DEF Top, Last
  <1>9. globalEnv'[j] # 0
    BY <1>1, <1>4 DEF JobInv, Pushes
  <1>10. QED
    BY <1>4, <1>6, <1>7, <1>8, <1>9 DEF JobInv, Pushes, Grows

\* The call of the root step keeps the invariant of its job.
LEMMA StartInvariant ==
    ASSUME NEW j \in Jobs, JobInv(j), Starts(j) PROVE JobInv(j)'
  <1> PICK f : /\ stack'[j] = <<f>>
               /\ IsFrame(f) /\ f.base = Len(heap'[j]) + 1 /\ f.pc = "enter"
    BY DEF Starts
  <1>1. /\ IsSeq(stack'[j]) /\ Len(stack'[j]) = 1 /\ stack'[j][1] = f
        /\ Top(j)' = f
    <2>1. <<f>> \in Seq({f})
      OBVIOUS
    <2>2. IsSeq(<<f>>) /\ Len(<<f>>) = 1 /\ <<f>>[1] = f
      BY <2>1, SeqIsSeq
    <2>3. QED
      BY <2>2 DEF Top, Last
  <1>2. Len(heap'[j]) \in Nat
    BY LenFacts DEF Starts, Grows
  <1>3. BasesNest(j)'
    BY <1>1, <1>2 DEF BasesNest
  <1>4. globalEnv'[j] # 0 /\ IsSeq(heap'[j])
    BY <1>1 DEF JobInv, Starts, Grows
  <1>5. \A i \in 1..Len(stack'[j]) : IsFrame(stack'[j][i])
    BY <1>1
  <1>6. QED
    BY <1>1, <1>3, <1>4, <1>5 DEF JobInv

\* The other jobs keep theirs.
LEMMA OthersInvariant ==
    ASSUME StepsInv, NEW j \in Jobs, OthersStay(j), JobInv(j)'
    PROVE  StepsInv'
  BY DEF StepsInv, OthersStay, JobInv, BasesNest, Top

-------------------------------------------------------------------------------
(*****************************************************************************)
(* Heaps                                                                     *)
(*****************************************************************************)

\* The environments of a job, that of the process included.
LEMMA HeapFacts ==
    ASSUME StepsInv, NEW j \in Jobs
    PROVE  /\ IsSeq(HeapOf(j)) /\ Len(HeapOf(j)) = Len(heap[j]) + 1
           /\ Len(heap[j]) \in Nat
  <1>1. IsSeq(heap[j])
    BY DEF StepsInv, JobInv
  <1>2. QED
    BY <1>1, ConsFacts, LenFacts DEF HeapOf

\* A scope is added to a heap, which leaves the rest of it.
LEMMA ScopeFacts ==
    ASSUME NEW h, IsSeq(h), NEW e, NEW v
    PROVE  /\ IsSeq(AddLexicalScope(h, e, v).heap)
           /\ Len(AddLexicalScope(h, e, v).heap) >= Len(h)
           /\ AddLexicalScope(h, e, v).env \in {e, Len(h) + 1}
  <1>1. Len(h) \in Nat
    BY LenFacts
  <1>2. CASE v = NoVars
    BY <1>1, <1>2 DEF AddLexicalScope
  <1>3. CASE v # NoVars
    <2> DEFINE x == [NewEnvironment(v) EXCEPT !.parent = e]
    <2>1. AddLexicalScope(h, e, v) = [heap |-> Append(h, x), env |-> Len(h) + 1]
      BY <1>3, Zenon DEF AddLexicalScope
    <2> HIDE DEF x
    <2>2. QED
      BY <1>1, <2>1, AppendFacts
  <1>4. QED
    BY <1>2, <1>3

\* A mutation changes an object of the heap.
LEMMA MutateFacts ==
    ASSUME NEW h, IsSeq(h), NEW e, NEW v
    PROVE  IsSeq(Mutate(h, e, v)) /\ Len(Mutate(h, e, v)) = Len(h)
  <1>1. CASE v = NoVars
    BY <1>1 DEF Mutate
  <1>2. CASE v # NoVars
    <2>1. PICK x : Mutate(h, e, v) = [h EXCEPT ![e] = x]
      BY <1>2, Zenon DEF Mutate
    <2> DEFINE S == ToSet(h) \cup {x}
               g == [h EXCEPT ![e] = x]
    <2>2. h \in [1..Len(h) -> ToSet(h)] /\ Len(h) \in Nat
      BY DEF IsSeq
    <2>3. g \in [1..Len(h) -> S]
      <3>1. DOMAIN g = 1..Len(h) /\ g = [i \in DOMAIN g |-> g[i]]
        BY <2>2
      <3>2. \A i \in 1..Len(h) : g[i] \in S
        BY <2>2
      <3> HIDE DEF g, S
      <3>3. QED
        BY <3>1, <3>2
    <2> HIDE DEF g, S
    <2>4. g \in Seq(S) /\ Len(g) = Len(h)
      BY <2>2, <2>3
    <2>5. QED
      BY <2>1, <2>4, SeqIsSeq DEF g
  <1>3. QED
    BY <1>1, <1>2

\* Job j gets another heap, which begins with the object of the process.
LEMMA SetHeapFacts ==
    ASSUME StepsInv, NEW j \in Jobs, NEW h, IsSeq(h), Len(h) >= 1, SetHeap(j, h)
    PROVE  /\ IsSeq(heap'[j]) /\ Len(heap'[j]) = Len(h) - 1
           /\ heap' = [i \in Jobs |-> heap'[i]]
           /\ \A i \in Jobs \ {j} : heap'[i] = heap[i]
  <1>1. /\ heap'[j] = Tail(h) /\ heap' = [i \in Jobs |-> heap'[i]]
        /\ \A i \in Jobs \ {j} : heap'[i] = heap[i]
    BY DEF SetHeap, StepsInv, Domains
  <1>2. h # <<>>
    BY LenFacts
  <1>3. QED
    BY <1>1, <1>2, HeadTailFacts

\* The variables that are set for job j only.
LEMMA HeapGrows ==
    ASSUME StepsInv, NEW j \in Jobs, NEW h, IsSeq(h), Len(h) >= Len(heap[j]) + 1, SetHeap(j, h)
    PROVE  /\ Grows(j) /\ Len(heap'[j]) = Len(h) - 1
           /\ heap' = [i \in Jobs |-> heap'[i]]
           /\ \A i \in Jobs \ {j} : heap'[i] = heap[i]
  <1>1. Len(heap[j]) \in Nat /\ Len(h) \in Nat /\ Len(h) >= 1
    BY HeapFacts, LenFacts
  <1>2. QED
    BY <1>1, SetHeapFacts DEF Grows

-------------------------------------------------------------------------------
(*****************************************************************************)
(* The shapes of the actions                                                 *)
(*****************************************************************************)

\* What Run of the step on top may return.
MayReturn(j, r) ==
    /\ Settled(r)
    /\ r.status = "nil" =>
          r.err = "other" /\ Top(j).def.type = "exec" /\ Top(j).pc = "enter"
    /\ r.status = "success" /\ Top(j).def.type = "steps" => Len(Top(j).subs) = Len(Refs(j))

\* A return takes the frame off the stack, with the environments that it made.
LEMMA ReturnsPops ==
    ASSUME StepsInv, NEW j \in Jobs, stack[j] # <<>>, NEW h, NEW r, MayReturn(j, r),
           IsSeq(h), Len(h) = Len(heap[j]) + 1, Returns(j, h, r), UNCHANGED globalEnv
    PROVE  Pops(j) /\ OthersStay(j)
  <1>1. Top(j).base \in 1..Len(h) /\ Top(j).base \in 0..Len(h) /\ Top(j).base \in Nat
    BY TopFacts, LenFacts DEF StepsInv
  <1> DEFINE kept == SubSeq(h, 1, Top(j).base)
  <1>2. IsSeq(kept) /\ Len(kept) = Top(j).base /\ Len(kept) >= 1
    BY <1>1, PrefixFacts
  <1>3. SetHeap(j, kept)
    BY DEF Returns
  <1> HIDE DEF kept
  <1>4. /\ IsSeq(heap'[j]) /\ Len(heap'[j]) + 1 = Top(j).base
        /\ heap' = [i \in Jobs |-> heap'[i]]
        /\ \A i \in Jobs \ {j} : heap'[i] = heap[i]
    BY <1>1, <1>2, <1>3, SetHeapFacts
  <1>5. /\ stack'[j] = Front(stack[j]) /\ ret'[j] = r
        /\ stack' = [i \in Jobs |-> stack'[i]] /\ ret' = [i \in Jobs |-> ret'[i]]
        /\ \A i \in Jobs \ {j} : stack'[i] = stack[i] /\ ret'[i] = ret[i]
    BY DEF Returns, StepsInv, Domains
  <1>6. Pops(j)
    BY <1>4, <1>5 DEF Pops, MayReturn
  <1>7. OthersStay(j)
    BY <1>4, <1>5 DEF OthersStay, StepsInv, Domains
  <1>8. QED
    BY <1>6, <1>7

\* The same with the environments as they are.
LEMMA ReturnPops ==
    ASSUME StepsInv, NEW j \in Jobs, stack[j] # <<>>, NEW r, MayReturn(j, r),
           Return(j, r), UNCHANGED globalEnv
    PROVE  Pops(j) /\ OthersStay(j)
  BY HeapFacts, ReturnsPops DEF Return

\* Job j goes on in the frame on top.
LEMMA ReplaceReplaces ==
    ASSUME StepsInv, NEW j \in Jobs, stack[j] # <<>>, NEW f, Replace(j, f),
           IsFrame(f), f.base = Top(j).base, f.pc # "call",
           Grows(j), heap' = [i \in Jobs |-> heap'[i]],
           \A i \in Jobs \ {j} : heap'[i] = heap[i],
           UNCHANGED <<ret, globalEnv>>
    PROVE  Replaces(j) /\ OthersStay(j)
  <1>1. /\ stack'[j] = Append(Front(stack[j]), f)
        /\ stack' = [i \in Jobs |-> stack'[i]]
        /\ \A i \in Jobs \ {j} : stack'[i] = stack[i]
    BY DEF Replace, StepsInv, Domains
  <1>2. Replaces(j)
    BY <1>1 DEF Replaces
  <1>3. OthersStay(j)
    BY <1>1 DEF OthersStay, StepsInv, Domains
  <1>4. QED
    BY <1>2, <1>3

\* No environments are made or dropped if the heap stays as it is.
LEMMA HeapStays ==
    ASSUME StepsInv, NEW j \in Jobs, UNCHANGED heap
    PROVE  /\ Grows(j) /\ heap' = [i \in Jobs |-> heap'[i]]
           /\ \A i \in Jobs \ {j} : heap'[i] = heap[i]
  BY HeapFacts DEF StepsInv, Domains, JobInv, Grows

\* Any call may return an error with a result.
LEMMA FailureFacts ==
    ASSUME NEW j \in Jobs, NEW e \in Errors PROVE MayReturn(j, Failure(e))
  BY DEF MayReturn, Settled, Failure, Result, Errors

\* Enter applies the environment of the definition, or returns.
LEMMA EnterShape ==
    ASSUME StepsInv, NEW j \in Jobs, Enter(j)
    PROVE  (Pops(j) \/ Replaces(j)) /\ OthersStay(j)
  <1>1. stack[j] # <<>> /\ Top(j).pc = "enter" /\ UNCHANGED globalEnv
    BY DEF Enter, jobVars
  <1>2. PICK env :
          LET s == AddLexicalScope(HeapOf(j), Top(j).env, Strs(env.val)) IN
          \/ /\ SetHeap(j, s.heap)
             /\ Replace(j, [Top(j) EXCEPT !.env = s.env, !.pc = "run",
                                          !.vars = Append(@, Strs(env.val))])
             /\ UNCHANGED ret
          \/ Return(j, Failure("invalid"))
          \/ Top(j).def.type = "exec" /\ Return(j, NoStep("other"))
    BY Zenon DEF Enter
  <1> DEFINE h == AddLexicalScope(HeapOf(j), Top(j).env, Strs(env.val)).heap
             e == AddLexicalScope(HeapOf(j), Top(j).env, Strs(env.val)).env
             v == Append(Top(j).vars, Strs(env.val))
             f == [Top(j) EXCEPT !.env = e, !.pc = "run", !.vars = v]
  <1>3. CASE SetHeap(j, h) /\ Replace(j, f) /\ UNCHANGED ret
    <2>1. IsSeq(h) /\ Len(h) >= Len(heap[j]) + 1
      BY HeapFacts, ScopeFacts
    <2>2. IsFrame(f) /\ f.base = Top(j).base /\ f.pc # "call"
      <3>1. IsFrame(Top(j))
        BY <1>1, TopFacts DEF StepsInv
      <3> HIDE DEF e, v
      <3>2. QED
        BY <3>1 DEF IsFrame, Fields
    <2> HIDE DEF h, f
    <2>3. QED
      BY <1>1, <1>3, <2>1, <2>2, HeapGrows, ReplaceReplaces
  <1>4. CASE Return(j, Failure("invalid"))
    BY <1>1, <1>4, FailureFacts, ReturnPops DEF Errors
  <1>5. CASE Top(j).def.type = "exec" /\ Return(j, NoStep("other"))
    <2>1. MayReturn(j, NoStep("other"))
      BY <1>1, <1>5 DEF MayReturn, Settled, NoStep, Result, Errors
    <2>2. QED
      BY <1>1, <1>5, <2>1, ReturnPops
  <1>6. QED
    BY <1>2, <1>3, <1>4, <1>5, Zenon

\* A command is started, ends or is killed.
LEMMA CommandShape ==
    ASSUME StepsInv, NEW j \in Jobs, StartCommand(j) \/ EndCommand(j) \/ KillCommand(j)
    PROVE  (Pops(j) \/ Replaces(j)) /\ OthersStay(j)
  <1>1. stack[j] # <<>> /\ UNCHANGED globalEnv
    BY DEF StartCommand, EndCommand, KillCommand, At, jobVars
  <1>2. \/ \E e \in Errors : Return(j, Failure(e))
        \/ /\ \/ \E a : Replace(j, [Top(j) EXCEPT !.pc = "command", !.args = a])
              \/ Replace(j, [Top(j) EXCEPT !.pc = "read"])
           /\ UNCHANGED <<heapVars, ret>>
    BY DEF StartCommand, EndCommand, KillCommand, Goto, Errors
  <1>3. IsFrame(Top(j))
    BY <1>1, TopFacts DEF StepsInv
  <1>4. ASSUME NEW e \in Errors, Return(j, Failure(e))
        PROVE  Pops(j) /\ OthersStay(j)
    BY <1>1, <1>4, FailureFacts, ReturnPops
  <1>5. ASSUME NEW f, Replace(j, f), f.pc # "call", IsFrame(f), f.base = Top(j).base,
               UNCHANGED <<heapVars, ret>>
        PROVE  Replaces(j) /\ OthersStay(j)
    BY <1>1, <1>5, HeapStays, ReplaceReplaces DEF heapVars
  <1>6. ASSUME NEW a
        PROVE  LET f == [Top(j) EXCEPT !.pc = "command", !.args = a]
               IN  IsFrame(f) /\ f.base = Top(j).base /\ f.pc # "call"
    BY <1>3 DEF IsFrame, Fields
  <1>7. LET f == [Top(j) EXCEPT !.pc = "read"]
        IN  IsFrame(f) /\ f.base = Top(j).base /\ f.pc # "call"
    BY <1>3 DEF IsFrame, Fields
  <1>8. QED
    BY <1>2, <1>4, <1>5, <1>6, <1>7, Zenon

\* The files of a command are read.
LEMMA ReadFilesShape ==
    ASSUME StepsInv, NEW j \in Jobs, ReadFiles(j)
    PROVE  Pops(j) /\ OthersStay(j)
  <1>1. stack[j] # <<>> /\ Top(j).def.type = "exec" /\ UNCHANGED globalEnv
    BY DEF ReadFiles, At, jobVars
  <1>2. \/ \E outputs, env : Returns(j, Mutate(HeapOf(j), globalEnv[j], env), Build(j, outputs))
        \/ Return(j, Failure("other"))
    BY Zenon DEF ReadFiles
  <1>3. CASE Return(j, Failure("other"))
    BY <1>1, <1>3, FailureFacts, ReturnPops DEF Errors
  <1>4. ASSUME NEW outputs, NEW env,
               Returns(j, Mutate(HeapOf(j), globalEnv[j], env), Build(j, outputs))
        PROVE  Pops(j) /\ OthersStay(j)
    <2> DEFINE h == Mutate(HeapOf(j), globalEnv[j], env)
    <2>1. IsSeq(h) /\ Len(h) = Len(heap[j]) + 1
      BY HeapFacts, MutateFacts
    <2>2. MayReturn(j, Build(j, outputs))
      BY <1>1 DEF MayReturn, Settled, Build, Success, Result
    <2> HIDE DEF h
    <2>3. Returns(j, h, Build(j, outputs))
      BY <1>4 DEF h
    <2>4. QED
      BY <1>1, <2>1, <2>2, <2>3, ReturnsPops
  <1>5. QED
    BY <1>2, <1>3, <1>4

\* The frame of a call that begins.
LEMMA NewFrameFacts ==
    ASSUME NEW h, NEW n \in Nat, NEW def, NEW name, NEW set, NEW inputs, NEW env
    PROVE  /\ IsFrame(NewFrame(h, n, def, name, set, inputs, env))
           /\ NewFrame(h, n, def, name, set, inputs, env).base = n
           /\ NewFrame(h, n, def, name, set, inputs, env).pc = "enter"
  <1> DEFINE known == DOMAIN Values(h, env)
             vs == <<set>>
             results == Empty
             args == <<>>
  <1>1. IsSeq(<<>>) /\ Len(<<>>) = 0
    BY <<>> \in Seq({}), SeqIsSeq
  <1>2. NewFrame(h, n, def, name, set, inputs, env) =
          [def |-> def, name |-> name, inputs |-> inputs, env |-> env, pc |-> "enter",
           subs |-> <<>>, results |-> results, args |-> args, vars |-> vs,
           base |-> n, known |-> known]
    BY DEF NewFrame
  <1> HIDE DEF known, vs, results, args
  <1>3. QED
    BY <1>1, <1>2 DEF IsFrame, Fields

\* A step is loaded and called.
LEMMA LoadStepShape ==
    ASSUME StepsInv, NEW j \in Jobs, LoadStep(j)
    PROVE  Pushes(j) /\ OthersStay(j)
  <1> DEFINE H == HeapOf(j)
  <1>1. stack[j] # <<>> /\ UNCHANGED <<globalEnv, ret>>
    BY DEF LoadStep, At, jobVars
  <1>2. PICK step :
          LET s == StepEnv(H, Top(j).env, step.val.vars)
          IN  /\ SetHeap(j, s.heap)
              /\ stack' = [stack EXCEPT ![j] = Front(@) \o
                    << [Top(j) EXCEPT !.pc = "call"],
                       NewFrame(s.heap, Len(H), step.val.def, NextRef(j).name,
                                step.val.vars, step.val.inputs, s.env) >>]
    BY Zenon DEF LoadStep
  <1> DEFINE s == StepEnv(H, Top(j).env, step.val.vars)
             h == s.heap
             f == [Top(j) EXCEPT !.pc = "call"]
             g == NewFrame(h, Len(H), step.val.def, NextRef(j).name,
                           step.val.vars, step.val.inputs, s.env)
  <1>3. IsSeq(h) /\ Len(h) >= Len(heap[j]) + 1 /\ Len(H) = Len(heap[j]) + 1 /\ Len(H) \in Nat
    <2>1. PICK v : s = AddLexicalScope(H, Top(j).env, v)
      BY Zenon DEF StepEnv
    <2>2. QED
      BY <2>1, HeapFacts, ScopeFacts
  <1>4. IsFrame(g) /\ g.base = Len(heap[j]) + 1 /\ g.pc = "enter"
    <2> HIDE DEF s, h, H
    <2>1. QED
      BY <1>3, NewFrameFacts
  <1>5. IsFrame(f) /\ f.base = Top(j).base
    <2>1. IsFrame(Top(j))
      BY <1>1, TopFacts DEF StepsInv
    <2>2. QED
      BY <2>1 DEF IsFrame, Fields
  <1>6. SetHeap(j, h) /\ stack' = [stack EXCEPT ![j] = Front(stack[j]) \o <<f, g>>]
    BY <1>2, Zenon
  <1> HIDE DEF s, h, H, f, g
  <1>7. IsSeq(Front(stack[j]))
    BY <1>1, FrontFacts DEF StepsInv, JobInv
  <1>8. /\ stack'[j] = Append(Append(Front(stack[j]), f), g)
        /\ stack' = [i \in Jobs |-> stack'[i]]
        /\ \A i \in Jobs \ {j} : stack'[i] = stack[i]
    <2>1. Front(stack[j]) \o <<f, g>> = Append(Append(Front(stack[j]), f), g)
      BY <1>7, TwoFacts
    <2>2. QED
      BY <1>6, <2>1 DEF StepsInv, Domains
  <1>9. /\ Grows(j) /\ heap' = [i \in Jobs |-> heap'[i]]
        /\ \A i \in Jobs \ {j} : heap'[i] = heap[i]
    BY <1>3, <1>6, HeapGrows
  <1>10. Pushes(j)
    BY <1>1, <1>4, <1>5, <1>8, <1>9 DEF Pushes
  <1>11. OthersStay(j)
    BY <1>1, <1>8, <1>9 DEF OthersStay, StepsInv, Domains
  <1>12. QED
    BY <1>10, <1>11

\* A step cannot be loaded, or one of its files not be created.
LEMMA LoadStepFailsShape ==
    ASSUME StepsInv, NEW j \in Jobs, LoadStepFails(j)
    PROVE  Replaces(j) /\ OthersStay(j)
  <1> DEFINE f == [Top(j) EXCEPT !.pc = "call"]
  <1>1. stack[j] # <<>> /\ UNCHANGED <<globalEnv, heap>> /\ Replace(j, f)
    BY DEF LoadStepFails, At, jobVars, heapVars, Goto
  <1>2. \E e \in Errors : ret' = [ret EXCEPT ![j] = NoStep(e)]
    BY DEF LoadStepFails, Errors
  <1>3. IsFrame(f) /\ f.base = Top(j).base
    <2>1. IsFrame(Top(j))
      BY <1>1, TopFacts DEF StepsInv
    <2>2. QED
      BY <2>1 DEF IsFrame, Fields
  <1> HIDE DEF f
  <1>4. /\ Settled(ret'[j]) /\ ret' = [i \in Jobs |-> ret'[i]]
        /\ \A i \in Jobs \ {j} : ret'[i] = ret[i]
    <2>1. PICK e \in Errors : ret' = [ret EXCEPT ![j] = NoStep(e)]
      BY <1>2
    <2>2. Settled(NoStep(e))
      BY DEF Settled, NoStep, Result
    <2>3. QED
      BY <2>1, <2>2 DEF StepsInv, Domains
  <1>5. /\ stack'[j] = Append(Front(stack[j]), f)
        /\ stack' = [i \in Jobs |-> stack'[i]]
        /\ \A i \in Jobs \ {j} : stack'[i] = stack[i]
    BY <1>1 DEF Replace, StepsInv, Domains
  <1>6. Replaces(j)
    BY <1>1, <1>3, <1>4, <1>5, HeapStays DEF Replaces
  <1>7. OthersStay(j)
    BY <1>1, <1>4, <1>5 DEF OthersStay, StepsInv, Domains
  <1>8. QED
    BY <1>6, <1>7

\* A step has returned: its result is recorded, or its error ends the sequence.
LEMMA StepReturnedShape ==
    ASSUME StepsInv, NEW j \in Jobs, StepReturned(j)
    PROVE  (Pops(j) \/ Replaces(j)) /\ OthersStay(j)
  <1>1. /\ stack[j] # <<>> /\ UNCHANGED globalEnv /\ Top(j).pc = "call"
        /\ Settled(ret[j])
    BY DEF StepReturned, At, jobVars, StepsInv, JobInv
  <1>2. CASE ret[j].err # "nil"
    <2>1. ret[j].err \in Errors /\ Return(j, Failure(ret[j].err))
      BY <1>1, <1>2 DEF StepReturned, Settled
    <2>2. QED
      BY <1>1, <2>1, FailureFacts, ReturnPops
  <1>3. CASE ret[j].err = "nil"
    <2> DEFINE results == (ret[j].name :> ret[j].outputs) @@ Top(j).results
               subs == Append(Top(j).subs, ret[j].status)
               f == [Top(j) EXCEPT !.pc = "run", !.subs = subs, !.results = results]
    <2>1. Replace(j, f) /\ UNCHANGED <<heapVars, ret>>
      BY <1>3, Zenon DEF StepReturned, RecordResult
    <2>2. IsFrame(Top(j)) /\ ret[j].status = "success"
      BY <1>1, <1>3, TopFacts DEF StepsInv, Settled, Errors
    <2>3. IsSeq(subs) /\ \A i \in 1..Len(subs) : subs[i] = "success"
      <3>1. IsSeq(Top(j).subs) /\ Len(Top(j).subs) \in Nat
        BY <2>2, LenFacts DEF IsFrame
      <3>2. /\ IsSeq(subs) /\ Len(subs) = Len(Top(j).subs) + 1
            /\ \A i \in 1..Len(Top(j).subs) : subs[i] = Top(j).subs[i]
            /\ subs[Len(Top(j).subs) + 1] = ret[j].status
        BY <3>1, AppendFacts
      <3> HIDE DEF subs
      <3>3. \A i \in 1..Len(Top(j).subs) : Top(j).subs[i] = "success"
        BY <2>2 DEF IsFrame
      <3>4. QED
        BY <2>2, <3>1, <3>2, <3>3
    <2>4. IsFrame(f) /\ f.base = Top(j).base /\ f.pc # "call"
      <3> HIDE DEF subs, results
      <3>1. QED
        BY <2>2, <2>3 DEF IsFrame, Fields
    <2> HIDE DEF f
    <2>5. QED
      BY <1>1, <2>1, <2>4, HeapStays, ReplaceReplaces DEF heapVars
  <1>4. QED
    BY <1>2, <1>3

\* A sequence ends once it has a result of each step.
LEMMA SequenceEndShape ==
    ASSUME StepsInv, NEW j \in Jobs, SequenceEnd(j)
    PROVE  Pops(j) /\ OthersStay(j)
  <1>1. /\ stack[j] # <<>> /\ UNCHANGED globalEnv
        /\ Len(Top(j).subs) = Len(Refs(j))
    BY DEF SequenceEnd, At, jobVars
  <1>2. Return(j, Failure("invalid")) \/ \E outputs : Return(j, Build(j, outputs))
    BY Zenon DEF SequenceEnd
  <1>3. CASE Return(j, Failure("invalid"))
    BY <1>1, <1>3, FailureFacts, ReturnPops DEF Errors
  <1>4. ASSUME NEW outputs, Return(j, Build(j, outputs))
        PROVE  Pops(j) /\ OthersStay(j)
    <2>1. MayReturn(j, Build(j, outputs))
      BY <1>1 DEF MayReturn, Settled, Build, Success, Result
    <2>2. QED
      BY <1>1, <1>4, <2>1, ReturnPops
  <1>5. QED
    BY <1>2, <1>3, <1>4

\* A job begins.
LEMMA BeginShape ==
    ASSUME StepsInv, NEW j \in Jobs, Begin(j)
    PROVE  Starts(j) /\ OthersStay(j)
  <1> DEFINE H == HeapOf(j)
  <1>1. globalEnv[j] = 0 /\ UNCHANGED ret
    BY DEF Begin
  <1>2. PICK jv, re, def, inputs :
          LET g == GlobalEnvironment(H, 1, jv)
              s == AddLexicalScope(g.heap, g.env, re)
          IN  /\ SetHeap(j, s.heap)
              /\ globalEnv' = [globalEnv EXCEPT ![j] = s.env]
              /\ stack' = [stack EXCEPT ![j] =
                    <<NewFrame(s.heap, Len(s.heap), def, "", NoVars, inputs, s.env)>>]
    <2>1. PICK variables \in JobVars, re \in RequestEnvs[j], root \in Roots[j] :
            LET def == Compile(root, BuildDir)
                jv == Prepare(variables)
                g == GlobalEnvironment(HeapOf(j), 1, jv)
                s == AddLexicalScope(g.heap, g.env, re)
            IN  /\ ~IsError(def) /\ AcceptsInputs(def.val.spec, Empty)
                /\ Level(HeapOf(j), 1, jv) \in Levels
                /\ SetHeap(j, s.heap)
                /\ globalEnv' = [globalEnv EXCEPT ![j] = s.env]
                /\ request' = [request EXCEPT ![j] = [env |-> re, job |-> jv]]
                /\ stack' = [stack EXCEPT ![j] =
                      <<NewFrame(s.heap, Len(s.heap), def.val, "", NoVars,
                                 NewInputsWithDefault(def.val.spec, Empty), s.env)>>]
      BY DEF Begin
    <2>2. QED
      BY <2>1, Zenon
  <1> DEFINE g == GlobalEnvironment(H, 1, jv)
             s == AddLexicalScope(g.heap, g.env, re)
             h == s.heap
             f == NewFrame(h, Len(h), def, "", NoVars, inputs, s.env)
  <1>3. /\ IsSeq(h) /\ Len(h) >= Len(heap[j]) + 1 /\ Len(h) \in Nat
        /\ s.env # 0
    <2>1. PICK v : g = AddLexicalScope(H, 1, v)
      BY DEF GlobalEnvironment
    <2>2. IsSeq(H) /\ Len(H) = Len(heap[j]) + 1 /\ Len(heap[j]) \in Nat
      BY HeapFacts
    <2> HIDE DEF H
    <2>3. IsSeq(g.heap) /\ Len(g.heap) >= Len(H) /\ g.env \in {1, Len(H) + 1}
      BY <2>1, <2>2, ScopeFacts
    <2> HIDE DEF g
    <2>4. IsSeq(h) /\ Len(h) >= Len(g.heap) /\ s.env \in {g.env, Len(g.heap) + 1}
      BY <2>3, ScopeFacts
    <2>5. Len(h) \in Nat /\ Len(g.heap) \in Nat
      BY <2>3, <2>4, LenFacts
    <2>6. QED
      BY <2>2, <2>3, <2>4, <2>5
  <1>4. /\ SetHeap(j, h) /\ globalEnv' = [globalEnv EXCEPT ![j] = s.env]
        /\ stack' = [stack EXCEPT ![j] = <<f>>]
    BY <1>2, Zenon
  <1>5. IsFrame(f) /\ f.base = Len(h) /\ f.pc = "enter"
    <2> DEFINE env == s.env
               name == ""
               set == NoVars
    <2>1. f = NewFrame(h, Len(h), def, name, set, inputs, env) /\ Len(h) \in Nat
      BY <1>3
    <2> HIDE DEF h, env, name, set, f
    <2>2. QED
      BY <2>1, NewFrameFacts
  <1> HIDE DEF H, g, s, h, f
  <1>6. /\ Grows(j) /\ Len(heap'[j]) + 1 = Len(h)
        /\ heap' = [i \in Jobs |-> heap'[i]]
        /\ \A i \in Jobs \ {j} : heap'[i] = heap[i]
    BY <1>3, <1>4, HeapGrows
  <1>7. /\ globalEnv'[j] # 0 /\ globalEnv' = [i \in Jobs |-> globalEnv'[i]]
        /\ stack'[j] = <<f>> /\ stack' = [i \in Jobs |-> stack'[i]]
        /\ \A i \in Jobs \ {j} : globalEnv'[i] = globalEnv[i] /\ stack'[i] = stack[i]
    BY <1>3, <1>4 DEF Begin, StepsInv, Domains
  <1>8. Starts(j)
    BY <1>1, <1>5, <1>6, <1>7 DEF Starts
  <1>9. OthersStay(j)
    BY <1>1, <1>6, <1>7 DEF OthersStay, StepsInv, Domains
  <1>10. QED
    BY <1>8, <1>9

\* What the proofs need to know of a step of job j.
StepOf(j) ==
    \/ Starts(j) /\ OthersStay(j)
    \/ Pops(j) /\ OthersStay(j)
    \/ Replaces(j) /\ OthersStay(j)
    \/ Pushes(j) /\ OthersStay(j)

\* Every step is one of the four, or concerns nothing that the invariant is about.
LEMMA NextShape ==
    ASSUME StepsInv, [Next]_vars
    PROVE  \/ \E j \in Jobs : StepOf(j)
           \/ UNCHANGED <<heap, globalEnv, stack, ret>>
  <1>1. CASE UNCHANGED vars
    BY <1>1 DEF vars, heapVars, jobVars
  <1>2. ASSUME NEW j \in Jobs, Cancel(j)
        PROVE  UNCHANGED <<heap, globalEnv, stack, ret>>
    BY <1>2 DEF Cancel, heapVars
  <1>3. ASSUME NEW j \in Jobs, Begin(j) \/ EndCommand(j) \/ KillCommand(j) \/ JobStep(j)
        PROVE  StepOf(j)
    BY <1>3, BeginShape, EnterShape, CommandShape, ReadFilesShape, LoadStepShape,
       LoadStepFailsShape, StepReturnedShape, SequenceEndShape DEF JobStep, StepOf
  <1>4. QED
    BY <1>1, <1>2, <1>3 DEF Next

\* The invariant holds.
LEMMA StepsInvariant == Spec => []StepsInv
  <1>1. Init => StepsInv
    <2> SUFFICES ASSUME Init PROVE StepsInv
      OBVIOUS
    <2>1. IsSeq(<<>>) /\ Len(<<>>) = 0
      BY <<>> \in Seq({}), SeqIsSeq
    <2>2. ASSUME NEW j \in Jobs PROVE JobInv(j)
      <3>1. /\ stack[j] = <<>> /\ heap[j] = <<>>
        BY DEF Init
      <3>2. QED
        BY <2>1, <3>1 DEF JobInv, BasesNest
    <2>3. Domains
      BY DEF Init, Domains
    <2>4. QED
      BY <2>2, <2>3 DEF StepsInv
  <1>2. StepsInv /\ [Next]_vars => StepsInv'
    <2> SUFFICES ASSUME StepsInv, [Next]_vars PROVE StepsInv'
      OBVIOUS
    <2>1. CASE UNCHANGED <<heap, globalEnv, stack, ret>>
      BY <2>1 DEF StepsInv, Domains, JobInv, BasesNest, Top
    <2>2. ASSUME NEW j \in Jobs, StepOf(j) PROVE StepsInv'
      <3>1. JobInv(j)
        BY DEF StepsInv
      <3>2. JobInv(j)' /\ OthersStay(j)
        BY <2>2, <3>1, StartInvariant, PopInvariant, ReplaceInvariant, PushInvariant DEF StepOf
      <3>3. QED
        BY <3>2, OthersInvariant
    <2>3. QED
      BY <2>1, <2>2, NextShape
  <1>3. QED
    BY <1>1, <1>2, PTL DEF Spec

-------------------------------------------------------------------------------
(*****************************************************************************)
(* The environments of a job: h is its heap, s its stack, g the environment  *)
(* of its GlobalContext, x what it has exported and r its request.           *)
(*****************************************************************************)

\* An object of a heap, and a heap in which parents are older than their children.
IsObject(o) ==
    /\ o = [vars |-> o.vars, parent |-> o.parent, mutations |-> o.mutations]
    /\ IsSeq(o.mutations)
IsHeap(h) ==
    /\ IsSeq(h) /\ Len(h) >= 1
    /\ \A i \in 1..Len(h) : IsObject(h[i]) /\ h[i].parent \in 0..i - 1

\* Both environments have the same value of n, or none.
Same(h, d, e, n) ==
    /\ n \in DOMAIN Values(h, d) <=> n \in DOMAIN Values(h, e)
    /\ n \in DOMAIN Values(h, e) => Values(h, d)[n] = Values(h, e)[n]

\* The names that the reference and the definition of a frame set, and those that a
\* sequence within the job found when it began.
SetBy(f) == UNION { DOMAIN f.vars[m] : m \in DOMAIN f.vars }
KnownAt(s, k) == IF k = 1 THEN {} ELSE s[k].known

\* The objects of frame k lie above the environment of its caller, and end where
\* those of the frame that it called begin.
Caller(s, g, k) == IF k = 1 THEN g ELSE s[k - 1].env
End(h, s, k) == IF k < Len(s) THEN s[k + 1].base ELSE Len(h)

\* Whose parents the objects of frame k have, and which names.
FrameEnv(h, s, g, k) ==
    /\ IsSeq(s[k].vars)
    /\ End(h, s, k) \in 1..Len(h)
    /\ s[k].base \in 1..End(h, s, k) /\ g <= s[k].base
    /\ \A l \in k..Len(s) : s[k].base <= s[l].base
    /\ Caller(s, g, k) \in 1..s[k].base
    /\ s[k].env \in {Caller(s, g, k)} \cup (s[k].base + 1..End(h, s, k))
    /\ \A i \in s[k].base + 1..End(h, s, k) :
          /\ h[i].parent \in {Caller(s, g, k)} \cup (s[k].base + 1..i - 1)
          /\ h[i].mutations = <<>>
          /\ DOMAIN h[i].vars \subseteq KnownAt(s, k) \cup SetBy(s[k])
    /\ k < Len(s) => s[k].def.type = "steps" /\ s[k].pc = "call"

\* Variable n has value v for a reason: somebody on the stack up to frame k, the
\* process, the request or a command of the job gave it.
HasSource(j, r, s, k, n, v) ==
    \/ n = LogLevel
    \/ \E w \in {ProcessVars, r.env} \cup Exportable(j) : n \in DOMAIN w /\ w[n] = v
    \/ \E l \in 1..k : \E m \in DOMAIN s[l].vars : n \in DOMAIN s[l].vars[m] /\ s[l].vars[m][n] = v
From(j, r, s, k, w) == \A n \in DOMAIN w : HasSource(j, r, s, k, n, w[n])

Sources(j, r, h, s) ==
    /\ \A i \in 1..Len(h) : \A m \in 1..Len(h[i].mutations) : From(j, r, s, 0, h[i].mutations[m])
    /\ \A k \in 0..Len(s) : \A i \in 1..End(h, s, k) : From(j, r, s, k, h[i].vars)

\* The environment of the GlobalContext has what was exported.
HasExports(h, g, x) ==
    /\ g \in 2..Len(h)
    /\ \A n \in DOMAIN x : n \in DOMAIN Values(h, g) /\ Values(h, g)[n] = x[n]

\* All but the last part of the invariant holds between the steps of ReadFiles too.
EnvFrames(j, h, s, g, x, r) ==
    /\ IsHeap(h) /\ h[1] = NewEnvironment(ProcessVars) /\ IsSeq(s)
    /\ HasExports(h, g, x) /\ Sources(j, r, h, s)
    /\ \A k \in 1..Len(s) : FrameEnv(h, s, g, k)

\* A step that is not a sequence still sees what its caller sees.
Fresh(h, s, g) ==
    s # <<>> /\ (Last(s).pc = "enter" \/ Last(s).def.type = "exec") =>
        \A n \in (DOMAIN Values(h, Last(s).env) \cup DOMAIN Values(h, Caller(s, g, Len(s))))
                    \ SetBy(Last(s)) :
            Same(h, Last(s).env, Caller(s, g, Len(s)), n)

EnvOK(j, h, s, g, x, r) ==
    IF g = 0 THEN h = <<NewEnvironment(ProcessVars)>> /\ s = <<>> /\ x = NoVars
    ELSE EnvFrames(j, h, s, g, x, r) /\ Fresh(h, s, g)

EnvInv ==
    /\ process = NewEnvironment(ProcessVars)
    /\ exported = [j \in Jobs |-> exported[j]] /\ request = [j \in Jobs |-> request[j]]
    /\ \A j \in Jobs : EnvOK(j, HeapOf(j), stack[j], globalEnv[j], exported[j], request[j])

\* What Merge does.
LEMMA MergeFacts ==
    ASSUME NEW a, NEW b
    PROVE  /\ DOMAIN Merge(a, b) = DOMAIN a \cup DOMAIN b
           /\ \A n \in DOMAIN b : Merge(a, b)[n] = b[n]
           /\ \A n \in DOMAIN a \ DOMAIN b : Merge(a, b)[n] = a[n]
  BY DEF Merge

\* A set of indices has a last one.
LEMMA MaxFacts ==
    ASSUME NEW m \in Nat, NEW I, I \subseteq 1..m, I # {}
    PROVE  Max(I) \in I /\ \A i \in I : Max(I) >= i
  BY Largest DEF Max

\* Of the maps that have a name, the last one counts.
LEMMA MergeAllFacts ==
    ASSUME NEW a, NEW s, IsSeq(s)
    PROVE  /\ DOMAIN MergeAll(a, s) = DOMAIN a \cup UNION { DOMAIN s[i] : i \in 1..Len(s) }
           /\ \A n \in DOMAIN MergeAll(a, s) :
                 \/ n \in DOMAIN a /\ MergeAll(a, s)[n] = a[n]
                 \/ \E i \in 1..Len(s) : n \in DOMAIN s[i] /\ MergeAll(a, s)[n] = s[i][n]
           /\ s = <<>> => DOMAIN MergeAll(a, s) = DOMAIN a /\ \A n \in DOMAIN a : MergeAll(a, s)[n] = a[n]
  <1> DEFINE Having(n) == { i \in 1..Len(s) : n \in DOMAIN s[i] }
  <1>1. DOMAIN s = 1..Len(s) /\ Len(s) \in Nat /\ (s = <<>> <=> Len(s) = 0)
    BY LenFacts
  <1>2. MergeAll(a, s) = [n \in DOMAIN a \cup UNION { DOMAIN s[i] : i \in 1..Len(s) } |->
                            IF Having(n) = {} THEN a[n] ELSE s[Max(Having(n))][n]]
    BY <1>1 DEF MergeAll
  <1>3. \A n : Having(n) # {} => Max(Having(n)) \in 1..Len(s) /\ n \in DOMAIN s[Max(Having(n))]
    <2> TAKE n
    <2>1. Having(n) \subseteq 1..Len(s)
      OBVIOUS
    <2>2. Having(n) # {} => Max(Having(n)) \in Having(n)
      <3> HIDE DEF Having
      <3>1. QED
        BY <1>1, <2>1, MaxFacts
    <2>3. QED
      BY <2>2
  <1>4. \A n : n \notin DOMAIN a /\ n \in UNION { DOMAIN s[i] : i \in 1..Len(s) } => Having(n) # {}
    OBVIOUS
  <1>5. s = <<>> => \A n : Having(n) = {}
    BY <1>1
  <1>6. s = <<>> => UNION { DOMAIN s[i] : i \in 1..Len(s) } = {}
    BY <1>1
  <1> HIDE DEF Having
  <1>7. QED
    BY <1>2, <1>3, <1>4, <1>5, <1>6

\* A map that is appended is copied over all of them.
LEMMA MergeAllAppend ==
    ASSUME NEW a, NEW s, IsSeq(s), NEW v
    PROVE  LET old == MergeAll(a, s)
               new == MergeAll(a, Append(s, v))
           IN  /\ DOMAIN new = DOMAIN old \cup DOMAIN v
               /\ \A n \in DOMAIN v : new[n] = v[n]
               /\ \A n \in DOMAIN old \ DOMAIN v : new[n] = old[n]
  <1> DEFINE t == Append(s, v)
             m == Len(s)
             Having(n) == { i \in DOMAIN s : n \in DOMAIN s[i] }
             Now(n) == { i \in DOMAIN t : n \in DOMAIN t[i] }
             Old == DOMAIN a \cup UNION { DOMAIN s[i] : i \in DOMAIN s }
             New == DOMAIN a \cup UNION { DOMAIN t[i] : i \in DOMAIN t }
  <1>1. m \in Nat /\ DOMAIN s = 1..m
    BY LenFacts
  <1>2. /\ IsSeq(t) /\ Len(t) = m + 1 /\ t[m + 1] = v
        /\ \A i \in 1..m : t[i] = s[i]
    BY AppendFacts
  <1>3. DOMAIN t = 1..m + 1
    BY <1>2, LenFacts
  <1>4. /\ MergeAll(a, s) = [n \in Old |-> IF Having(n) = {} THEN a[n] ELSE s[Max(Having(n))][n]]
        /\ MergeAll(a, t) = [n \in New |-> IF Now(n) = {} THEN a[n] ELSE t[Max(Now(n))][n]]
    BY DEF MergeAll
  <1> HIDE DEF t, m
  <1>5. New = Old \cup DOMAIN v
    BY <1>1, <1>2, <1>3
  <1>6. ASSUME NEW n \in DOMAIN v PROVE Now(n) # {} /\ t[Max(Now(n))] = v
    <2>1. m + 1 \in Now(n) /\ Now(n) \subseteq 1..m + 1
      BY <1>1, <1>2, <1>3
    <2> HIDE DEF Now
    <2>2. Max(Now(n)) \in Now(n) /\ Max(Now(n)) >= m + 1
      BY <1>1, <2>1, MaxFacts, m + 1 \in Nat
    <2>3. Max(Now(n)) = m + 1
      BY <1>1, <2>1, <2>2
    <2>4. QED
      BY <1>2, <2>1, <2>3
  <1>7. ASSUME NEW n, n \notin DOMAIN v
        PROVE  Now(n) = Having(n) /\ (Having(n) # {} => t[Max(Now(n))] = s[Max(Having(n))])
    <2>1. Now(n) = Having(n) /\ Having(n) \subseteq 1..m
      BY <1>1, <1>2, <1>3, <1>7
    <2> HIDE DEF Now, Having
    <2>2. Having(n) # {} => Max(Having(n)) \in 1..m
      BY <1>1, <2>1, MaxFacts
    <2>3. QED
      BY <1>2, <2>1, <2>2
  <1> HIDE DEF Now, Having, Old, New
  <1> DEFINE old == MergeAll(a, s)
             new == MergeAll(a, t)
  <1>8. /\ DOMAIN old = Old /\ DOMAIN new = Old \cup DOMAIN v
        /\ \A n \in Old : old[n] = IF Having(n) = {} THEN a[n] ELSE s[Max(Having(n))][n]
        /\ \A n \in Old \cup DOMAIN v : new[n] = IF Now(n) = {} THEN a[n] ELSE t[Max(Now(n))][n]
    BY <1>4, <1>5
  <1> HIDE DEF old, new
  <1>9. ASSUME NEW n \in DOMAIN v PROVE new[n] = v[n]
    BY <1>6, <1>8
  <1>10. ASSUME NEW n \in Old, n \notin DOMAIN v PROVE new[n] = old[n]
    <2>1. Now(n) = Having(n) /\ (Having(n) # {} => t[Max(Now(n))] = s[Max(Having(n))])
      BY <1>7, <1>10
    <2>2. CASE Having(n) = {}
      BY <1>8, <2>1, <2>2
    <2>3. CASE Having(n) # {}
      BY <1>8, <2>1, <2>3
    <2>4. QED
      BY <2>2, <2>3
  <1>11. QED
    BY <1>8, <1>9, <1>10 DEF t, old, new

\* Values is what its definition says, where parents are older than their children.
LEMMA ValuesFacts ==
    ASSUME NEW h, NEW m \in Nat, \A i \in 1..m : h[i].parent \in 0..i - 1
    PROVE  /\ Values(h, 0) = NoVars
           /\ \A e \in 1..m : Values(h, e) =
                 MergeAll(Merge(Values(h, h[e].parent), h[e].vars), h[e].mutations)
  <1> DEFINE Over(v, i) == MergeAll(Merge(v, h[i].vars), h[i].mutations)
             Good(V, e) == V = [i \in 0..e |-> IF i = 0 THEN NoVars ELSE Over(V[h[i].parent], i)]
             C(e) == CHOOSE V : Good(V, e)
  <1>1. \A e : Values(h, e) = C(e)[e]
    BY DEF Values
  <1> HIDE DEF Over
  <1>2. ASSUME NEW V, NEW e \in 0..m, Good(V, e)
        PROVE  V[0] = NoVars /\ \A i \in 1..e : V[i] = Over(V[h[i].parent], i)
    <2>1. 0 \in 0..e /\ \A i \in 1..e : i \in 0..e /\ i # 0
      OBVIOUS
    <2>2. \A i \in 0..e : V[i] = IF i = 0 THEN NoVars ELSE Over(V[h[i].parent], i)
      BY <1>2
    <2>3. QED
      BY <2>1, <2>2
  <1> DEFINE T == { e \in Nat : e <= m => \E V : Good(V, e) }
  <1>3. \A e \in Nat : e \in T
    <2>1. 0 \in T
      <3>1. Good([i \in 0..0 |-> NoVars], 0)
        OBVIOUS
      <3>2. QED
        BY <3>1
    <2>2. ASSUME NEW e \in Nat, e \in T PROVE e + 1 \in T
      <3> SUFFICES ASSUME e + 1 <= m PROVE \E V : Good(V, e + 1)
        OBVIOUS
      <3>1. PICK V : Good(V, e)
        BY <2>2
      <3> DEFINE W == [i \in 0..e + 1 |-> IF i = e + 1 THEN Over(V[h[e + 1].parent], e + 1) ELSE V[i]]
      <3>2. /\ W[e + 1] = Over(V[h[e + 1].parent], e + 1) /\ \A i \in 0..e : W[i] = V[i]
            /\ W = [i \in 0..e + 1 |-> W[i]]
        <4>1. e + 1 \in 0..e + 1 /\ \A i \in 0..e : i \in 0..e + 1 /\ i # e + 1
          OBVIOUS
        <4>2. QED
          BY <4>1
      <3> HIDE DEF W
      <3>3. V[0] = NoVars /\ \A i \in 1..e : V[i] = Over(V[h[i].parent], i)
        BY <1>2, <3>1, e \in 0..m
      <3>4. \A i \in 1..e + 1 : h[i].parent \in 0..e /\ (i \in 1..e => i \in 0..e) /\ (i = e + 1 \/ i \in 1..e)
        OBVIOUS
      <3>5. W[0] = NoVars /\ \A i \in 1..e + 1 : W[i] = Over(W[h[i].parent], i)
        <4>1. W[0] = NoVars
          BY <3>2, <3>3, 0 \in 0..e
        <4>2. ASSUME NEW i \in 1..e + 1 PROVE W[i] = Over(W[h[i].parent], i)
          <5>1. W[h[i].parent] = V[h[i].parent]
            BY <3>2, <3>4
          <5>2. CASE i = e + 1
            BY <3>2, <5>1, <5>2
          <5>3. CASE i \in 1..e
            BY <3>2, <3>3, <3>4, <5>1, <5>3
          <5>4. QED
            BY <3>4, <5>2, <5>3
        <4>3. QED
          BY <4>1, <4>2
      <3>6. Good(W, e + 1)
        <4>1. \A i \in 0..e + 1 : i = 0 \/ i \in 1..e + 1
          OBVIOUS
        <4>2. \A i \in 0..e + 1 : W[i] = IF i = 0 THEN NoVars ELSE Over(W[h[i].parent], i)
          BY <3>5, <4>1
        <4>3. QED
          BY <3>2, <4>2, Zenon
      <3>7. QED
        BY <3>6
    <2> HIDE DEF T
    <2>3. QED
      BY <2>1, <2>2, Induction
  <1>4. ASSUME NEW e \in 0..m PROVE Good(C(e), e)
    <2>1. e \in Nat /\ e <= m
      OBVIOUS
    <2>2. e \in T
      BY <1>3, <2>1
    <2> HIDE DEF Good
    <2>3. \E V : Good(V, e)
      BY <2>1, <2>2
    <2>4. QED
      BY <2>3
  <1> HIDE DEF C, Good
  <1>5. ASSUME NEW V, NEW W, NEW d \in 0..m, NEW e \in 0..m, Good(V, d), Good(W, e)
        PROVE  \A i \in Nat : i <= d /\ i <= e => V[i] = W[i]
    <2>1. /\ V[0] = NoVars /\ \A i \in 1..d : V[i] = Over(V[h[i].parent], i)
          /\ W[0] = NoVars /\ \A i \in 1..e : W[i] = Over(W[h[i].parent], i)
      BY <1>2, <1>5
    <2> DEFINE U == { n \in Nat : \A i \in 0..n : i <= d /\ i <= e => V[i] = W[i] }
    <2>2. 0 \in U
      BY <2>1
    <2>3. ASSUME NEW n \in Nat, n \in U PROVE n + 1 \in U
      <3> SUFFICES ASSUME n + 1 <= d, n + 1 <= e PROVE V[n + 1] = W[n + 1]
        BY <2>3
      <3>1. n + 1 \in 1..d /\ n + 1 \in 1..e /\ h[n + 1].parent \in 0..n
        OBVIOUS
      <3>2. V[h[n + 1].parent] = W[h[n + 1].parent]
        BY <2>3, <3>1
      <3>3. QED
        BY <2>1, <3>1, <3>2
    <2> HIDE DEF U
    <2>4. \A n \in Nat : n \in U
      BY <2>2, <2>3, Induction
    <2>5. QED
      BY <2>4 DEF U
  <1>6. Values(h, 0) = NoVars
    BY <1>1, <1>2, <1>4, 0 \in 0..m
  <1>7. ASSUME NEW e \in 1..m PROVE Values(h, e) = Over(Values(h, h[e].parent), e)
    <2> DEFINE p == h[e].parent
    <2>1. e \in 0..m /\ p \in 0..m /\ p \in Nat /\ p <= p /\ p <= e /\ e \in 1..e
      OBVIOUS
    <2>2. C(e)[e] = Over(C(e)[p], e)
      BY <1>2, <1>4, <2>1
    <2> HIDE DEF p
    <2>3. C(e)[p] = C(p)[p]
      BY <1>4, <1>5, <2>1
    <2>4. QED
      BY <1>1, <2>2, <2>3 DEF p
  <1>8. QED
    BY <1>6, <1>7 DEF Over

\* An object that is not mutated has its own variables over those of its parent.
LEMMA ScopeValues ==
    ASSUME NEW h, IsHeap(h), NEW e \in 1..Len(h), h[e].mutations = <<>>
    PROVE  /\ DOMAIN Values(h, e) = DOMAIN Values(h, h[e].parent) \cup DOMAIN h[e].vars
           /\ \A n \in DOMAIN h[e].vars : Values(h, e)[n] = h[e].vars[n]
           /\ \A n : n \notin DOMAIN h[e].vars => Same(h, e, h[e].parent, n)
  <1> DEFINE a == Values(h, h[e].parent)
             b == Merge(a, h[e].vars)
  <1>1. Len(h) \in Nat /\ \A i \in 1..Len(h) : h[i].parent \in 0..i - 1
    BY LenFacts DEF IsHeap
  <1>2. Values(h, e) = MergeAll(b, h[e].mutations)
    BY <1>1, ValuesFacts
  <1>3. IsSeq(h[e].mutations)
    BY DEF IsHeap, IsObject
  <1> HIDE DEF b
  <1>4. DOMAIN Values(h, e) = DOMAIN b /\ \A n \in DOMAIN b : Values(h, e)[n] = b[n]
    <2> DEFINE ms == h[e].mutations
    <2>1. IsSeq(ms) /\ ms = <<>> /\ Values(h, e) = MergeAll(b, ms)
      BY <1>2, <1>3
    <2> HIDE DEF ms
    <2>2. DOMAIN MergeAll(b, ms) = DOMAIN b /\ \A n \in DOMAIN b : MergeAll(b, ms)[n] = b[n]
      BY <2>1, MergeAllFacts
    <2>3. QED
      BY <2>1, <2>2
  <1> HIDE DEF a
  <1>5. /\ DOMAIN b = DOMAIN a \cup DOMAIN h[e].vars
        /\ \A n \in DOMAIN h[e].vars : b[n] = h[e].vars[n]
        /\ \A n \in DOMAIN a \ DOMAIN h[e].vars : b[n] = a[n]
    BY MergeFacts DEF b
  <1>6. QED
    BY <1>4, <1>5 DEF Same, a

\* Objects of which a heap is a part have the same values in both.
LEMMA ValuesAgree ==
    ASSUME NEW h, NEW k, NEW m \in Nat,
           \A i \in 1..m : h[i].parent \in 0..i - 1, \A i \in 1..m : k[i] = h[i]
    PROVE  \A e \in 0..m : Values(k, e) = Values(h, e)
  <1> DEFINE T == { n \in Nat : \A e \in 0..n : e <= m => Values(k, e) = Values(h, e) }
  <1>1. /\ Values(h, 0) = NoVars
        /\ \A e \in 1..m : Values(h, e) =
              MergeAll(Merge(Values(h, h[e].parent), h[e].vars), h[e].mutations)
    BY ValuesFacts
  <1>2. \A i \in 1..m : k[i].parent \in 0..i - 1
    OBVIOUS
  <1>3. /\ Values(k, 0) = NoVars
        /\ \A e \in 1..m : Values(k, e) =
              MergeAll(Merge(Values(k, k[e].parent), k[e].vars), k[e].mutations)
    BY <1>2, ValuesFacts
  <1>4. 0 \in T
    BY <1>1, <1>3
  <1>5. ASSUME NEW n \in Nat, n \in T PROVE n + 1 \in T
    <2> SUFFICES ASSUME n + 1 <= m PROVE Values(k, n + 1) = Values(h, n + 1)
      BY <1>5
    <2>1. n + 1 \in 1..m /\ k[n + 1] = h[n + 1] /\ h[n + 1].parent \in 0..n /\ h[n + 1].parent <= m
      OBVIOUS
    <2>2. Values(k, h[n + 1].parent) = Values(h, h[n + 1].parent)
      BY <1>5, <2>1
    <2>3. QED
      BY <1>1, <1>3, <2>1, <2>2
  <1> HIDE DEF T
  <1>6. \A n \in Nat : n \in T
    BY <1>4, <1>5, Induction
  <1>7. QED
    BY <1>6 DEF T

\* One of the objects up to e gives n the value v.
Origin(h, e, n, v) ==
    \E i \in 1..e :
        \/ n \in DOMAIN h[i].vars /\ h[i].vars[n] = v
        \/ \E m \in 1..Len(h[i].mutations) :
              n \in DOMAIN h[i].mutations[m] /\ h[i].mutations[m][n] = v

\* Every value comes from an object.
LEMMA ValuesOrigin ==
    ASSUME NEW h, IsHeap(h), NEW d \in 0..Len(h), NEW n \in DOMAIN Values(h, d)
    PROVE  Origin(h, d, n, Values(h, d)[n])
  <1> DEFINE T == { m \in Nat : \A e \in 0..m : e <= Len(h) /\ n \in DOMAIN Values(h, e) =>
                                   Origin(h, e, n, Values(h, e)[n]) }
  <1>1. Len(h) \in Nat /\ \A i \in 1..Len(h) : h[i].parent \in 0..i - 1 /\ IsSeq(h[i].mutations)
    BY LenFacts DEF IsHeap, IsObject
  <1>2. /\ Values(h, 0) = NoVars
        /\ \A e \in 1..Len(h) : Values(h, e) =
              MergeAll(Merge(Values(h, h[e].parent), h[e].vars), h[e].mutations)
    BY <1>1, ValuesFacts
  <1>3. 0 \in T
    BY <1>2 DEF NoVars
  <1>4. ASSUME NEW m \in Nat, m \in T PROVE m + 1 \in T
    <2> DEFINE e == m + 1
               a == Values(h, h[e].parent)
               b == Merge(a, h[e].vars)
               v == Values(h, e)[n]
    <2> SUFFICES ASSUME e <= Len(h), n \in DOMAIN Values(h, e) PROVE Origin(h, e, n, v)
      BY <1>4
    <2>1. e \in 1..Len(h) /\ h[e].parent \in 0..m /\ h[e].parent <= Len(h) /\ e \in 1..e
      BY <1>1
    <2>2. Values(h, e) = MergeAll(b, h[e].mutations) /\ IsSeq(h[e].mutations)
      BY <1>1, <1>2, <2>1
    <2> HIDE DEF e
    <2>3. \/ n \in DOMAIN b /\ v = b[n]
          \/ \E l \in 1..Len(h[e].mutations) :
                n \in DOMAIN h[e].mutations[l] /\ v = h[e].mutations[l][n]
      <3> DEFINE ms == h[e].mutations
                 all == MergeAll(b, ms)
      <3>1. IsSeq(ms) /\ n \in DOMAIN all /\ v = all[n]
        BY <2>2
      <3> HIDE DEF b, v, ms
      <3>2. \/ n \in DOMAIN b /\ all[n] = b[n]
            \/ \E l \in 1..Len(ms) : n \in DOMAIN ms[l] /\ all[n] = ms[l][n]
        BY <3>1, MergeAllFacts
      <3> HIDE DEF all
      <3>3. QED
        BY <3>1, <3>2 DEF ms
    <2>4. ASSUME n \in DOMAIN b, v = b[n] PROVE Origin(h, e, n, v)
      <3>1. \/ n \in DOMAIN h[e].vars /\ v = h[e].vars[n]
            \/ n \in DOMAIN a /\ v = a[n]
        <4> DEFINE vs == h[e].vars
        <4>1. n \in DOMAIN Merge(a, vs) /\ v = Merge(a, vs)[n]
          BY <2>4
        <4> HIDE DEF a, v, vs
        <4>2. /\ DOMAIN Merge(a, vs) = DOMAIN a \cup DOMAIN vs
              /\ \A x \in DOMAIN vs : Merge(a, vs)[x] = vs[x]
              /\ \A x \in DOMAIN a \ DOMAIN vs : Merge(a, vs)[x] = a[x]
          BY MergeFacts, Zenon
        <4>3. QED
          BY <4>1, <4>2 DEF vs
      <3>2. CASE n \in DOMAIN h[e].vars /\ v = h[e].vars[n]
        BY <2>1, <3>2 DEF Origin
      <3>3. CASE n \in DOMAIN a /\ v = a[n]
        <4>1. Origin(h, h[e].parent, n, v)
          BY <1>4, <2>1, <3>3
        <4>2. \A i \in 1..h[e].parent : i \in 1..e
          BY <2>1 DEF e
        <4> HIDE DEF v
        <4>3. QED
          BY <4>1, <4>2 DEF Origin
      <3>4. QED
        BY <3>1, <3>2, <3>3
    <2>5. QED
      BY <2>1, <2>3, <2>4 DEF Origin
  <1> HIDE DEF T
  <1>5. \A m \in Nat : m \in T
    BY <1>3, <1>4, Induction
  <1>6. d \in T
    BY <1>1, <1>5
  <1>7. QED
    BY <1>1, <1>6 DEF T

\* Same is an equivalence.
LEMMA SameFacts ==
    ASSUME NEW h, NEW c, NEW d, NEW e, NEW n
    PROVE  Same(h, c, c, n) /\ (Same(h, c, d, n) /\ Same(h, d, e, n) => Same(h, c, e, n))
  BY DEF Same

\* A step sees what its caller sees, but for the names that it sets or knew before.
LEMMA FrameSees ==
    ASSUME NEW h, IsHeap(h), NEW s, NEW g, NEW k, FrameEnv(h, s, g, k),
           NEW n, n \notin KnownAt(s, k), n \notin SetBy(s[k])
    PROVE  Same(h, s[k].env, Caller(s, g, k), n)
  <1> DEFINE c == Caller(s, g, k)
             b == s[k].base
             t == End(h, s, k)
  <1>1. Len(h) \in Nat /\ t \in 1..Len(h) /\ b \in 1..t /\ c \in 1..b
    BY LenFacts DEF IsHeap, FrameEnv
  <1>2. \A i \in b + 1..t : /\ h[i].parent \in {c} \cup (b + 1..i - 1)
                            /\ h[i].mutations = <<>>
                            /\ DOMAIN h[i].vars \subseteq KnownAt(s, k) \cup SetBy(s[k])
    BY DEF FrameEnv
  <1>3. s[k].env \in {c} \cup (b + 1..t)
    BY DEF FrameEnv
  <1> HIDE DEF c, b, t
  <1>4. ASSUME NEW i \in b + 1..t PROVE Same(h, i, h[i].parent, n)
    <2>1. i \in 1..Len(h) /\ h[i].mutations = <<>> /\ n \notin DOMAIN h[i].vars
      BY <1>1, <1>2
    <2>2. QED
      BY <2>1, ScopeValues
  <1> DEFINE T == { m \in Nat : \A i \in b + 1..m : i <= t => Same(h, i, c, n) }
  <1>5. 0 \in T
    BY <1>1
  <1>6. ASSUME NEW m \in Nat, m \in T PROVE m + 1 \in T
    <2> SUFFICES ASSUME m + 1 \in b + 1..t PROVE Same(h, m + 1, c, n)
      BY <1>1, <1>6
    <2>1. Same(h, m + 1, h[m + 1].parent, n)
      BY <1>4
    <2>2. h[m + 1].parent = c \/ h[m + 1].parent \in b + 1..m
      BY <1>1, <1>2
    <2>3. Same(h, h[m + 1].parent, c, n)
      <3>1. CASE h[m + 1].parent = c
        BY <3>1, SameFacts
      <3>2. CASE h[m + 1].parent \in b + 1..m
        BY <1>1, <1>6, <3>2
      <3>3. QED
        BY <2>2, <3>1, <3>2
    <2>4. QED
      BY <2>1, <2>3, SameFacts
  <1> HIDE DEF T
  <1>7. \A m \in Nat : m \in T
    BY <1>5, <1>6, Induction
  <1>8. CASE s[k].env = c
    BY <1>8, SameFacts DEF c
  <1>9. CASE s[k].env \in b + 1..t
    <2>1. t \in T /\ t \in Nat
      BY <1>1, <1>7
    <2>2. QED
      BY <1>9, <2>1 DEF T, c
  <1>10. QED
    BY <1>3, <1>8, <1>9

\* A frame and its callers see what the job sees, but for the names that one of them
\* sets or knew before.
LEMMA StackSees ==
    ASSUME NEW h, IsHeap(h), NEW s, IsSeq(s), NEW g, \A k \in 1..Len(s) : FrameEnv(h, s, g, k),
           NEW d \in 0..Len(s), NEW n,
           \A k \in 1..d : n \notin KnownAt(s, k) /\ n \notin SetBy(s[k])
    PROVE  Same(h, Caller(s, g, d + 1), g, n)
  <1> DEFINE T == { k \in Nat : k <= d => Same(h, Caller(s, g, k + 1), g, n) }
  <1>1. Len(s) \in Nat
    BY LenFacts
  <1>2. 0 \in T
    BY SameFacts DEF Caller
  <1>3. ASSUME NEW k \in Nat, k \in T PROVE k + 1 \in T
    <2> SUFFICES ASSUME k + 1 <= d PROVE Same(h, Caller(s, g, k + 1 + 1), g, n)
      OBVIOUS
    <2>1. k + 1 \in 1..Len(s) /\ k + 1 \in 1..d
      BY <1>1
    <2>2. Same(h, s[k + 1].env, Caller(s, g, k + 1), n)
      BY <2>1, FrameSees
    <2>3. Same(h, Caller(s, g, k + 1), g, n)
      BY <1>3
    <2>4. Caller(s, g, k + 1 + 1) = s[k + 1].env
      BY DEF Caller
    <2>5. QED
      BY <2>2, <2>3, <2>4, SameFacts
  <1> HIDE DEF T
  <1>4. \A k \in Nat : k \in T
    BY <1>2, <1>3, Induction
  <1>5. QED
    BY <1>1, <1>4 DEF T

\* The first k frames of s set at least as much in t.
Keeps(s, t, k) ==
    \A i \in 1..k : \A m \in DOMAIN s[i].vars :
        m \in DOMAIN t[i].vars /\ t[i].vars[m] = s[i].vars[m]

\* A source stays one when frames are added, or variables to a frame.
LEMMA FromGrows ==
    ASSUME NEW j, NEW r, NEW s, NEW t, NEW w, NEW k \in Nat, NEW l \in Nat, k <= l,
           Keeps(s, t, k), From(j, r, s, k, w)
    PROVE  From(j, r, t, l, w)
  <1> SUFFICES ASSUME NEW n \in DOMAIN w PROVE HasSource(j, r, t, l, n, w[n])
    BY DEF From
  <1>1. HasSource(j, r, s, k, n, w[n])
    BY DEF From
  <1>2. ASSUME NEW i \in 1..k, NEW m \in DOMAIN s[i].vars,
               n \in DOMAIN s[i].vars[m], s[i].vars[m][n] = w[n]
        PROVE  HasSource(j, r, t, l, n, w[n])
    <2>1. i \in 1..l /\ m \in DOMAIN t[i].vars /\ t[i].vars[m] = s[i].vars[m]
      BY DEF Keeps
    <2>2. QED
      BY <1>2, <2>1 DEF HasSource
  <1>3. QED
    BY <1>1, <1>2 DEF HasSource

\* All that an environment of frame k has comes from somewhere.
LEMMA ValuesFrom ==
    ASSUME NEW j, NEW r, NEW h, IsHeap(h), NEW s, IsSeq(s), Sources(j, r, h, s),
           NEW k \in 0..Len(s), End(h, s, k) \in 1..Len(h), NEW e \in 0..End(h, s, k)
    PROVE  From(j, r, s, k, Values(h, e))
  <1> SUFFICES ASSUME NEW n \in DOMAIN Values(h, e)
               PROVE  HasSource(j, r, s, k, n, Values(h, e)[n])
    BY DEF From
  <1> DEFINE v == Values(h, e)[n]
  <1>1. Len(h) \in Nat /\ Len(s) \in Nat /\ e \in 0..Len(h) /\ k \in Nat
    BY LenFacts DEF IsHeap
  <1>2. Origin(h, e, n, v)
    BY <1>1, ValuesOrigin
  <1> HIDE DEF v
  <1>3. PICK i \in 1..e : \/ n \in DOMAIN h[i].vars /\ h[i].vars[n] = v
                          \/ \E m \in 1..Len(h[i].mutations) :
                                n \in DOMAIN h[i].mutations[m] /\ h[i].mutations[m][n] = v
    BY <1>2 DEF Origin
  <1>4. i \in 1..Len(h) /\ i \in 1..End(h, s, k)
    BY <1>1
  <1>5. CASE n \in DOMAIN h[i].vars /\ h[i].vars[n] = v
    <2>1. From(j, r, s, k, h[i].vars)
      BY <1>4 DEF Sources
    <2>2. QED
      BY <1>5, <2>1 DEF From, v
  <1>6. ASSUME NEW m \in 1..Len(h[i].mutations),
               n \in DOMAIN h[i].mutations[m], h[i].mutations[m][n] = v
        PROVE  HasSource(j, r, s, k, n, v)
    <2>1. From(j, r, s, 0, h[i].mutations[m])
      BY <1>4 DEF Sources
    <2>2. From(j, r, s, k, h[i].mutations[m])
      <3>1. Keeps(s, s, 0) /\ 0 \in Nat /\ k \in Nat /\ 0 <= k
        BY <1>1 DEF Keeps
      <3>2. QED
        BY <2>1, <3>1, FromGrows
    <2>3. QED
      BY <1>6, <2>2 DEF From
  <1>7. QED
    BY <1>3, <1>5, <1>6 DEF v

\* Heap k with environment d is heap h with the variables v in a scope over e.
Scoped(h, e, v, k, d) ==
    /\ IsHeap(k) /\ Len(k) \in {Len(h), Len(h) + 1}
    /\ \A i \in 1..Len(h) : k[i] = h[i]
    /\ d \in {e} \cup (Len(h) + 1..Len(k))
    /\ \A i \in Len(h) + 1..Len(k) : k[i].vars = v /\ k[i].parent = e /\ k[i].mutations = <<>>
    /\ \A i \in 0..Len(h) : Values(k, i) = Values(h, i)
    /\ DOMAIN Values(k, d) = DOMAIN Values(h, e) \cup DOMAIN v
    /\ \A n \in DOMAIN v : Values(k, d)[n] = v[n]
    /\ \A n \in DOMAIN Values(h, e) \ DOMAIN v : Values(k, d)[n] = Values(h, e)[n]

\* AddLexicalScope makes it.
LEMMA ScopeAdds ==
    ASSUME NEW h, IsHeap(h), NEW e \in 1..Len(h), NEW v
    PROVE  Scoped(h, e, v, AddLexicalScope(h, e, v).heap, AddLexicalScope(h, e, v).env)
  <1>1. Len(h) \in Nat /\ \A i \in 1..Len(h) : h[i].parent \in 0..i - 1
    BY LenFacts DEF IsHeap
  <1>2. CASE v = NoVars
    <2>1. AddLexicalScope(h, e, v) = [heap |-> h, env |-> e] /\ DOMAIN v = {}
      BY <1>2 DEF AddLexicalScope, NoVars
    <2>2. Scoped(h, e, v, h, e)
      BY <1>1, <2>1 DEF Scoped
    <2>3. QED
      BY <2>1, <2>2
  <1>3. CASE v # NoVars
    <2> DEFINE o == [NewEnvironment(v) EXCEPT !.parent = e]
               k == Append(h, o)
               d == Len(h) + 1
    <2>1. AddLexicalScope(h, e, v) = [heap |-> k, env |-> d]
      BY <1>3, Zenon DEF AddLexicalScope
    <2>2. o.vars = v /\ o.parent = e /\ o.mutations = <<>> /\ IsObject(o)
      <3>1. o = [vars |-> v, parent |-> e, mutations |-> <<>>]
        BY DEF NewEnvironment
      <3>2. IsSeq(<<>>)
        BY <<>> \in Seq({}), SeqIsSeq
      <3>3. QED
        BY <3>1, <3>2 DEF IsObject
    <2> HIDE DEF o
    <2>3. /\ IsSeq(k) /\ Len(k) = d /\ k[d] = o
          /\ \A i \in 1..Len(h) : k[i] = h[i]
      BY AppendFacts DEF IsHeap
    <2> HIDE DEF k
    <2>4. d \in Nat /\ \A i \in 1..d : i = d \/ i \in 1..Len(h)
      <3>1. Len(h) \in Nat
        BY <1>1
      <3>2. QED
        BY <3>1
    <2>5. IsHeap(k)
      <3>1. ASSUME NEW i \in 1..d PROVE IsObject(k[i]) /\ k[i].parent \in 0..i - 1
        <4>1. CASE i = d
          BY <1>1, <2>2, <2>3, <4>1
        <4>2. CASE i \in 1..Len(h)
          BY <2>3, <4>2 DEF IsHeap
        <4>3. QED
          BY <2>4, <4>1, <4>2
      <3>2. QED
        BY <1>1, <2>3, <3>1 DEF IsHeap
    <2>6. \A i \in 0..Len(h) : Values(k, i) = Values(h, i)
      BY <1>1, <2>3, ValuesAgree
    <2>7. d \in 1..Len(k) /\ k[d].vars = v /\ k[d].parent = e /\ k[d].mutations = <<>>
      BY <1>1, <2>2, <2>3
    <2>8. /\ DOMAIN Values(k, d) = DOMAIN Values(k, e) \cup DOMAIN v
          /\ \A n \in DOMAIN v : Values(k, d)[n] = v[n]
          /\ \A n : n \notin DOMAIN v => Same(k, d, e, n)
      BY <2>5, <2>7, ScopeValues
    <2>9. Values(k, e) = Values(h, e)
      BY <1>1, <2>6
    <2>10. \A n \in DOMAIN Values(h, e) \ DOMAIN v : Values(k, d)[n] = Values(h, e)[n]
      BY <2>8, <2>9 DEF Same
    <2>11. /\ Len(k) \in {Len(h), Len(h) + 1} /\ d \in Len(h) + 1..Len(k)
           /\ \A i \in Len(h) + 1..Len(k) : i = d
      BY <1>1, <2>3
    <2>12. \A i \in Len(h) + 1..Len(k) : k[i].vars = v /\ k[i].parent = e /\ k[i].mutations = <<>>
      BY <2>7, <2>11
    <2> HIDE DEF d
    <2>13. Scoped(h, e, v, k, d)
      BY <2>3, <2>5, <2>6, <2>8, <2>9, <2>10, <2>11, <2>12 DEF Scoped, d
    <2>14. QED
      BY <2>1, <2>13
  <1>4. QED
    BY <1>2, <1>3

\* A call that returns drops its frame and its objects.
LEMMA PopEnv ==
    ASSUME NEW j, NEW h, NEW s, NEW g, NEW x, NEW r, EnvFrames(j, h, s, g, x, r), s # <<>>
    PROVE  LET k == SubSeq(h, 1, Last(s).base)
               t == Front(s)
           IN  EnvFrames(j, k, t, g, x, r) /\ Fresh(k, t, g)
  <1> DEFINE n == Len(s)
             b == Last(s).base
             k == SubSeq(h, 1, b)
             t == Front(s)
  <1>1. /\ n \in Nat \ {0} /\ IsSeq(t) /\ Len(t) = n - 1 /\ Last(s) = s[n]
        /\ \A i \in 1..n - 1 : t[i] = s[i]
    BY LenFacts, FrontFacts DEF EnvFrames
  <1>2. /\ Len(h) \in Nat /\ IsSeq(h) /\ h[1] = NewEnvironment(ProcessVars)
        /\ \A i \in 1..Len(h) : IsObject(h[i]) /\ h[i].parent \in 0..i - 1
    BY LenFacts DEF EnvFrames, IsHeap
  <1>3. FrameEnv(h, s, g, n) /\ n \in 1..n
    BY <1>1 DEF EnvFrames
  <1>4. b \in 1..Len(h) /\ g <= b /\ g \in 2..Len(h)
    <2>1. End(h, s, n) = Len(h)
      BY <1>1 DEF End
    <2>2. QED
      BY <1>1, <1>3, <2>1 DEF FrameEnv, EnvFrames, HasExports
  <1>5. IsSeq(k) /\ Len(k) = b /\ \A i \in 1..b : k[i] = h[i]
    BY <1>2, <1>4, PrefixFacts, b \in 0..Len(h)
  <1> HIDE DEF k, t
  <1>6. IsHeap(k) /\ k[1] = NewEnvironment(ProcessVars)
    <2>1. 1 \in 1..b /\ \A i \in 1..b : i \in 1..Len(h)
      BY <1>2, <1>4
    <2>2. b >= 1
      BY <1>4
    <2> HIDE DEF b
    <2>3. QED
      BY <1>2, <1>5, <2>1, <2>2 DEF IsHeap
  <1>7. \A i \in 0..n - 1 : End(k, t, i) = End(h, s, i)
    <2> TAKE i \in 0..n - 1
    <2>1. CASE i = n - 1
      <3>1. End(k, t, i) = b
        BY <1>1, <1>5, <2>1 DEF End
      <3>2. End(h, s, i) = s[n].base
        BY <1>1, <2>1 DEF End
      <3>3. QED
        BY <1>1, <3>1, <3>2
    <2>2. CASE i # n - 1
      <3>1. i < Len(t) /\ i < Len(s) /\ i + 1 \in 1..n - 1
        BY <1>1, <2>2
      <3>2. QED
        BY <1>1, <3>1 DEF End
    <2>3. QED
      BY <2>1, <2>2
  <1>8. HasExports(k, g, x)
    <2>1. \A i \in 1..b : h[i].parent \in 0..i - 1
      BY <1>2, <1>4
    <2>2. Values(k, g) = Values(h, g)
      <3>1. b \in Nat /\ g \in 0..b
        BY <1>4
      <3> HIDE DEF b
      <3>2. QED
        BY <1>5, <2>1, <3>1, ValuesAgree
    <2>3. QED
      BY <1>4, <1>5, <2>2 DEF EnvFrames, HasExports
  <1>9. Sources(j, r, k, t)
    <2>1. Sources(j, r, h, s) /\ \A i \in 1..b : i \in 1..Len(h)
      BY <1>2, <1>4 DEF EnvFrames
    <2>2. ASSUME NEW i \in 1..b, NEW m \in 1..Len(k[i].mutations)
          PROVE  From(j, r, t, 0, k[i].mutations[m])
      <3>1. From(j, r, s, 0, k[i].mutations[m])
        BY <1>5, <2>1 DEF Sources
      <3>2. Keeps(s, t, 0) /\ 0 \in Nat /\ 0 <= 0
        BY DEF Keeps
      <3>3. QED
        BY <3>1, <3>2, FromGrows
    <2>3. ASSUME NEW l \in 0..n - 1, NEW i \in 1..End(k, t, l)
          PROVE  From(j, r, t, l, k[i].vars)
      <3>1. i \in 1..b
        <4>1. CASE l = n - 1
          BY <1>1, <1>5, <4>1 DEF End
        <4>2. CASE l # n - 1
          <5>1. l + 1 \in 1..n /\ n \in l + 1..n /\ l < Len(s)
            BY <1>1, <4>2
          <5>2. End(k, t, l) = s[l + 1].base
            BY <1>1, <1>7, <5>1 DEF End
          <5>3. FrameEnv(h, s, g, l + 1)
            BY <1>1, <5>1 DEF EnvFrames
          <5>4. s[l + 1].base <= b /\ s[l + 1].base \in Nat
            BY <1>1, <5>1, <5>3 DEF FrameEnv
          <5>5. QED
            BY <1>4, <5>2, <5>4
        <4>3. QED
          BY <4>1, <4>2
      <3>2. From(j, r, s, l, h[i].vars)
        <4>1. l \in 0..Len(s) /\ i \in 1..End(h, s, l)
          BY <1>1, <1>7
        <4>2. QED
          BY <2>1, <4>1 DEF Sources
      <3>3. Keeps(s, t, l) /\ l \in Nat /\ l <= l
        BY <1>1 DEF Keeps
      <3>4. From(j, r, t, l, h[i].vars)
        BY <3>2, <3>3, FromGrows
      <3>5. QED
        BY <1>5, <3>1, <3>4
    <2>4. QED
      BY <1>1, <1>5, <2>2, <2>3 DEF Sources
  <1>10. ASSUME NEW i \in 1..n - 1 PROVE FrameEnv(k, t, g, i)
    <2>1. i \in 1..n /\ i \in 0..n - 1 /\ i < Len(s)
      BY <1>1
    <2>2. FrameEnv(h, s, g, i)
      BY <2>1 DEF EnvFrames
    <2>3. t[i] = s[i] /\ End(k, t, i) = End(h, s, i)
      BY <1>1, <1>7, <2>1
    <2>4. Caller(t, g, i) = Caller(s, g, i) /\ KnownAt(t, i) = KnownAt(s, i)
      <3>1. i # 1 => i - 1 \in 1..n - 1
        BY <1>1
      <3>2. QED
        BY <1>1, <3>1 DEF Caller, KnownAt
    <2>5. End(h, s, i) <= b /\ End(h, s, i) \in 1..Len(h)
      <3>1. i + 1 \in 1..n /\ n \in i + 1..n
        BY <1>1
      <3>2. FrameEnv(h, s, g, i + 1)
        BY <3>1 DEF EnvFrames
      <3>3. s[i + 1].base <= s[n].base
        BY <3>1, <3>2 DEF FrameEnv
      <3>4. QED
        BY <1>1, <2>1, <2>2, <3>3 DEF End, FrameEnv
    <2>6. \A l \in s[i].base + 1..End(h, s, i) : k[l] = h[l]
      <3>1. s[i].base \in 1..End(h, s, i)
        BY <2>2 DEF FrameEnv
      <3>2. QED
        BY <1>4, <1>5, <2>5, <3>1
    <2>7. \A l \in i..Len(t) : l \in i..Len(s) /\ t[l] = s[l]
      BY <1>1
    <2>8. End(h, s, i) \in 1..Len(k)
      BY <1>4, <1>5, <2>5
    <2> HIDE DEF n, b
    <2>9. /\ \A l \in i..Len(t) : t[i].base <= t[l].base
          /\ \A l \in t[i].base + 1..End(k, t, i) :
                /\ k[l].parent \in {Caller(t, g, i)} \cup (t[i].base + 1..l - 1)
                /\ k[l].mutations = <<>>
                /\ DOMAIN k[l].vars \subseteq KnownAt(t, i) \cup SetBy(t[i])
      BY <2>2, <2>3, <2>4, <2>6, <2>7 DEF FrameEnv
    <2>10. QED
      BY <2>1, <2>2, <2>3, <2>4, <2>8, <2>9 DEF FrameEnv
  <1>11. Fresh(k, t, g)
    <2> SUFFICES ASSUME t # <<>> PROVE Last(t).pc # "enter" /\ Last(t).def.type # "exec"
      BY DEF Fresh
    <2>1. n - 1 \in 1..n /\ n - 1 < Len(s) /\ n - 1 \in 1..n - 1
      BY <1>1, LenFacts
    <2>2. FrameEnv(h, s, g, n - 1)
      BY <2>1 DEF EnvFrames
    <2>3. Last(t) = s[n - 1]
      BY <1>1, <2>1 DEF Last
    <2>4. QED
      BY <2>1, <2>2, <2>3 DEF FrameEnv
  <1>12. EnvFrames(j, k, t, g, x, r)
    BY <1>1, <1>6, <1>8, <1>9, <1>10 DEF EnvFrames
  <1>13. QED
    BY <1>11, <1>12 DEF k, t

\* A mutation of the environment of the job is a map that its object gets.
LEMMA MutateObject ==
    ASSUME NEW h, IsHeap(h), NEW g \in 1..Len(h), NEW v, v # NoVars
    PROVE  LET k == Mutate(h, g, v)
           IN  /\ IsSeq(k) /\ Len(k) = Len(h)
               /\ \A i \in 1..Len(h) : i # g => k[i] = h[i]
               /\ k[g].vars = h[g].vars /\ k[g].parent = h[g].parent
               /\ k[g].mutations = Append(h[g].mutations, v)
               /\ IsObject(k[g])
  <1> DEFINE ms == Append(h[g].mutations, v)
             o == [h[g] EXCEPT !.mutations = ms]
             k == [h EXCEPT ![g] = o]
  <1>1. Mutate(h, g, v) = k
    BY Zenon DEF Mutate
  <1>2. IsSeq(Mutate(h, g, v)) /\ Len(Mutate(h, g, v)) = Len(h)
    BY MutateFacts DEF IsHeap
  <1>3. DOMAIN h = 1..Len(h) /\ IsObject(h[g])
    BY LenFacts DEF IsHeap
  <1>4. IsSeq(ms)
    BY <1>3, AppendFacts DEF IsObject
  <1> HIDE DEF ms
  <1>5. o.vars = h[g].vars /\ o.parent = h[g].parent /\ o.mutations = ms /\ IsObject(o)
    BY <1>3, <1>4 DEF IsObject
  <1> HIDE DEF o
  <1>6. k[g] = o /\ \A i \in 1..Len(h) : i # g => k[i] = h[i]
    BY <1>3
  <1>7. QED
    BY <1>1, <1>2, <1>5, <1>6 DEF ms

\* What a command exports goes into the environment of the job.
LEMMA MutateEnv ==
    ASSUME NEW j, NEW h, NEW s, NEW g, NEW x, NEW r, EnvFrames(j, h, s, g, x, r),
           NEW v \in Exportable(j)
    PROVE  EnvFrames(j, Mutate(h, g, v), s, g, Merge(x, v), r)
  <1> DEFINE k == Mutate(h, g, v)
             y == Merge(x, v)
  <1>1. /\ DOMAIN y = DOMAIN x \cup DOMAIN v /\ \A n \in DOMAIN v : y[n] = v[n]
        /\ \A n \in DOMAIN x \ DOMAIN v : y[n] = x[n]
    BY MergeFacts, Zenon
  <1> HIDE DEF y
  <1>2. /\ Len(h) \in Nat /\ IsHeap(h) /\ g \in 2..Len(h) /\ g \in 1..Len(h)
        /\ \A i \in 1..Len(h) : IsObject(h[i]) /\ h[i].parent \in 0..i - 1
    BY LenFacts DEF EnvFrames, IsHeap, HasExports
  <1>3. CASE v = NoVars
    <2>1. k = h /\ DOMAIN v = {}
      BY <1>3 DEF Mutate, NoVars
    <2>2. HasExports(h, g, y)
      BY <1>1, <2>1 DEF EnvFrames, HasExports
    <2>3. QED
      BY <2>1, <2>2 DEF EnvFrames, y
  <1>4. CASE v # NoVars
    <2>1. /\ IsSeq(k) /\ Len(k) = Len(h)
          /\ \A i \in 1..Len(h) : i # g => k[i] = h[i]
          /\ k[g].vars = h[g].vars /\ k[g].parent = h[g].parent
          /\ k[g].mutations = Append(h[g].mutations, v)
          /\ IsObject(k[g])
      BY <1>2, <1>4, MutateObject
    <2> HIDE DEF k
    <2>2. \A i \in 1..Len(h) : k[i].vars = h[i].vars /\ k[i].parent = h[i].parent /\ IsObject(k[i])
      <3> TAKE i \in 1..Len(h)
      <3>1. CASE i = g
        BY <2>1, <3>1
      <3>2. CASE i # g
        BY <1>2, <2>1, <3>2
      <3>3. QED
        BY <3>1, <3>2
    <2>3. IsHeap(k)
      BY <1>2, <2>1, <2>2 DEF IsHeap
    <2>4. k[1] = NewEnvironment(ProcessVars)
      BY <1>2, <2>1 DEF EnvFrames
    <2>5. HasExports(k, g, y)
      <3> DEFINE p == h[g].parent
                 a == Merge(Values(h, p), h[g].vars)
                 ms == h[g].mutations
      <3>1. p \in 0..g - 1 /\ g - 1 \in Nat /\ IsSeq(ms)
        <4>1. IsObject(h[g]) /\ h[g].parent \in 0..g - 1
          BY <1>2
        <4>2. QED
          BY <1>2, <4>1 DEF IsObject
      <3>2. Values(k, p) = Values(h, p)
        <4>1. /\ \A i \in 1..g - 1 : h[i].parent \in 0..i - 1
              /\ \A i \in 1..g - 1 : k[i] = h[i]
          BY <1>2, <2>1
        <4>2. QED
          BY <3>1, <4>1, ValuesAgree
      <3>3. Values(h, g) = MergeAll(a, ms)
        BY <1>2, ValuesFacts
      <3>4. Values(k, g) = MergeAll(a, Append(ms, v))
        <4>1. \A i \in 1..Len(h) : k[i].parent \in 0..i - 1
          BY <1>2, <2>2
        <4>2. Values(k, g) = MergeAll(Merge(Values(k, k[g].parent), k[g].vars), k[g].mutations)
          BY <1>2, <4>1, ValuesFacts
        <4>3. QED
          BY <2>1, <3>2, <4>2
      <3> HIDE DEF a, ms, p
      <3>5. /\ DOMAIN Values(k, g) = DOMAIN Values(h, g) \cup DOMAIN v
            /\ \A n \in DOMAIN v : Values(k, g)[n] = v[n]
            /\ \A n \in DOMAIN Values(h, g) \ DOMAIN v : Values(k, g)[n] = Values(h, g)[n]
        BY <3>1, <3>3, <3>4, MergeAllAppend
      <3>6. \A n \in DOMAIN x : n \in DOMAIN Values(h, g) /\ Values(h, g)[n] = x[n]
        BY DEF EnvFrames, HasExports
      <3>7. QED
        BY <1>1, <1>2, <2>1, <3>5, <3>6 DEF HasExports
    <2>6. Sources(j, r, k, s)
      <3>1. Sources(j, r, h, s)
        BY DEF EnvFrames
      <3>2. ASSUME NEW i \in 1..Len(h), NEW m \in 1..Len(k[i].mutations)
            PROVE  From(j, r, s, 0, k[i].mutations[m])
        <4>1. CASE i # g
          BY <2>1, <3>1, <4>1 DEF Sources
        <4>2. CASE i = g
          <5> DEFINE ms == h[g].mutations
          <5>1. IsSeq(ms) /\ Len(ms) \in Nat
            BY <1>2, LenFacts DEF IsObject
          <5>2. /\ Len(k[g].mutations) = Len(ms) + 1 /\ k[g].mutations[Len(ms) + 1] = v
                /\ \A l \in 1..Len(ms) : k[g].mutations[l] = ms[l]
            BY <2>1, <5>1, AppendFacts
          <5>3. CASE m \in 1..Len(ms)
            BY <3>1, <4>2, <5>2, <5>3 DEF Sources
          <5>4. CASE m = Len(ms) + 1
            BY <4>2, <5>2, <5>4 DEF From, HasSource
          <5>5. m \in 1..Len(ms) \/ m = Len(ms) + 1
            BY <4>2, <5>1, <5>2
          <5>6. QED
            BY <5>3, <5>4, <5>5
        <4>3. QED
          BY <4>1, <4>2
      <3>3. ASSUME NEW l \in 0..Len(s), NEW i \in 1..End(k, s, l)
            PROVE  From(j, r, s, l, k[i].vars)
        <4>1. End(k, s, l) = End(h, s, l)
          BY <2>1 DEF End
        <4>2. i \in 1..Len(h)
          <5>1. Len(s) \in Nat
            BY LenFacts DEF EnvFrames
          <5>2. CASE l = Len(s)
            BY <1>2, <2>1, <5>1, <5>2 DEF End
          <5>3. CASE l # Len(s)
            <6>1. l + 1 \in 1..Len(s) /\ l < Len(s)
              BY <5>1, <5>3
            <6>2. FrameEnv(h, s, g, l + 1)
              BY <6>1 DEF EnvFrames
            <6>3. End(h, s, l) \in 1..Len(h)
              BY <1>2, <6>1, <6>2 DEF End, FrameEnv
            <6>4. QED
              BY <1>2, <4>1, <6>3
          <5>4. QED
            BY <5>2, <5>3
        <4>3. QED
          BY <2>2, <3>1, <4>1, <4>2 DEF Sources
      <3>4. QED
        BY <2>1, <3>2, <3>3 DEF Sources
    <2>7. ASSUME NEW i \in 1..Len(s) PROVE FrameEnv(k, s, g, i)
      <3>1. FrameEnv(h, s, g, i) /\ End(k, s, i) = End(h, s, i)
        BY <2>1 DEF EnvFrames, End
      <3>2. \A l \in s[i].base + 1..End(h, s, i) : k[l] = h[l]
        BY <1>2, <2>1, <3>1 DEF FrameEnv
      <3>3. QED
        BY <2>1, <3>1, <3>2 DEF FrameEnv
    <2>8. QED
      BY <2>3, <2>4, <2>5, <2>6, <2>7 DEF EnvFrames, k, y
  <1>5. QED
    BY <1>3, <1>4

\* Heap k has the objects of heap h and perhaps more.
Extends(k, h) ==
    /\ Len(h) \in Nat /\ Len(k) \in Nat /\ Len(h) <= Len(k)
    /\ \A i \in 1..Len(h) : k[i] = h[i]

\* The objects of a frame stay as they are when others come.
LEMMA FrameStays ==
    ASSUME NEW h, NEW k, NEW s, NEW t, NEW g, NEW i, FrameEnv(h, s, g, i), Extends(k, h),
           End(k, t, i) = End(h, s, i), Caller(t, g, i) = Caller(s, g, i),
           KnownAt(t, i) = KnownAt(s, i), t[i].vars = s[i].vars,
           t[i].base = s[i].base, t[i].env = s[i].env,
           \A l \in i..Len(t) : s[i].base <= t[l].base,
           i < Len(t) => t[i].def.type = "steps" /\ t[i].pc = "call"
    PROVE  FrameEnv(k, t, g, i)
  <1> DEFINE e == End(h, s, i)
             b == s[i].base
             c == Caller(s, g, i)
  <1>1. e \in 1..Len(h) /\ b \in 1..e
    BY DEF FrameEnv
  <1>2. e \in 1..Len(k) /\ \A l \in b + 1..e : k[l] = h[l]
    BY <1>1 DEF Extends
  <1>3. SetBy(t[i]) = SetBy(s[i])
    BY DEF SetBy
  <1>4. \A l \in b + 1..e : /\ k[l].parent \in {c} \cup (b + 1..l - 1)
                            /\ k[l].mutations = <<>>
                            /\ DOMAIN k[l].vars \subseteq KnownAt(t, i) \cup SetBy(t[i])
    BY <1>2, <1>3 DEF FrameEnv
  <1>5. /\ IsSeq(s[i].vars) /\ b \in 1..e /\ g <= b /\ c \in 1..b
        /\ s[i].env \in {c} \cup (b + 1..e)
    BY DEF FrameEnv
  <1>6. /\ t[i].base = b /\ End(k, t, i) = e /\ Caller(t, g, i) = c /\ t[i].vars = s[i].vars
        /\ t[i].env = s[i].env
    OBVIOUS
  <1> HIDE DEF e, b, c
  <1>7. \A l \in i..Len(t) : t[i].base <= t[l].base
    BY <1>6 DEF b
  <1>8. QED
    BY <1>2, <1>4, <1>5, <1>6, <1>7 DEF FrameEnv

\* So do the sources of what there was.
LEMMA SourcesStay ==
    ASSUME NEW j, NEW r, NEW h, NEW k, NEW s, NEW t, Sources(j, r, h, s), Extends(k, h),
           Len(s) \in Nat, Len(t) \in Nat, Len(s) <= Len(t), Keeps(s, t, Len(s)),
           \A i \in Len(h) + 1..Len(k) : k[i].mutations = <<>>,
           \A l \in 0..Len(s) - 1 : End(k, t, l) = End(h, s, l) /\ End(h, s, l) \in 1..Len(h),
           \A l \in Len(s)..Len(t) :
              /\ End(k, t, l) \in 1..Len(k)
              /\ \A i \in Len(h) + 1..End(k, t, l) : From(j, r, t, l, k[i].vars)
    PROVE  Sources(j, r, k, t)
  <1>1. ASSUME NEW i \in 1..Len(k), NEW m \in 1..Len(k[i].mutations)
        PROVE  From(j, r, t, 0, k[i].mutations[m])
    <2>1. i \in 1..Len(h)
      <3>1. Len(<<>>) = 0
        OBVIOUS
      <3>2. k[i].mutations # <<>>
        BY <3>1
      <3>3. QED
        BY <3>2 DEF Extends
    <2>2. From(j, r, s, 0, k[i].mutations[m])
      BY <2>1 DEF Sources, Extends
    <2>3. Keeps(s, t, 0) /\ 0 \in Nat /\ 0 <= 0
      BY DEF Keeps
    <2>4. QED
      BY <2>2, <2>3, FromGrows
  <1>2. ASSUME NEW l \in 0..Len(t), NEW i \in 1..End(k, t, l)
        PROVE  From(j, r, t, l, k[i].vars)
    <2>1. CASE l < Len(s)
      <3>1. l \in 0..Len(s) - 1 /\ l \in 0..Len(s) /\ l \in Nat /\ l <= l
        BY <2>1
      <3>2. i \in 1..End(h, s, l) /\ i \in 1..Len(h)
        BY <3>1 DEF Extends
      <3>3. From(j, r, s, l, k[i].vars)
        BY <3>1, <3>2 DEF Sources, Extends
      <3>4. Keeps(s, t, l)
        <4>1. \A q \in 1..l : q \in 1..Len(s)
          BY <3>1
        <4>2. QED
          BY <4>1 DEF Keeps
      <3>5. QED
        BY <3>1, <3>3, <3>4, FromGrows
    <2>2. CASE l >= Len(s) /\ i <= Len(h)
      <3>1. i \in 1..Len(h) /\ Len(s) \in 0..Len(s) /\ Len(s) <= l /\ l \in Nat
        BY <2>2 DEF Extends
      <3>2. End(h, s, Len(s)) = Len(h)
        BY DEF End
      <3>3. From(j, r, s, Len(s), k[i].vars)
        BY <3>1, <3>2 DEF Sources, Extends
      <3>4. QED
        BY <3>1, <3>3, FromGrows
    <2>3. CASE l >= Len(s) /\ i > Len(h)
      <3>1. l \in Len(s)..Len(t) /\ i \in Len(h) + 1..End(k, t, l)
        BY <2>3 DEF Extends
      <3>2. QED
        BY <3>1
    <2>4. Len(h) \in Nat /\ l \in Nat /\ i \in Nat
      BY DEF Extends
    <2>5. QED
      BY <2>1, <2>2, <2>3, <2>4
  <1>3. QED
    BY <1>1, <1>2 DEF Sources

\* What EnvFrames says of the ends of the frames.
LEMMA EndFacts ==
    ASSUME NEW j, NEW h, NEW s, NEW g, NEW x, NEW r, EnvFrames(j, h, s, g, x, r)
    PROVE  /\ Len(h) \in Nat /\ Len(s) \in Nat /\ g \in 2..Len(h) /\ IsHeap(h)
           /\ \A l \in 0..Len(s) : End(h, s, l) \in 1..Len(h)
           /\ \A l \in 1..Len(s) : s[l].base \in 1..Len(h) /\ s[l].env \in 1..End(h, s, l)
  <1>1. Len(h) \in Nat /\ Len(s) \in Nat /\ g \in 2..Len(h) /\ Len(h) >= 1
    BY LenFacts DEF EnvFrames, IsHeap, HasExports
  <1>2. ASSUME NEW l \in 1..Len(s)
        PROVE  s[l].base \in 1..Len(h) /\ s[l].env \in 1..End(h, s, l)
    <2>1. FrameEnv(h, s, g, l)
      BY DEF EnvFrames
    <2>2. QED
      BY <1>1, <2>1 DEF FrameEnv
  <1>3. ASSUME NEW l \in 0..Len(s) PROVE End(h, s, l) \in 1..Len(h)
    <2>1. CASE l = Len(s)
      BY <1>1, <2>1 DEF End
    <2>2. CASE l # Len(s)
      <3>1. l + 1 \in 1..Len(s) /\ l < Len(s)
        BY <1>1, <2>2
      <3>2. QED
        BY <1>2, <3>1 DEF End
    <2>3. QED
      BY <2>1, <2>2
  <1>4. QED
    BY <1>1, <1>2, <1>3 DEF EnvFrames

\* Exports stay where they are.
LEMMA ExportsStay ==
    ASSUME NEW h, NEW k, NEW g, NEW x, IsHeap(h), Extends(k, h), HasExports(h, g, x)
    PROVE  HasExports(k, g, x)
  <1>1. \A i \in 1..Len(h) : h[i].parent \in 0..i - 1
    BY DEF IsHeap
  <1>2. g \in 0..Len(h) /\ g \in 2..Len(k)
    BY DEF HasExports, Extends
  <1>3. Values(k, g) = Values(h, g)
    BY <1>1, <1>2, ValuesAgree DEF Extends
  <1>4. QED
    BY <1>2, <1>3 DEF HasExports

\* The frame on top goes on with the same environment.
LEMMA MoveEnv ==
    ASSUME NEW j, NEW h, NEW s, NEW t, NEW g, NEW x, NEW r,
           EnvFrames(j, h, s, g, x, r), Fresh(h, s, g), s # <<>>,
           IsSeq(t), Len(t) = Len(s), \A i \in 1..Len(s) - 1 : t[i] = s[i],
           LET f == t[Len(s)]
               o == s[Len(s)]
           IN  /\ f.vars = o.vars /\ f.base = o.base /\ f.env = o.env /\ f.known = o.known
               /\ f.def = o.def /\ f.pc # "enter"
    PROVE  EnvFrames(j, h, t, g, x, r) /\ Fresh(h, t, g)
  <1> DEFINE n == Len(s)
  <1>1. n \in Nat \ {0} /\ Len(h) \in Nat /\ IsHeap(h)
    BY EndFacts, LenFacts DEF EnvFrames
  <1>2. \A i \in 1..n : i \in 1..n - 1 \/ i = n
    BY <1>1
  <1>3. \A i \in 1..n : /\ t[i].vars = s[i].vars /\ t[i].base = s[i].base /\ t[i].env = s[i].env
                        /\ t[i].known = s[i].known /\ t[i].def = s[i].def
    BY <1>2
  <1>4. \A i \in 0..n : End(h, t, i) = End(h, s, i)
    <2>1. \A i \in 0..n : i < n => i + 1 \in 1..n
      BY <1>1
    <2>2. QED
      BY <1>3, <2>1 DEF End
  <1>5. \A i \in 1..n : Caller(t, g, i) = Caller(s, g, i) /\ KnownAt(t, i) = KnownAt(s, i)
    <2>1. \A i \in 1..n : i # 1 => i - 1 \in 1..n
      BY <1>1
    <2>2. QED
      BY <1>3, <2>1 DEF Caller, KnownAt
  <1>6. Extends(h, h)
    BY <1>1 DEF Extends
  <1>7. ASSUME NEW i \in 1..n PROVE FrameEnv(h, t, g, i)
    <2>1. FrameEnv(h, s, g, i)
      BY DEF EnvFrames
    <2>2. i < n => t[i].def.type = "steps" /\ t[i].pc = "call"
      <3>1. i < n => t[i] = s[i]
        BY <1>1
      <3>2. QED
        BY <2>1, <3>1 DEF FrameEnv
    <2>3. \A l \in i..n : s[i].base <= t[l].base
      <3>1. \A l \in i..n : l \in 1..n
        BY <1>1
      <3>2. \A l \in i..n : s[i].base <= s[l].base
        BY <2>1 DEF FrameEnv
      <3>3. QED
        BY <1>3, <3>1, <3>2
    <2>4. i \in 0..n
      BY <1>1
    <2>5. QED
      BY <1>3, <1>4, <1>5, <1>6, <2>1, <2>2, <2>3, <2>4, FrameStays
  <1>8. Sources(j, r, h, t)
    <2>1. Sources(j, r, h, s)
      BY DEF EnvFrames
    <2>2. Keeps(s, t, n)
      BY <1>3 DEF Keeps
    <2>3. \A l \in 0..n : End(h, s, l) \in 1..Len(h)
      BY EndFacts
    <2>4. \A l \in 0..n - 1 : End(h, t, l) = End(h, s, l) /\ End(h, s, l) \in 1..Len(h)
      BY <1>1, <1>4, <2>3
    <2>5. \A l \in n..n : /\ End(h, t, l) \in 1..Len(h)
                          /\ \A i \in Len(h) + 1..End(h, t, l) : From(j, r, t, l, h[i].vars)
      <3>1. End(h, t, n) = Len(h)
        BY DEF End
      <3>2. Len(h) >= 1
        BY <1>1 DEF IsHeap
      <3>3. QED
        BY <1>1, <3>1, <3>2
    <2>6. \A i \in Len(h) + 1..Len(h) : h[i].mutations = <<>>
      BY <1>1
    <2>7. n \in Nat /\ n <= n /\ Len(t) = n
      BY <1>1
    <2> HIDE DEF n
    <2>8. QED
      BY <1>6, <2>1, <2>2, <2>4, <2>5, <2>6, <2>7, SourcesStay DEF n
  <1>9. EnvFrames(j, h, t, g, x, r)
    BY <1>7, <1>8 DEF EnvFrames
  <1>10. Fresh(h, t, g)
    <2>1. Last(t) = t[n] /\ Last(s) = s[n] /\ Caller(t, g, n) = Caller(s, g, n)
      BY <1>1, <1>5 DEF Last
    <2>2. Last(t).pc # "enter" /\ Last(t).env = Last(s).env /\ Last(t).def = Last(s).def
          /\ SetBy(Last(t)) = SetBy(Last(s))
      BY <1>1, <1>3, <2>1 DEF SetBy
    <2>3. QED
      BY <2>1, <2>2 DEF Fresh
  <1>11. QED
    BY <1>9, <1>10

\* A scope leaves the rest of the heap.
LEMMA ScopedExtends ==
    ASSUME NEW h, NEW e, NEW v, NEW k, NEW d, IsHeap(h), Scoped(h, e, v, k, d)
    PROVE  Extends(k, h)
  <1>1. Len(h) \in Nat /\ Len(k) \in Nat
    BY LenFacts DEF IsHeap, Scoped
  <1>2. QED
    BY <1>1 DEF Extends, Scoped

\* Frame f sets the variables v and what frame o sets.
SetsToo(f, o, v) ==
    /\ IsSeq(f.vars) /\ SetBy(f) = SetBy(o) \cup DOMAIN v
    /\ \A m \in DOMAIN o.vars : m \in DOMAIN f.vars /\ f.vars[m] = o.vars[m]
    /\ \E m \in DOMAIN f.vars : f.vars[m] = v

\* It does when v is appended.
LEMMA SetByAppend ==
    ASSUME NEW f, NEW o, IsSeq(o.vars), NEW v, f.vars = Append(o.vars, v)
    PROVE  SetsToo(f, o, v)
  <1> DEFINE p == o.vars
             q == f.vars
  <1>1. /\ IsSeq(q) /\ Len(q) = Len(p) + 1 /\ q[Len(p) + 1] = v
        /\ \A i \in 1..Len(p) : q[i] = p[i]
    BY AppendFacts
  <1>2. Len(p) \in Nat /\ DOMAIN p = 1..Len(p) /\ DOMAIN q = 1..Len(p) + 1
    BY <1>1, LenFacts
  <1>3. SetBy(f) = UNION { DOMAIN q[m] : m \in DOMAIN q } /\ SetBy(o) = UNION { DOMAIN p[m] : m \in DOMAIN p }
    BY DEF SetBy
  <1> HIDE DEF p, q
  <1>4. /\ \A m \in DOMAIN p : m \in DOMAIN q /\ q[m] = p[m]
        /\ Len(p) + 1 \in DOMAIN q
        /\ \A m \in DOMAIN q : m \in DOMAIN p \/ m = Len(p) + 1
    BY <1>1, <1>2
  <1>5. UNION { DOMAIN q[m] : m \in DOMAIN q } = DOMAIN v \cup UNION { DOMAIN p[m] : m \in DOMAIN p }
    BY <1>1, <1>4
  <1>6. QED
    BY <1>1, <1>3, <1>4, <1>5 DEF p, q, SetsToo

\* The definition of a step sets its variables in a scope of their own.
LEMMA EnterEnv ==
    ASSUME NEW j, NEW h, NEW s, NEW t, NEW g, NEW x, NEW r,
           EnvFrames(j, h, s, g, x, r), Fresh(h, s, g), s # <<>>, Last(s).pc = "enter",
           NEW v, NEW k, NEW d, Scoped(h, Last(s).env, v, k, d),
           IsSeq(t), Len(t) = Len(s), \A i \in 1..Len(s) - 1 : t[i] = s[i],
           LET f == t[Len(s)]
               o == s[Len(s)]
           IN  /\ f.vars = Append(o.vars, v) /\ f.base = o.base /\ f.env = d
               /\ f.known = o.known /\ f.def = o.def
    PROVE  EnvFrames(j, k, t, g, x, r) /\ Fresh(k, t, g)
  <1> DEFINE n == Len(s)
             e == s[n].env
             c == Caller(s, g, n)
  <1>1. /\ n \in Nat \ {0} /\ Len(h) \in Nat /\ IsHeap(h) /\ g \in 2..Len(h)
        /\ \A l \in 0..n : End(h, s, l) \in 1..Len(h)
        /\ \A l \in 1..n : s[l].base \in 1..Len(h) /\ s[l].env \in 1..End(h, s, l)
    BY EndFacts, LenFacts DEF EnvFrames
  <1>2. Last(s) = s[n] /\ Last(t) = t[n] /\ FrameEnv(h, s, g, n) /\ End(h, s, n) = Len(h)
        /\ End(k, t, n) = Len(k)
    BY <1>1 DEF Last, EnvFrames, End
  <1>3. Extends(k, h) /\ IsHeap(k) /\ Scoped(h, e, v, k, d)
    <2>1. Scoped(h, e, v, k, d)
      BY <1>2
    <2> HIDE DEF e
    <2>2. Extends(k, h)
      BY <1>1, <2>1, ScopedExtends
    <2>3. QED
      BY <2>1, <2>2 DEF Scoped
  <1>4. /\ IsSeq(t[n].vars) /\ SetBy(t[n]) = SetBy(s[n]) \cup DOMAIN v
        /\ \A m \in DOMAIN s[n].vars : m \in DOMAIN t[n].vars /\ t[n].vars[m] = s[n].vars[m]
        /\ \E m \in DOMAIN t[n].vars : t[n].vars[m] = v
    <2> DEFINE f == t[n]
               o == s[n]
    <2>1. IsSeq(o.vars) /\ f.vars = Append(o.vars, v)
      BY <1>2 DEF FrameEnv
    <2> HIDE DEF f, o
    <2>2. SetsToo(f, o, v)
      BY <2>1, SetByAppend
    <2>3. QED
      BY <2>2 DEF f, o, SetsToo
  <1>5. \A i \in 1..n : i \in 1..n - 1 \/ i = n
    BY <1>1
  <1>6. \A i \in 1..n : t[i].base = s[i].base /\ t[i].known = s[i].known
    BY <1>5
  <1>7. \A i \in 0..n - 1 : End(k, t, i) = End(h, s, i)
    <2>1. \A i \in 0..n - 1 : i < n /\ i + 1 \in 1..n
      BY <1>1
    <2>2. QED
      BY <1>6, <2>1 DEF End
  <1>8. \A i \in 1..n : Caller(t, g, i) = Caller(s, g, i) /\ KnownAt(t, i) = KnownAt(s, i)
    <2>1. \A i \in 1..n : i # 1 => i - 1 \in 1..n - 1
      BY <1>1
    <2>2. QED
      BY <1>6, <2>1 DEF Caller, KnownAt
  <1>9. ASSUME NEW i \in 1..n, NEW l \in i..n PROVE s[i].base <= t[l].base
    <2>1. l \in 1..n /\ FrameEnv(h, s, g, i)
      BY <1>1 DEF EnvFrames
    <2>2. s[i].base <= s[l].base
      BY <2>1 DEF FrameEnv
    <2>3. QED
      BY <1>6, <2>1, <2>2
  <1>10. ASSUME NEW i \in 1..n - 1 PROVE FrameEnv(k, t, g, i)
    <2>1. i \in 1..n /\ i \in 0..n - 1 /\ i < Len(s)
      BY <1>1
    <2>2. FrameEnv(h, s, g, i)
      BY <2>1 DEF EnvFrames
    <2>3. \A l \in i..n : s[i].base <= t[l].base
      BY <1>9, <2>1
    <2>4. t[i].def.type = "steps" /\ t[i].pc = "call"
      BY <2>1, <2>2 DEF FrameEnv
    <2>5. QED
      BY <1>3, <1>7, <1>8, <2>1, <2>2, <2>3, <2>4, FrameStays
  <1>11. FrameEnv(k, t, g, n)
    <2> DEFINE b == s[n].base
    <2>1. /\ b \in 1..Len(h) /\ g <= b /\ c \in 1..b /\ e \in {c} \cup (b + 1..Len(h))
          /\ \A i \in b + 1..Len(h) : /\ h[i].parent \in {c} \cup (b + 1..i - 1)
                                      /\ h[i].mutations = <<>>
                                      /\ DOMAIN h[i].vars \subseteq KnownAt(s, n) \cup SetBy(s[n])
      BY <1>2 DEF FrameEnv
    <2>2. /\ t[n].base = b /\ t[n].env = d /\ Caller(t, g, n) = c /\ KnownAt(t, n) = KnownAt(s, n)
      BY <1>1, <1>8
    <2>3. Len(k) \in Nat /\ Len(h) <= Len(k) /\ \A i \in 1..Len(h) : k[i] = h[i]
      BY <1>3 DEF Extends
    <2>4. /\ d \in {e} \cup (Len(h) + 1..Len(k))
          /\ \A i \in Len(h) + 1..Len(k) : k[i].vars = v /\ k[i].parent = e /\ k[i].mutations = <<>>
      BY <1>3 DEF Scoped
    <2>5. \A l \in n..n : t[n].base <= t[l].base
      BY <1>1, <2>1, <2>2
    <2> HIDE DEF b, c, e
    <2>6. d \in {c} \cup (b + 1..Len(k))
      BY <1>1, <2>1, <2>3, <2>4
    <2>7. ASSUME NEW i \in b + 1..Len(k)
          PROVE  /\ k[i].parent \in {c} \cup (b + 1..i - 1)
                 /\ k[i].mutations = <<>>
                 /\ DOMAIN k[i].vars \subseteq KnownAt(s, n) \cup SetBy(t[n])
      <3>1. CASE i \in b + 1..Len(h)
        <4>1. i \in 1..Len(h)
          BY <1>1, <2>1, <3>1
        <4>2. k[i] = h[i]
          BY <2>3, <4>1
        <4>3. QED
          BY <1>4, <2>1, <3>1, <4>2
      <3>2. CASE i \in Len(h) + 1..Len(k)
        <4>1. k[i].vars = v /\ k[i].parent = e /\ k[i].mutations = <<>>
          BY <2>4, <3>2
        <4>2. e \in {c} \cup (b + 1..i - 1)
          BY <1>1, <2>1, <2>3, <3>2
        <4>3. QED
          BY <1>4, <4>1, <4>2
      <3>3. i \in b + 1..Len(h) \/ i \in Len(h) + 1..Len(k)
        BY <1>1, <2>1, <2>3
      <3>4. QED
        BY <3>1, <3>2, <3>3
    <2>8. Len(k) \in 1..Len(k) /\ b \in 1..Len(k)
      BY <1>1, <2>1, <2>3
    <2>9. ~(n < Len(t))
      BY <1>1
    <2> HIDE DEF n
    <2>10. QED
      BY <1>2, <1>4, <2>1, <2>2, <2>5, <2>6, <2>7, <2>8, <2>9 DEF FrameEnv, n
  <1>12. Sources(j, r, k, t)
    <2>1. Sources(j, r, h, s)
      BY DEF EnvFrames
    <2>2. Keeps(s, t, n)
      BY <1>4, <1>5 DEF Keeps
    <2>3. \A l \in 0..n - 1 : End(k, t, l) = End(h, s, l) /\ End(h, s, l) \in 1..Len(h)
      BY <1>1, <1>7
    <2>4. \A i \in Len(h) + 1..Len(k) : k[i].vars = v /\ k[i].mutations = <<>>
      BY <1>3 DEF Scoped
    <2>5. From(j, r, t, n, v)
      <3>1. PICK m \in DOMAIN t[n].vars : t[n].vars[m] = v
        BY <1>4
      <3>2. n \in 1..n
        BY <1>1
      <3>3. QED
        BY <3>1, <3>2 DEF From, HasSource
    <2>6. \A l \in n..n : /\ End(k, t, l) \in 1..Len(k)
                          /\ \A i \in Len(h) + 1..End(k, t, l) : From(j, r, t, l, k[i].vars)
      <3>1. Len(k) \in 1..Len(k)
        BY <1>3 DEF Extends, IsHeap
      <3>2. \A l \in n..n : l = n
        BY <1>1
      <3> HIDE DEF n
      <3>3. QED
        BY <1>2, <2>4, <2>5, <3>1, <3>2
    <2>7. n \in Nat /\ n <= n /\ Len(t) = n
      BY <1>1
    <2> HIDE DEF n
    <2>8. QED
      BY <1>3, <2>1, <2>2, <2>3, <2>4, <2>6, <2>7, SourcesStay DEF n
  <1>13. EnvFrames(j, k, t, g, x, r)
    <2>1. HasExports(k, g, x)
      BY <1>1, <1>3, ExportsStay DEF EnvFrames
    <2>2. k[1] = NewEnvironment(ProcessVars)
      <3>1. 1 \in 1..Len(h)
        BY <1>1
      <3>2. k[1] = h[1]
        BY <1>3, <3>1 DEF Extends
      <3>3. h[1] = NewEnvironment(ProcessVars)
        BY DEF EnvFrames
      <3>4. QED
        BY <3>2, <3>3
    <2>3. \A i \in 1..Len(t) : FrameEnv(k, t, g, i)
      <3> TAKE i \in 1..Len(t)
      <3>1. i \in 1..n - 1 \/ i = n
        BY <1>1, <1>5
      <3>2. QED
        BY <1>10, <1>11, <3>1
    <2>4. QED
      BY <1>3, <1>5, <1>12, <2>1, <2>2, <2>3 DEF EnvFrames
  <1>14. Fresh(k, t, g)
    <2> SUFFICES ASSUME NEW m, m \notin SetBy(t[n]) PROVE Same(k, d, c, m)
      BY <1>1, <1>2, <1>8 DEF Fresh
    <2>1. m \notin DOMAIN v /\ m \notin SetBy(s[n])
      BY <1>4
    <2>2. Same(h, e, c, m)
      BY <1>2, <2>1 DEF Fresh, Same
    <2>3. c \in 0..Len(h) /\ e \in 0..Len(h)
      BY <1>1, <1>2 DEF FrameEnv
    <2>4. Values(k, c) = Values(h, c)
      BY <1>3, <2>3 DEF Scoped
    <2>5. /\ m \in DOMAIN Values(k, d) <=> m \in DOMAIN Values(h, e)
          /\ m \in DOMAIN Values(h, e) => Values(k, d)[m] = Values(h, e)[m]
      BY <1>3, <2>1 DEF Scoped
    <2>6. QED
      BY <2>2, <2>4, <2>5 DEF Same
  <1>15. QED
    BY <1>13, <1>14

\* What a frame with one map of variables sets.
LEMMA SetByOne ==
    ASSUME NEW f, NEW v, f.vars = <<v>>
    PROVE  IsSeq(f.vars) /\ SetBy(f) = DOMAIN v /\ 1 \in DOMAIN f.vars /\ f.vars[1] = v
  <1> DEFINE q == f.vars
  <1>1. <<v>> \in Seq({v}) /\ DOMAIN <<v>> = {1} /\ <<v>>[1] = v
    OBVIOUS
  <1>2. IsSeq(<<v>>)
    BY <1>1, SeqIsSeq
  <1>3. IsSeq(q) /\ DOMAIN q = {1} /\ q[1] = v
    BY <1>1, <1>2
  <1>4. SetBy(f) = UNION { DOMAIN q[m] : m \in DOMAIN q }
    BY DEF SetBy
  <1> HIDE DEF q
  <1>5. UNION { DOMAIN q[m] : m \in DOMAIN q } = DOMAIN v
    BY <1>3
  <1>6. QED
    BY <1>3, <1>4, <1>5 DEF q

\* A sequence calls a step, in a scope with the variables of the sequence and those
\* of the reference over them: t is the stack with the frame of the call, k the heap,
\* and d the environment of the call.
Calls(h, s, t, set, o, c, k, d) ==
    /\ Scoped(h, Last(s).env, set, o, c) /\ Scoped(h, Last(s).env, Values(o, c), k, d)
    /\ IsSeq(t) /\ Len(t) = Len(s) + 1 /\ \A i \in 1..Len(s) - 1 : t[i] = s[i]
    /\ LET f == t[Len(s)]
           u == s[Len(s)]
       IN  /\ f.vars = u.vars /\ f.base = u.base /\ f.env = u.env /\ f.known = u.known
           /\ f.def = u.def /\ f.pc = "call"
    /\ LET f == t[Len(s) + 1]
       IN  f.vars = <<set>> /\ f.base = Len(h) /\ f.env = d /\ f.known = DOMAIN Values(k, d)

\* The call keeps the invariant.
LEMMA CallEnv ==
    ASSUME NEW j, NEW h, NEW s, NEW t, NEW g, NEW x, NEW r,
           EnvFrames(j, h, s, g, x, r), s # <<>>, Last(s).def.type = "steps",
           NEW set, NEW o, NEW c, NEW k, NEW d, Calls(h, s, t, set, o, c, k, d)
    PROVE  EnvFrames(j, k, t, g, x, r) /\ Fresh(k, t, g)
  <1> USE DEF Calls
  <1> DEFINE n == Len(s)
             e == s[n].env
             w == Values(o, c)
  <1>1. /\ n \in Nat \ {0} /\ Len(h) \in Nat /\ IsHeap(h) /\ g \in 2..Len(h)
        /\ \A l \in 0..n : End(h, s, l) \in 1..Len(h)
        /\ \A l \in 1..n : s[l].base \in 1..Len(h) /\ s[l].env \in 1..End(h, s, l)
    BY EndFacts, LenFacts DEF EnvFrames
  <1>2. Last(s) = s[n] /\ End(h, s, n) = Len(h) /\ e \in 1..Len(h)
    BY <1>1 DEF Last, End
  <1>3. Extends(k, h) /\ IsHeap(k) /\ Scoped(h, e, w, k, d) /\ Scoped(h, e, set, o, c)
    <2>1. Scoped(h, e, w, k, d) /\ Scoped(h, e, set, o, c)
      BY <1>2
    <2> HIDE DEF e, w
    <2>2. Extends(k, h)
      BY <1>1, <2>1, ScopedExtends
    <2>3. QED
      BY <2>1, <2>2 DEF Scoped
  <1>4. /\ DOMAIN w = DOMAIN Values(h, e) \cup DOMAIN set
        /\ \A m \in DOMAIN set : w[m] = set[m]
        /\ \A m \in DOMAIN Values(h, e) \ DOMAIN set : w[m] = Values(h, e)[m]
    BY <1>3 DEF Scoped
  <1> HIDE DEF w
  <1>5. DOMAIN Values(k, d) = DOMAIN w /\ \A m \in DOMAIN w : Values(k, d)[m] = w[m]
    BY <1>3, <1>4 DEF Scoped
  <1>6. /\ Len(k) \in Nat /\ Len(h) <= Len(k) /\ \A i \in 1..Len(h) : k[i] = h[i]
        /\ d \in {e} \cup (Len(h) + 1..Len(k))
        /\ \A i \in Len(h) + 1..Len(k) : k[i].vars = w /\ k[i].parent = e /\ k[i].mutations = <<>>
        /\ Values(k, e) = Values(h, e)
    BY <1>1, <1>2, <1>3 DEF Extends, Scoped
  <1> HIDE DEF e
  <1>7. /\ IsSeq(t[n + 1].vars) /\ SetBy(t[n + 1]) = DOMAIN set
        /\ 1 \in DOMAIN t[n + 1].vars /\ t[n + 1].vars[1] = set
    <2> DEFINE f == t[n + 1]
    <2>1. f.vars = <<set>>
      OBVIOUS
    <2> HIDE DEF f
    <2>2. IsSeq(f.vars) /\ SetBy(f) = DOMAIN set /\ 1 \in DOMAIN f.vars /\ f.vars[1] = set
      BY <2>1, SetByOne
    <2>3. QED
      BY <2>2 DEF f
  <1>8. \A i \in 1..n : i \in 1..n - 1 \/ i = n
    BY <1>1
  <1>9. \A i \in 1..n : /\ t[i].vars = s[i].vars /\ t[i].base = s[i].base /\ t[i].env = s[i].env
                        /\ t[i].known = s[i].known /\ t[i].def = s[i].def
    BY <1>8
  <1>10. \A i \in 0..n : End(k, t, i) = End(h, s, i)
    <2>1. \A i \in 0..n : i < n => i + 1 \in 1..n
      BY <1>1
    <2>2. \A i \in 0..n : i < Len(t) /\ (i < n \/ i = n)
      BY <1>1
    <2>3. QED
      BY <1>2, <1>9, <2>1, <2>2 DEF End
  <1>11. \A i \in 1..n : Caller(t, g, i) = Caller(s, g, i) /\ KnownAt(t, i) = KnownAt(s, i)
    <2>1. \A i \in 1..n : i # 1 => i - 1 \in 1..n
      BY <1>1
    <2>2. QED
      BY <1>9, <2>1 DEF Caller, KnownAt
  <1>12. /\ End(k, t, n + 1) = Len(k) /\ Caller(t, g, n + 1) = e
         /\ KnownAt(t, n + 1) = DOMAIN w /\ Last(t) = t[n + 1]
    <2>1. n + 1 # 1 /\ n + 1 - 1 = n /\ ~(n + 1 < Len(t)) /\ n \in 1..n
      BY <1>1
    <2>2. t[n].env = e
      BY <1>9, <2>1 DEF e
    <2>3. t[n + 1].known = DOMAIN w
      BY <1>5
    <2>4. QED
      BY <2>1, <2>2, <2>3 DEF End, Caller, KnownAt, Last
  <1>13. ASSUME NEW i \in 1..n PROVE FrameEnv(k, t, g, i)
    <2>1. i \in 0..n
      BY <1>1
    <2>2. FrameEnv(h, s, g, i)
      BY DEF EnvFrames
    <2>3. \A l \in i..n + 1 : s[i].base <= t[l].base
      <3>1. \A l \in i..n + 1 : (l \in i..n /\ l \in 1..n) \/ l = n + 1
        BY <1>1
      <3>2. \A l \in i..n : s[i].base <= s[l].base
        BY <2>2 DEF FrameEnv
      <3>3. t[n + 1].base = Len(h) /\ s[i].base <= Len(h)
        BY <1>1
      <3>4. QED
        BY <1>9, <3>1, <3>2, <3>3
    <2>4. t[i].def.type = "steps" /\ t[i].pc = "call"
      <3>1. CASE i = n
        BY <1>2, <3>1
      <3>2. CASE i \in 1..n - 1
        <4>1. i < n /\ t[i] = s[i]
          BY <1>1, <3>2
        <4>2. QED
          BY <2>2, <4>1 DEF FrameEnv
      <3>3. QED
        BY <1>8, <3>1, <3>2
    <2>5. QED
      BY <1>3, <1>9, <1>10, <1>11, <2>1, <2>2, <2>3, <2>4, FrameStays
  <1>14. FrameEnv(k, t, g, n + 1)
    <2> DEFINE b == Len(h)
               p == n + 1
    <2>1. t[p].base = b /\ t[p].env = d
      OBVIOUS
    <2>2. /\ Len(k) \in 1..Len(k) /\ b \in 1..Len(k) /\ g <= b /\ e \in 1..b
          /\ d \in {e} \cup (b + 1..Len(k))
      BY <1>1, <1>2, <1>6
    <2>3. \A i \in b + 1..Len(k) : /\ k[i].parent \in {e} \cup (b + 1..i - 1)
                                   /\ k[i].mutations = <<>>
                                   /\ DOMAIN k[i].vars \subseteq KnownAt(t, p) \cup SetBy(t[p])
      BY <1>6, <1>12
    <2>4. ~(p < Len(t)) /\ \A l \in p..Len(t) : l = p
      BY <1>1
    <2>5. b <= b
      BY <1>1
    <2>6. /\ End(k, t, p) = Len(k) /\ Caller(t, g, p) = e /\ IsSeq(t[p].vars)
      BY <1>7, <1>12
    <2> HIDE DEF b, p
    <2>7. FrameEnv(k, t, g, p)
      BY <2>1, <2>2, <2>3, <2>4, <2>5, <2>6 DEF FrameEnv
    <2>8. QED
      BY <2>7 DEF p
  <1>15. Keeps(s, t, n)
    BY <1>9 DEF Keeps
  <1>16. From(j, r, t, n + 1, w)
    <2> SUFFICES ASSUME NEW m \in DOMAIN w PROVE HasSource(j, r, t, n + 1, m, w[m])
      BY DEF From
    <2>1. CASE m \in DOMAIN set
      <3>1. n + 1 \in 1..n + 1 /\ w[m] = set[m]
        BY <1>1, <1>4, <2>1
      <3>2. QED
        BY <1>7, <2>1, <3>1 DEF HasSource
    <2>2. CASE m \notin DOMAIN set
      <3>1. m \in DOMAIN Values(h, e) /\ w[m] = Values(h, e)[m]
        BY <1>4, <2>2
      <3>2. From(j, r, s, n, Values(h, e))
        <4>1. Sources(j, r, h, s) /\ IsSeq(s)
          BY DEF EnvFrames
        <4>2. n \in 0..n /\ End(h, s, n) \in 1..Len(h) /\ e \in 0..End(h, s, n)
          BY <1>1, <1>2
        <4>3. QED
          BY <1>1, <4>1, <4>2, ValuesFrom
      <3>3. n \in Nat /\ n + 1 \in Nat /\ n <= n + 1
        BY <1>1
      <3> DEFINE p == n + 1
                 q == Values(h, e)
      <3>4. From(j, r, s, n, q) /\ p \in Nat /\ n <= p
        BY <3>2, <3>3
      <3> HIDE DEF n, p, q
      <3>5. From(j, r, t, p, q)
        BY <1>15, <3>3, <3>4, FromGrows
      <3>6. QED
        BY <3>1, <3>5 DEF From, p, q
    <2>3. QED
      BY <2>1, <2>2
  <1>17. Sources(j, r, k, t)
    <2>1. Sources(j, r, h, s)
      BY DEF EnvFrames
    <2>2. \A l \in 0..n - 1 : End(k, t, l) = End(h, s, l) /\ End(h, s, l) \in 1..Len(h)
      BY <1>1, <1>10
    <2>3. \A i \in Len(h) + 1..Len(k) : k[i].mutations = <<>>
      BY <1>6
    <2>4. ASSUME NEW l \in n..n + 1
          PROVE  /\ End(k, t, l) \in 1..Len(k)
                 /\ \A i \in Len(h) + 1..End(k, t, l) : From(j, r, t, l, k[i].vars)
      <3>1. l = n \/ l = n + 1
        BY <1>1
      <3>2. CASE l = n
        <4>1. End(k, t, l) = Len(h)
          BY <1>1, <1>2, <1>10, <3>2
        <4>2. QED
          BY <1>1, <1>6, <4>1
      <3>3. CASE l = n + 1
        <4>1. End(k, t, l) = Len(k) /\ Len(k) \in 1..Len(k)
          BY <1>1, <1>6, <1>12, <3>3
        <4>2. QED
          BY <1>6, <1>16, <3>3, <4>1
      <3>4. QED
        BY <3>1, <3>2, <3>3
    <2>5. n \in Nat /\ Len(t) \in Nat /\ n <= Len(t) /\ Len(t) = n + 1
      BY <1>1
    <2> HIDE DEF n
    <2>6. QED
      BY <1>3, <1>15, <2>1, <2>2, <2>3, <2>4, <2>5, SourcesStay DEF n
  <1>18. EnvFrames(j, k, t, g, x, r)
    <2>1. HasExports(k, g, x)
      BY <1>1, <1>3, ExportsStay DEF EnvFrames
    <2>2. k[1] = NewEnvironment(ProcessVars)
      BY <1>1, <1>6 DEF EnvFrames
    <2>3. \A i \in 1..n + 1 : i \in 1..n \/ i = n + 1
      BY <1>1
    <2>4. QED
      BY <1>3, <1>13, <1>14, <1>17, <2>1, <2>2, <2>3 DEF EnvFrames
  <1>19. Fresh(k, t, g)
    <2>1. t[n + 1].env = d
      OBVIOUS
    <2>2. ASSUME NEW m, m \notin DOMAIN set PROVE Same(k, d, e, m)
      <3>1. m \in DOMAIN w <=> m \in DOMAIN Values(h, e)
        BY <1>4, <2>2
      <3>2. QED
        BY <1>4, <1>5, <1>6, <2>2, <3>1 DEF Same
    <2>3. QED
      BY <1>7, <1>12, <2>1, <2>2 DEF Fresh
  <1>20. QED
    BY <1>18, <1>19

\* A job begins with the environment of the process and the scopes of the log level
\* and of the request.
LEMMA StartEnv ==
    ASSUME NEW j, NEW r, NEW p, p = <<NewEnvironment(ProcessVars)>>,
           NEW lv, DOMAIN lv = {LogLevel}, NEW o, NEW c, Scoped(p, 1, lv, o, c), c # 1,
           NEW k, NEW d, Scoped(o, c, r.env, k, d),
           NEW t, NEW f, t = <<f>>, f.vars = <<NoVars>>, f.base = Len(k), f.env = d
    PROVE  EnvFrames(j, k, t, d, NoVars, r) /\ Fresh(k, t, d) /\ d # 0
  <1> DEFINE P == NewEnvironment(ProcessVars)
  <1>1. Len(p) = 1 /\ p[1] = P
    OBVIOUS
  <1>2. P.vars = ProcessVars /\ P.mutations = <<>>
    BY DEF NewEnvironment
  <1> HIDE DEF P
  <1>3. /\ IsSeq(t) /\ Len(t) = 1 /\ t[1] = f /\ Last(t) = f /\ IsSeq(f.vars)
    <2>1. <<f>> \in Seq({f}) /\ Len(<<f>>) = 1 /\ <<f>>[1] = f
      OBVIOUS
    <2>2. IsSeq(t) /\ Len(t) = 1 /\ t[1] = f
      BY <2>1, SeqIsSeq
    <2>3. IsSeq(f.vars)
      BY SetByOne
    <2>4. QED
      BY <2>2, <2>3 DEF Last
  <1>4. IsHeap(o) /\ Len(o) \in Nat /\ IsHeap(k) /\ Len(k) \in Nat
    BY LenFacts DEF Scoped, IsHeap
  <1>5. Len(o) \in {1, 2} /\ c \in 2..Len(o) /\ Len(o) <= Len(k) /\ d \in 2..Len(k)
    BY <1>1, <1>4 DEF Scoped
  <1>6. /\ k[1] = P
        /\ \A i \in 2..Len(o) : k[i].vars = lv /\ k[i].mutations = <<>>
        /\ \A i \in Len(o) + 1..Len(k) : k[i].vars = r.env /\ k[i].mutations = <<>>
    <2>1. \A i \in 1..Len(o) : k[i] = o[i]
      BY DEF Scoped
    <2>2. o[1] = P /\ \A i \in 1 + 1..Len(o) : o[i].vars = lv /\ o[i].mutations = <<>>
      BY <1>1 DEF Scoped
    <2>3. 1 \in 1..Len(o) /\ \A i \in 2..Len(o) : i \in 1..Len(o) /\ i \in 1 + 1..Len(o)
      BY <1>4, <1>5
    <2>4. QED
      BY <2>1, <2>2, <2>3 DEF Scoped
  <1>7. \A i \in 1..Len(k) : \/ i = 1 \/ i \in 2..Len(o) \/ i \in Len(o) + 1..Len(k)
    BY <1>4
  <1>8. \A i \in 1..Len(k) : k[i].mutations = <<>>
    BY <1>2, <1>6, <1>7
  <1>9. ASSUME NEW l, NEW i \in 1..Len(k) PROVE From(j, r, t, l, k[i].vars)
    <2>1. CASE i = 1
      BY <1>2, <1>6, <2>1 DEF From, HasSource
    <2>2. CASE i \in 2..Len(o)
      BY <1>6, <2>2 DEF From, HasSource
    <2>3. CASE i \in Len(o) + 1..Len(k)
      BY <1>6, <2>3 DEF From, HasSource
    <2>4. QED
      BY <1>7, <2>1, <2>2, <2>3
  <1>10. End(k, t, 0) = Len(k) /\ End(k, t, 1) = Len(k) /\ Caller(t, d, 1) = d
    BY <1>3 DEF End, Caller
  <1>11. Sources(j, r, k, t)
    <2>1. \A i \in 1..Len(k) : \A m \in 1..Len(k[i].mutations) : FALSE
      <3>1. Len(<<>>) = 0
        OBVIOUS
      <3>2. QED
        BY <1>8, <3>1
    <2>2. \A l \in 0..Len(t) : End(k, t, l) = Len(k)
      <3>1. \A l \in 0..Len(t) : l = 0 \/ l = 1
        BY <1>3
      <3>2. QED
        BY <1>10, <3>1
    <2>3. QED
      BY <1>9, <2>1, <2>2 DEF Sources
  <1>12. FrameEnv(k, t, d, 1)
    <2>1. \A l \in 1..Len(t) : l = 1
      BY <1>3
    <2>2. /\ Len(k) \in 1..Len(k) /\ d <= Len(k) /\ d \in 1..Len(k) /\ Len(k) <= Len(k)
          /\ \A i \in Len(k) + 1..Len(k) : FALSE
      BY <1>4, <1>5
    <2>3. ~(1 < Len(t)) /\ t[1].base = Len(k) /\ t[1].env = d /\ IsSeq(t[1].vars)
      BY <1>3
    <2>4. QED
      BY <1>10, <2>1, <2>2, <2>3 DEF FrameEnv
  <1>13. HasExports(k, d, NoVars)
    <2>1. DOMAIN NoVars = {}
      BY DEF NoVars
    <2>2. QED
      BY <1>5, <2>1 DEF HasExports
  <1>14. EnvFrames(j, k, t, d, NoVars, r)
    <2>1. \A l \in 1..Len(t) : l = 1
      BY <1>3
    <2>2. QED
      BY <1>3, <1>4, <1>6, <1>11, <1>12, <1>13, <2>1 DEF EnvFrames, P
  <1>15. Fresh(k, t, d)
    BY <1>3, <1>10, SameFacts DEF Fresh
  <1>16. QED
    BY <1>5, <1>14, <1>15

-------------------------------------------------------------------------------
(*****************************************************************************)
(* The actions keep the invariant of the environments                        *)
(*****************************************************************************)

\* The invariant of the environments of job j, and what a step of job j owes it.
JobEnv(j) == EnvOK(j, HeapOf(j), stack[j], globalEnv[j], exported[j], request[j])
OwnOnly(j) ==
    /\ process' = process
    /\ exported' = [i \in Jobs |-> exported'[i]] /\ request' = [i \in Jobs |-> request'[i]]
    /\ \A i \in Jobs \ {j} : exported'[i] = exported[i] /\ request'[i] = request[i]

\* A sequence is its first element and the rest.
LEMMA ConsTail ==
    ASSUME NEW s, IsSeq(s), s # <<>>
    PROVE  <<Head(s)>> \o Tail(s) = s /\ Head(s) = s[1]
  <1>1. s \in Seq(ToSet(s))
    BY DEF IsSeq
  <1> DEFINE S == ToSet(s)
  <1> HIDE DEF S
  <1>2. s \in Seq(S)
    BY <1>1 DEF S
  <1>3. <<Head(s)>> \o Tail(s) \in Seq(S) /\ Len(<<Head(s)>> \o Tail(s)) = Len(s)
        /\ Head(s) = s[1] /\ Head(s) \in S /\ Tail(s) \in Seq(S)
    BY <1>2
  <1>4. \A i \in 1..Len(s) : (<<Head(s)>> \o Tail(s))[i] = s[i]
    BY <1>2, <1>3
  <1>5. QED
    BY <1>2, <1>3, <1>4

\* The heap of job j is the one that it is given.
LEMMA SetHeapIs ==
    ASSUME StepsInv, NEW j \in Jobs, NEW h, IsSeq(h), Len(h) >= 1, SetHeap(j, h)
    PROVE  HeapOf(j)' = h /\ process' = h[1]
  <1>1. h # <<>> /\ heap'[j] = Tail(h) /\ process' = Head(h)
    BY LenFacts DEF SetHeap, StepsInv, Domains
  <1>2. QED
    BY <1>1, ConsTail DEF HeapOf

\* A job that runs has environments.
LEMMA RunningEnv ==
    ASSUME EnvInv, NEW j \in Jobs, stack[j] # <<>>
    PROVE  /\ globalEnv[j] # 0 /\ process = NewEnvironment(ProcessVars)
           /\ EnvFrames(j, HeapOf(j), stack[j], globalEnv[j], exported[j], request[j])
           /\ Fresh(HeapOf(j), stack[j], globalEnv[j])
  <1>1. EnvOK(j, HeapOf(j), stack[j], globalEnv[j], exported[j], request[j])
    BY DEF EnvInv
  <1>2. globalEnv[j] # 0
    BY <1>1 DEF EnvOK
  <1>3. QED
    BY <1>1, <1>2 DEF EnvOK, EnvInv

\* A call returns, after it may have exported something.
LEMMA ReturnsEnv ==
    ASSUME StepsInv, EnvInv, NEW j \in Jobs, stack[j] # <<>>, NEW h, NEW r, Returns(j, h, r),
           EnvFrames(j, h, stack[j], globalEnv[j], exported'[j], request[j]),
           UNCHANGED <<globalEnv, request>>
    PROVE  JobEnv(j)' /\ process' = process
  <1> DEFINE k == SubSeq(h, 1, Last(stack[j]).base)
             t == Front(stack[j])
             g == globalEnv[j]
             x == exported'[j]
             q == request[j]
  <1>1. EnvFrames(j, k, t, g, x, q) /\ Fresh(k, t, g)
    BY PopEnv
  <1>2. SetHeap(j, k) /\ stack'[j] = t
    BY DEF Returns, Top, StepsInv, Domains
  <1> HIDE DEF k, t
  <1>3. IsSeq(k) /\ Len(k) >= 1 /\ k[1] = NewEnvironment(ProcessVars)
    BY <1>1 DEF EnvFrames, IsHeap
  <1>4. HeapOf(j)' = k /\ process' = k[1]
    BY <1>2, <1>3, SetHeapIs
  <1>5. g # 0 /\ process = NewEnvironment(ProcessVars)
    BY RunningEnv
  <1>6. EnvOK(j, k, t, g, x, q)
    BY <1>1, <1>5 DEF EnvOK
  <1>7. JobEnv(j)'
    BY <1>2, <1>4, <1>6 DEF JobEnv
  <1>8. QED
    BY <1>3, <1>4, <1>5, <1>7

\* A call returns and exports nothing.
LEMMA ReturnEnv ==
    ASSUME StepsInv, EnvInv, NEW j \in Jobs, stack[j] # <<>>, NEW r, Return(j, r),
           UNCHANGED <<globalEnv, request, exported>>
    PROVE  JobEnv(j)' /\ OwnOnly(j)
  <1>1. EnvFrames(j, HeapOf(j), stack[j], globalEnv[j], exported'[j], request[j])
    BY RunningEnv
  <1> DEFINE h == HeapOf(j)
  <1>2. Returns(j, h, r)
    BY DEF Return
  <1> HIDE DEF h
  <1>3. JobEnv(j)' /\ process' = process
    BY <1>1, <1>2, ReturnsEnv DEF h
  <1>4. QED
    BY <1>3 DEF OwnOnly, EnvInv

\* A frame takes the place of the one on top.
LEMMA ReplaceStack ==
    ASSUME StepsInv, NEW j \in Jobs, stack[j] # <<>>, NEW f, Replace(j, f)
    PROVE  /\ IsSeq(stack'[j]) /\ Len(stack'[j]) = Len(stack[j])
           /\ \A i \in 1..Len(stack[j]) - 1 : stack'[j][i] = stack[j][i]
           /\ stack'[j][Len(stack[j])] = f /\ stack[j][Len(stack[j])] = Top(j)
  <1> DEFINE n == Len(stack[j])
             u == Front(stack[j])
  <1>1. /\ IsSeq(u) /\ Len(u) = n - 1 /\ \A i \in 1..n - 1 : u[i] = stack[j][i]
        /\ n \in Nat \ {0} /\ stack[j][n] = Top(j)
    <2>1. JobInv(j) /\ IsSeq(stack[j])
      BY DEF StepsInv, JobInv
    <2>2. n \in Nat \ {0} /\ stack[j][n] = Top(j)
      BY <2>1, TopFacts
    <2>3. IsSeq(u) /\ Len(u) = n - 1 /\ \A i \in 1..n - 1 : u[i] = stack[j][i]
      BY <2>1, FrontFacts
    <2>4. QED
      BY <2>2, <2>3
  <1>2. stack'[j] = Append(u, f)
    BY DEF Replace, StepsInv, Domains
  <1> HIDE DEF u
  <1>3. QED
    BY <1>1, <1>2, AppendFacts

\* A step within a call that leaves the environments.
LEMMA ReplaceEnv ==
    ASSUME StepsInv, EnvInv, NEW j \in Jobs, stack[j] # <<>>, NEW f, Replace(j, f),
           f.vars = Top(j).vars, f.base = Top(j).base, f.env = Top(j).env,
           f.known = Top(j).known, f.def = Top(j).def, f.pc # "enter",
           UNCHANGED <<heapVars, globalEnv, request, exported>>
    PROVE  JobEnv(j)' /\ OwnOnly(j)
  <1> DEFINE h == HeapOf(j)
             s == stack[j]
             t == stack'[j]
             g == globalEnv[j]
             x == exported[j]
             r == request[j]
  <1>1. EnvFrames(j, h, s, g, x, r) /\ Fresh(h, s, g) /\ g # 0 /\ s # <<>>
    BY RunningEnv
  <1>2. /\ IsSeq(t) /\ Len(t) = Len(s) /\ \A i \in 1..Len(s) - 1 : t[i] = s[i]
        /\ t[Len(s)] = f /\ s[Len(s)] = Top(j)
    BY ReplaceStack
  <1>3. HeapOf(j)' = h
    BY DEF HeapOf, heapVars
  <1>4. UNCHANGED <<globalEnv, request, exported, process>>
    BY DEF heapVars
  <1> HIDE DEF h, s, t, g, x, r
  <1>5. EnvFrames(j, h, t, g, x, r) /\ Fresh(h, t, g)
    BY <1>1, <1>2, MoveEnv
  <1>6. EnvOK(j, h, t, g, x, r)
    BY <1>1, <1>5 DEF EnvOK
  <1>7. JobEnv(j)'
    BY <1>3, <1>4, <1>6 DEF JobEnv, t, g, x, r
  <1>8. QED
    BY <1>4, <1>7 DEF OwnOnly, EnvInv

\* The definition of a step sets its variables, or the step returns.
LEMMA EnterKeeps ==
    ASSUME StepsInv, EnvInv, NEW j \in Jobs, Enter(j)
    PROVE  JobEnv(j)' /\ OwnOnly(j)
  <1>1. stack[j] # <<>> /\ Top(j).pc = "enter" /\ UNCHANGED <<globalEnv, request, exported>>
    BY DEF Enter, jobVars
  <1>2. PICK env :
          LET s == AddLexicalScope(HeapOf(j), Top(j).env, Strs(env.val)) IN
          \/ /\ SetHeap(j, s.heap)
             /\ Replace(j, [Top(j) EXCEPT !.env = s.env, !.pc = "run",
                                          !.vars = Append(@, Strs(env.val))])
          \/ \E r : Return(j, r)
    BY Zenon DEF Enter
  <1> DEFINE v == Strs(env.val)
             k == AddLexicalScope(HeapOf(j), Top(j).env, v).heap
             d == AddLexicalScope(HeapOf(j), Top(j).env, v).env
             w == Append(Top(j).vars, v)
             f == [Top(j) EXCEPT !.env = d, !.pc = "run", !.vars = w]
  <1>3. CASE SetHeap(j, k) /\ Replace(j, f)
    <2> DEFINE h == HeapOf(j)
               s == stack[j]
               t == stack'[j]
               g == globalEnv[j]
               x == exported[j]
               r == request[j]
    <2>1. EnvFrames(j, h, s, g, x, r) /\ Fresh(h, s, g) /\ g # 0 /\ s # <<>>
      BY <1>1, RunningEnv
    <2>2. Top(j) = Last(s) /\ IsFrame(Top(j))
      BY <1>1, TopFacts DEF StepsInv, Top
    <2>3. /\ f.vars = w /\ f.base = Top(j).base /\ f.env = d /\ f.known = Top(j).known
          /\ f.def = Top(j).def
      <3> HIDE DEF w, d
      <3>1. QED
        BY <2>2 DEF IsFrame, Fields
    <2> HIDE DEF f
    <2>4. Replace(j, f)
      BY <1>3
    <2>5. /\ IsSeq(t) /\ Len(t) = Len(s) /\ \A i \in 1..Len(s) - 1 : t[i] = s[i]
          /\ t[Len(s)] = f /\ s[Len(s)] = Top(j)
      BY <1>1, <2>4, ReplaceStack
    <2>6. IsHeap(h) /\ Len(s) \in 1..Len(s) /\ Last(s).env \in 1..Len(h)
      <3> HIDE DEF h, s, g, x, r
      <3>1. /\ Len(h) \in Nat /\ Len(s) \in Nat /\ IsHeap(h)
            /\ \A l \in 0..Len(s) : End(h, s, l) \in 1..Len(h)
            /\ \A l \in 1..Len(s) : s[l].env \in 1..End(h, s, l)
        BY <2>1, EndFacts
      <3>2. Len(s) \in 1..Len(s) /\ Len(s) \in 0..Len(s)
        BY <2>1, <3>1, LenFacts DEF EnvFrames
      <3>3. s[Len(s)].env \in 1..End(h, s, Len(s)) /\ End(h, s, Len(s)) \in 1..Len(h)
        BY <3>1, <3>2
      <3>4. QED
        BY <3>1, <3>2, <3>3 DEF Last
    <2>7. Scoped(h, Last(s).env, v, k, d)
      <3> DEFINE e == Last(s).env
      <3>1. k = AddLexicalScope(h, e, v).heap /\ d = AddLexicalScope(h, e, v).env /\ e \in 1..Len(h)
        BY <2>2, <2>6
      <3> HIDE DEF e, h, v, k, d
      <3>2. QED
        BY <2>6, <3>1, ScopeAdds DEF e
    <2>8. SetHeap(j, k) /\ UNCHANGED <<globalEnv, request, exported>>
      BY <1>1, <1>3
    <2> HIDE DEF h, s, t, g, x, r, v, k, d
    <2>9. EnvFrames(j, k, t, g, x, r) /\ Fresh(k, t, g)
      <3>1. /\ t[Len(s)].vars = Append(s[Len(s)].vars, v) /\ t[Len(s)].base = s[Len(s)].base
            /\ t[Len(s)].env = d /\ t[Len(s)].known = s[Len(s)].known
            /\ t[Len(s)].def = s[Len(s)].def
        BY <2>3, <2>5
      <3>2. Last(s).pc = "enter"
        BY <1>1, <2>2
      <3>3. QED
        BY <2>1, <2>5, <2>7, <3>1, <3>2, EnterEnv
    <2>10. EnvOK(j, k, t, g, x, r) /\ IsSeq(k) /\ Len(k) >= 1 /\ k[1] = NewEnvironment(ProcessVars)
      BY <2>1, <2>9 DEF EnvOK, EnvFrames, IsHeap
    <2>11. HeapOf(j)' = k /\ process' = process
      BY <2>8, <2>10, SetHeapIs DEF EnvInv
    <2>12. JobEnv(j)'
      BY <2>8, <2>10, <2>11 DEF JobEnv, t, g, x, r
    <2>13. QED
      BY <2>8, <2>11, <2>12 DEF OwnOnly, EnvInv
  <1>4. ASSUME NEW r, Return(j, r) PROVE JobEnv(j)' /\ OwnOnly(j)
    BY <1>1, <1>4, ReturnEnv
  <1>5. QED
    BY <1>2, <1>3, <1>4, Zenon

\* Commands leave the environments until their files are read.
LEMMA CommandKeeps ==
    ASSUME StepsInv, EnvInv, NEW j \in Jobs, StartCommand(j) \/ EndCommand(j) \/ KillCommand(j)
    PROVE  JobEnv(j)' /\ OwnOnly(j)
  <1>1. stack[j] # <<>> /\ UNCHANGED <<globalEnv, request, exported>>
    BY DEF StartCommand, EndCommand, KillCommand, At, jobVars
  <1>2. \/ \E r : Return(j, r)
        \/ /\ \/ \E a : Replace(j, [Top(j) EXCEPT !.pc = "command", !.args = a])
              \/ Replace(j, [Top(j) EXCEPT !.pc = "read"])
           /\ UNCHANGED heapVars
    BY DEF StartCommand, EndCommand, KillCommand, Goto
  <1>3. IsFrame(Top(j))
    BY <1>1, TopFacts DEF StepsInv
  <1>4. ASSUME NEW r, Return(j, r) PROVE JobEnv(j)' /\ OwnOnly(j)
    BY <1>1, <1>4, ReturnEnv
  <1>5. ASSUME NEW a, Replace(j, [Top(j) EXCEPT !.pc = "command", !.args = a]), UNCHANGED heapVars
        PROVE  JobEnv(j)' /\ OwnOnly(j)
    <2> DEFINE f == [Top(j) EXCEPT !.pc = "command", !.args = a]
    <2>1. /\ f.vars = Top(j).vars /\ f.base = Top(j).base /\ f.env = Top(j).env
          /\ f.known = Top(j).known /\ f.def = Top(j).def /\ f.pc # "enter"
      BY <1>3 DEF IsFrame, Fields
    <2> HIDE DEF f
    <2>2. Replace(j, f)
      BY <1>5 DEF f
    <2>3. QED
      BY <1>1, <1>5, <2>1, <2>2, ReplaceEnv
  <1>6. ASSUME Replace(j, [Top(j) EXCEPT !.pc = "read"]), UNCHANGED heapVars
        PROVE  JobEnv(j)' /\ OwnOnly(j)
    <2> DEFINE f == [Top(j) EXCEPT !.pc = "read"]
    <2>1. /\ f.vars = Top(j).vars /\ f.base = Top(j).base /\ f.env = Top(j).env
          /\ f.known = Top(j).known /\ f.def = Top(j).def /\ f.pc # "enter"
      BY <1>3 DEF IsFrame, Fields
    <2> HIDE DEF f
    <2>2. Replace(j, f)
      BY <1>6 DEF f
    <2>3. QED
      BY <1>1, <1>6, <2>1, <2>2, ReplaceEnv
  <1>7. QED
    BY <1>2, <1>4, <1>5, <1>6, Zenon

\* A command exports what Exportable has, or it fails.
LEMMA ReadFilesKeeps ==
    ASSUME StepsInv, EnvInv, NEW j \in Jobs, ReadFiles(j)
    PROVE  JobEnv(j)' /\ OwnOnly(j)
  <1>1. stack[j] # <<>> /\ UNCHANGED <<globalEnv, request>>
    BY DEF ReadFiles, At, jobVars
  <1>2. \/ \E v \in Exportable(j) :
             /\ exported' = [exported EXCEPT ![j] = Merge(@, v)]
             /\ \E r : Returns(j, Mutate(HeapOf(j), globalEnv[j], v), r)
        \/ \E r : Return(j, r) /\ UNCHANGED exported
    <2>1. PICK out \in OutputFiles(Top(j).args), x \in Exports[j] :
             \E outputs \in {ReadOutputs(j, out)}, env \in {ReadEnvironment(x)} :
              \/ /\ ~IsError(outputs) /\ ~IsError(env)
                 /\ exported' = [exported EXCEPT ![j] = Merge(@, env.val)]
                 /\ Returns(j, Mutate(HeapOf(j), globalEnv[j], env.val),
                            Build(j, outputs.val))
              \/ Return(j, Failure("other")) /\ UNCHANGED exported
      BY Zenon DEF ReadFiles
    <2> DEFINE env == ReadEnvironment(x)
    <2>2. \/ /\ ~IsError(env)
             /\ exported' = [exported EXCEPT ![j] = Merge(@, env.val)]
             /\ \E r : Returns(j, Mutate(HeapOf(j), globalEnv[j], env.val), r)
          \/ Return(j, Failure("other")) /\ UNCHANGED exported
      BY <2>1, Zenon
    <2>3. ~IsError(env) => env.val \in Exportable(j)
      <3>1. env \in {ReadEnvironment(y) : y \in Exports[j]}
        OBVIOUS
      <3> HIDE DEF env
      <3>2. ~IsError(env) => env # Error
        BY DEF IsError, Error, Value
      <3>3. QED
        BY <3>1, <3>2 DEF Exportable
    <2> HIDE DEF env
    <2>4. QED
      BY <2>2, <2>3, Zenon
  <1>3. ASSUME NEW v \in Exportable(j), NEW r,
               exported' = [exported EXCEPT ![j] = Merge(@, v)],
               Returns(j, Mutate(HeapOf(j), globalEnv[j], v), r)
        PROVE  JobEnv(j)' /\ OwnOnly(j)
    <2> DEFINE h == HeapOf(j)
               s == stack[j]
               g == globalEnv[j]
               x == exported[j]
               q == request[j]
    <2>1. EnvFrames(j, h, s, g, x, q)
      BY <1>1, RunningEnv
    <2>2. EnvFrames(j, Mutate(h, g, v), s, g, Merge(x, v), q)
      <3> HIDE DEF h, s, g, x, q
      <3>1. QED
        BY <2>1, MutateEnv
    <2>3. /\ exported'[j] = Merge(exported[j], v) /\ exported' = [i \in Jobs |-> exported'[i]]
          /\ \A i \in Jobs \ {j} : exported'[i] = exported[i]
      BY <1>3 DEF EnvInv
    <2> DEFINE k == Mutate(HeapOf(j), globalEnv[j], v)
    <2>4. EnvFrames(j, k, stack[j], globalEnv[j], exported'[j], request[j]) /\ Returns(j, k, r)
      BY <1>3, <2>2, <2>3
    <2> HIDE DEF k
    <2>5. JobEnv(j)' /\ process' = process
      BY <1>1, <2>4, ReturnsEnv
    <2>6. QED
      BY <1>1, <2>3, <2>5 DEF OwnOnly, EnvInv
  <1>4. ASSUME NEW r, Return(j, r), UNCHANGED exported PROVE JobEnv(j)' /\ OwnOnly(j)
    BY <1>1, <1>4, ReturnEnv
  <1>5. QED
    BY <1>2, <1>3, <1>4, Zenon

\* The frame of a call that begins, as far as the environments go.
LEMMA NewFrameEnv ==
    ASSUME NEW h, NEW n, NEW def, NEW name, NEW set, NEW inputs, NEW env
    PROVE  LET f == NewFrame(h, n, def, name, set, inputs, env)
           IN  /\ f.vars = <<set>> /\ f.base = n /\ f.env = env
               /\ f.known = DOMAIN Values(h, env)
  <1> DEFINE known == DOMAIN Values(h, env)
             vs == <<set>>
             results == Empty
             args == <<>>
  <1>1. NewFrame(h, n, def, name, set, inputs, env) =
          [def |-> def, name |-> name, inputs |-> inputs, env |-> env, pc |-> "enter",
           subs |-> <<>>, results |-> results, args |-> args, vars |-> vs,
           base |-> n, known |-> known]
    BY DEF NewFrame
  <1> HIDE DEF known, vs, results, args
  <1>2. LET f == NewFrame(h, n, def, name, set, inputs, env)
        IN  f.vars = vs /\ f.base = n /\ f.env = env /\ f.known = known
    BY <1>1
  <1>3. QED
    BY <1>2 DEF known, vs

\* A step is called in a scope of its own.
LEMMA LoadStepKeeps ==
    ASSUME StepsInv, EnvInv, NEW j \in Jobs, LoadStep(j)
    PROVE  JobEnv(j)' /\ OwnOnly(j)
  <1> DEFINE h == HeapOf(j)
             s == stack[j]
             t == stack'[j]
             g == globalEnv[j]
             x == exported[j]
             r == request[j]
             e == Top(j).env
             n == Len(s)
  <1>1. /\ s # <<>> /\ Top(j).def.type = "steps"
        /\ UNCHANGED <<globalEnv, request, exported>>
    BY DEF LoadStep, At, jobVars
  <1>2. PICK step :
          LET a == StepEnv(h, e, step.val.vars)
          IN  /\ SetHeap(j, a.heap)
              /\ stack' = [stack EXCEPT ![j] = Front(@) \o
                    << [Top(j) EXCEPT !.pc = "call"],
                       NewFrame(a.heap, Len(h), step.val.def, NextRef(j).name,
                                step.val.vars, step.val.inputs, a.env) >>]
    BY Zenon DEF LoadStep
  <1> DEFINE set == step.val.vars
             o == AddLexicalScope(h, e, set).heap
             c == AddLexicalScope(h, e, set).env
             k == AddLexicalScope(h, e, Values(o, c)).heap
             d == AddLexicalScope(h, e, Values(o, c)).env
             u == [Top(j) EXCEPT !.pc = "call"]
             f == NewFrame(k, Len(h), step.val.def, NextRef(j).name, set, step.val.inputs, d)
  <1>3. SetHeap(j, k) /\ stack' = [stack EXCEPT ![j] = Front(s) \o <<u, f>>]
    <2>1. StepEnv(h, e, set) = AddLexicalScope(h, e, Values(o, c))
      BY DEF StepEnv
    <2>2. QED
      BY <1>2, <2>1, Zenon
  <1>4. EnvFrames(j, h, s, g, x, r) /\ g # 0
    BY <1>1, RunningEnv
  <1>5. Top(j) = Last(s) /\ Top(j) = s[n] /\ IsFrame(Top(j)) /\ n \in Nat \ {0} /\ IsSeq(s)
    BY <1>1, TopFacts DEF StepsInv, JobInv, Top
  <1>6. /\ u.vars = Top(j).vars /\ u.base = Top(j).base /\ u.env = Top(j).env
        /\ u.known = Top(j).known /\ u.def = Top(j).def /\ u.pc = "call"
    BY <1>5 DEF IsFrame, Fields
  <1>7. f.vars = <<set>> /\ f.base = Len(h) /\ f.env = d /\ f.known = DOMAIN Values(k, d)
    <2> DEFINE m == Len(h)
               def == step.val.def
               name == NextRef(j).name
               inputs == step.val.inputs
    <2> HIDE DEF set, k, d, m, def, name, inputs
    <2>1. f = NewFrame(k, m, def, name, set, inputs, d)
      BY DEF m, def, name, inputs
    <2> HIDE DEF f
    <2>2. f.vars = <<set>> /\ f.base = m /\ f.env = d /\ f.known = DOMAIN Values(k, d)
      BY <2>1, NewFrameEnv
    <2>3. QED
      BY <2>2 DEF m
  <1>8. IsHeap(h) /\ Last(s).env \in 1..Len(h)
    <2> HIDE DEF h, s, g, x, r
    <2>1. /\ Len(h) \in Nat /\ IsHeap(h)
          /\ \A l \in 0..Len(s) : End(h, s, l) \in 1..Len(h)
          /\ \A l \in 1..Len(s) : s[l].env \in 1..End(h, s, l)
      BY <1>4, EndFacts
    <2>2. n \in 1..n /\ n \in 0..n
      BY <1>5
    <2>3. s[n].env \in 1..End(h, s, n) /\ End(h, s, n) \in 1..Len(h)
      BY <2>1, <2>2
    <2>4. QED
      BY <1>5, <2>1, <2>3
  <1>9. Scoped(h, Last(s).env, set, o, c) /\ Scoped(h, Last(s).env, Values(o, c), k, d)
    <2>1. e = Last(s).env /\ e \in 1..Len(h)
      BY <1>5, <1>8
    <2> DEFINE w == Values(o, c)
    <2> HIDE DEF e, h, set
    <2>2. Scoped(h, e, set, o, c)
      BY <1>8, <2>1, ScopeAdds
    <2>3. k = AddLexicalScope(h, e, w).heap /\ d = AddLexicalScope(h, e, w).env
      OBVIOUS
    <2> HIDE DEF o, c, w, k, d
    <2>4. Scoped(h, e, w, k, d)
      BY <1>8, <2>1, <2>3, ScopeAdds
    <2>5. QED
      BY <2>1, <2>2, <2>4 DEF w
  <1> HIDE DEF h, set, o, c, k, d, u, f, e
  <1>10. /\ IsSeq(t) /\ Len(t) = n + 1 /\ \A i \in 1..n - 1 : t[i] = s[i]
         /\ t[n] = u /\ t[n + 1] = f
    <2> DEFINE p == Front(s)
               q == Append(p, u)
    <2>1. IsSeq(p) /\ Len(p) = n - 1 /\ \A i \in 1..n - 1 : p[i] = s[i]
      BY <1>1, <1>5, FrontFacts
    <2>2. t = p \o <<u, f>>
      BY <1>3 DEF StepsInv, Domains
    <2> HIDE DEF p
    <2>3. t = Append(q, f)
      BY <2>1, <2>2, TwoFacts
    <2>4. IsSeq(q) /\ Len(q) = n - 1 + 1 /\ q[n - 1 + 1] = u /\ \A i \in 1..n - 1 : q[i] = p[i]
      BY <2>1, AppendFacts
    <2> HIDE DEF q
    <2>5. n - 1 + 1 = n /\ n \in 1..n /\ \A i \in 1..n - 1 : i \in 1..n
      BY <1>5
    <2>6. IsSeq(t) /\ Len(t) = n + 1 /\ t[n + 1] = f /\ \A i \in 1..n : t[i] = q[i]
      <3>1. IsSeq(q) /\ Len(q) = n
        BY <2>4, <2>5
      <3> HIDE DEF t, n
      <3>2. QED
        BY <2>3, <3>1, AppendFacts
    <2>7. QED
      BY <2>1, <2>4, <2>5, <2>6
  <1> HIDE DEF s, t, g, x, r
  <1>11. EnvFrames(j, k, t, g, x, r) /\ Fresh(k, t, g)
    <2>1. /\ t[n].vars = s[n].vars /\ t[n].base = s[n].base /\ t[n].env = s[n].env
          /\ t[n].known = s[n].known /\ t[n].def = s[n].def /\ t[n].pc = "call"
      BY <1>5, <1>6, <1>10
    <2>2. /\ t[n + 1].vars = <<set>> /\ t[n + 1].base = Len(h) /\ t[n + 1].env = d
          /\ t[n + 1].known = DOMAIN Values(k, d)
      BY <1>7, <1>10
    <2>3. Last(s).def.type = "steps"
      BY <1>1, <1>5
    <2>4. Calls(h, s, t, set, o, c, k, d)
      BY <1>9, <1>10, <2>1, <2>2 DEF Calls
    <2>5. QED
      BY <1>1, <1>4, <2>3, <2>4, CallEnv
  <1>12. EnvOK(j, k, t, g, x, r) /\ IsSeq(k) /\ Len(k) >= 1 /\ k[1] = NewEnvironment(ProcessVars)
    BY <1>4, <1>11 DEF EnvOK, EnvFrames, IsHeap
  <1>13. HeapOf(j)' = k /\ process' = process
    BY <1>3, <1>12, SetHeapIs DEF EnvInv
  <1>14. JobEnv(j)'
    BY <1>1, <1>12, <1>13 DEF JobEnv, t, g, x, r
  <1>15. QED
    BY <1>1, <1>13, <1>14 DEF OwnOnly, EnvInv

\* A step that could not be loaded leaves the environments; one that returned may end
\* its sequence.
LEMMA SequenceKeeps ==
    ASSUME StepsInv, EnvInv, NEW j \in Jobs, LoadStepFails(j) \/ StepReturned(j) \/ SequenceEnd(j)
    PROVE  JobEnv(j)' /\ OwnOnly(j)
  <1>1. stack[j] # <<>> /\ UNCHANGED <<globalEnv, request, exported>>
    BY DEF LoadStepFails, StepReturned, SequenceEnd, At, jobVars
  <1> DEFINE results == (ret[j].name :> ret[j].outputs) @@ Top(j).results
             subs == Append(Top(j).subs, ret[j].status)
             a == [Top(j) EXCEPT !.pc = "call"]
             b == [Top(j) EXCEPT !.pc = "run", !.subs = subs, !.results = results]
  <1>2. IsFrame(Top(j))
    BY <1>1, TopFacts DEF StepsInv
  <1>3. \/ \E r : Return(j, r)
        \/ Replace(j, a) /\ UNCHANGED heapVars
        \/ Replace(j, b) /\ UNCHANGED heapVars
    <2>1. LoadStepFails(j) => Replace(j, a) /\ UNCHANGED heapVars
      BY Zenon DEF LoadStepFails, Goto
    <2>2. StepReturned(j) => (\E r : Return(j, r)) \/ (Replace(j, b) /\ UNCHANGED heapVars)
      BY Zenon DEF StepReturned, RecordResult
    <2>3. SequenceEnd(j) => \E r : Return(j, r)
      BY Zenon DEF SequenceEnd
    <2>4. QED
      BY <2>1, <2>2, <2>3, Zenon
  <1>4. /\ a.vars = Top(j).vars /\ a.base = Top(j).base /\ a.env = Top(j).env
        /\ a.known = Top(j).known /\ a.def = Top(j).def /\ a.pc # "enter"
    BY <1>2 DEF IsFrame, Fields
  <1> HIDE DEF results, subs
  <1>5. /\ b.vars = Top(j).vars /\ b.base = Top(j).base /\ b.env = Top(j).env
        /\ b.known = Top(j).known /\ b.def = Top(j).def /\ b.pc # "enter"
    BY <1>2 DEF IsFrame, Fields
  <1> HIDE DEF a, b
  <1>6. CASE Replace(j, a) /\ UNCHANGED heapVars
    BY <1>1, <1>4, <1>6, ReplaceEnv
  <1>7. CASE Replace(j, b) /\ UNCHANGED heapVars
    BY <1>1, <1>5, <1>7, ReplaceEnv
  <1>8. ASSUME NEW r, Return(j, r) PROVE JobEnv(j)' /\ OwnOnly(j)
    BY <1>1, <1>8, ReturnEnv
  <1>9. QED
    BY <1>3, <1>6, <1>7, <1>8, Zenon

\* A job begins over the environment of the process.
LEMMA BeginKeeps ==
    ASSUME StepsInv, EnvInv, NEW j \in Jobs, Begin(j)
    PROVE  JobEnv(j)' /\ OwnOnly(j)
  <1> DEFINE p == HeapOf(j)
  <1>1. PICK lv, re, jv, def, inputs :
          LET g == AddLexicalScope(p, 1, lv)
              s == AddLexicalScope(g.heap, g.env, re)
          IN  /\ DOMAIN lv = {LogLevel}
              /\ SetHeap(j, s.heap)
              /\ globalEnv' = [globalEnv EXCEPT ![j] = s.env]
              /\ request' = [request EXCEPT ![j] = [env |-> re, job |-> jv]]
              /\ stack' = [stack EXCEPT ![j] =
                    <<NewFrame(s.heap, Len(s.heap), def, "", NoVars, inputs, s.env)>>]
    <2>1. PICK variables \in JobVars, re \in RequestEnvs[j], root \in Roots[j] :
            LET def == Compile(root, BuildDir)
                jv == Prepare(variables)
                g == GlobalEnvironment(HeapOf(j), 1, jv)
                s == AddLexicalScope(g.heap, g.env, re)
            IN  /\ ~IsError(def) /\ AcceptsInputs(def.val.spec, Empty)
                /\ Level(HeapOf(j), 1, jv) \in Levels
                /\ SetHeap(j, s.heap)
                /\ globalEnv' = [globalEnv EXCEPT ![j] = s.env]
                /\ request' = [request EXCEPT ![j] = [env |-> re, job |-> jv]]
                /\ stack' = [stack EXCEPT ![j] =
                      <<NewFrame(s.heap, Len(s.heap), def.val, "", NoVars,
                                 NewInputsWithDefault(def.val.spec, Empty), s.env)>>]
      BY DEF Begin
    <2> DEFINE jv == Prepare(variables)
               lv == [n \in {LogLevel} |-> Level(p, 1, jv)]
    <2>2. GlobalEnvironment(p, 1, jv) = AddLexicalScope(p, 1, lv) /\ DOMAIN lv = {LogLevel}
      BY DEF GlobalEnvironment
    <2> HIDE DEF p, jv, lv
    <2>3. QED
      BY <2>1, <2>2, Zenon DEF p, jv
  <1> DEFINE o == AddLexicalScope(p, 1, lv).heap
             c == AddLexicalScope(p, 1, lv).env
             k == AddLexicalScope(o, c, re).heap
             d == AddLexicalScope(o, c, re).env
             f == NewFrame(k, Len(k), def, "", NoVars, inputs, d)
             r == [env |-> re, job |-> jv]
  <1>2. /\ SetHeap(j, k) /\ globalEnv' = [globalEnv EXCEPT ![j] = d]
        /\ request' = [request EXCEPT ![j] = r] /\ stack' = [stack EXCEPT ![j] = <<f>>]
        /\ DOMAIN lv = {LogLevel}
    BY <1>1, Zenon
  <1>3. p = <<NewEnvironment(ProcessVars)>> /\ exported[j] = NoVars
    <2>1. EnvOK(j, HeapOf(j), stack[j], globalEnv[j], exported[j], request[j])
      BY DEF EnvInv
    <2>2. globalEnv[j] = 0
      BY DEF Begin
    <2>3. QED
      BY <2>1, <2>2 DEF EnvOK
  <1>4. f.vars = <<NoVars>> /\ f.base = Len(k) /\ f.env = d
    <2> DEFINE m == Len(k)
               name == ""
               set == NoVars
    <2> HIDE DEF set, k, d, m, name
    <2>1. f = NewFrame(k, m, def, name, set, inputs, d)
      BY DEF m, name, set
    <2> HIDE DEF f
    <2>2. f.vars = <<set>> /\ f.base = m /\ f.env = d
      BY <2>1, NewFrameEnv
    <2>3. QED
      BY <2>2 DEF m, set
  <1> HIDE DEF p, f
  <1>5. IsHeap(p) /\ Len(p) = 1
    <2> DEFINE P == NewEnvironment(ProcessVars)
    <2>1. IsObject(P) /\ P.parent = 0
      <3>1. IsSeq(<<>>)
        BY <<>> \in Seq({}), SeqIsSeq
      <3>2. QED
        BY <3>1 DEF NewEnvironment, IsObject
    <2> HIDE DEF P
    <2>2. <<P>> \in Seq({P}) /\ Len(<<P>>) = 1 /\ <<P>>[1] = P
      OBVIOUS
    <2>3. IsSeq(<<P>>)
      BY <2>2, SeqIsSeq
    <2>4. IsHeap(<<P>>)
      BY <2>1, <2>2, <2>3 DEF IsHeap
    <2>5. QED
      BY <1>3, <2>2, <2>4 DEF P
  <1>6. Scoped(p, 1, lv, o, c) /\ c # 1
    <2>1. lv # NoVars
      BY <1>2 DEF NoVars
    <2>2. AddLexicalScope(p, 1, lv).env = Len(p) + 1
      BY <2>1 DEF AddLexicalScope
    <2>3. QED
      BY <1>5, <2>2, ScopeAdds
  <1>7. IsHeap(o) /\ c \in 1..Len(o)
    <2> HIDE DEF o, c
    <2>1. Len(o) \in Nat /\ IsHeap(o)
      BY <1>6, LenFacts DEF Scoped, IsHeap
    <2>2. QED
      BY <1>5, <1>6, <2>1 DEF Scoped
  <1> HIDE DEF o, c
  <1>8. Scoped(o, c, re, k, d)
    BY <1>7, ScopeAdds
  <1> DEFINE t == stack'[j]
  <1>9. t = <<f>> /\ r.env = re
    BY <1>2 DEF StepsInv, Domains
  <1> HIDE DEF k, d, r, t
  <1>10. EnvFrames(j, k, t, d, NoVars, r) /\ Fresh(k, t, d) /\ d # 0
    <2>1. Scoped(o, c, r.env, k, d)
      BY <1>8, <1>9
    <2>2. QED
      BY <1>2, <1>3, <1>4, <1>6, <1>9, <2>1, StartEnv
  <1>11. EnvOK(j, k, t, d, NoVars, r) /\ IsSeq(k) /\ Len(k) >= 1 /\ k[1] = NewEnvironment(ProcessVars)
    BY <1>10 DEF EnvOK, EnvFrames, IsHeap
  <1>12. HeapOf(j)' = k /\ process' = process
    BY <1>2, <1>11, SetHeapIs DEF EnvInv
  <1>13. /\ globalEnv'[j] = d /\ request'[j] = r /\ exported'[j] = NoVars
         /\ UNCHANGED exported
         /\ request' = [i \in Jobs |-> request'[i]]
         /\ \A i \in Jobs \ {j} : request'[i] = request[i]
    BY <1>2, <1>3 DEF Begin, StepsInv, Domains, EnvInv
  <1>14. JobEnv(j)'
    BY <1>11, <1>12, <1>13 DEF JobEnv, t
  <1>15. QED
    BY <1>12, <1>13, <1>14 DEF OwnOnly, EnvInv

\* The other jobs keep theirs.
LEMMA OthersEnv ==
    ASSUME EnvInv, NEW j \in Jobs, JobEnv(j)', OwnOnly(j), OthersStay(j)
    PROVE  EnvInv'
  <1>1. ASSUME NEW i \in Jobs PROVE JobEnv(i)'
    <2>1. CASE i = j
      BY <2>1
    <2>2. CASE i # j
      <3>1. JobEnv(i)
        BY DEF EnvInv, JobEnv
      <3>2. /\ stack'[i] = stack[i] /\ globalEnv'[i] = globalEnv[i] /\ heap'[i] = heap[i]
            /\ exported'[i] = exported[i] /\ request'[i] = request[i] /\ process' = process
        BY <2>2 DEF OwnOnly, OthersStay
      <3>3. HeapOf(i)' = HeapOf(i)
        BY <3>2 DEF HeapOf
      <3>4. QED
        BY <3>1, <3>2, <3>3 DEF JobEnv
    <2>3. QED
      BY <2>1, <2>2
  <1>2. QED
    BY <1>1 DEF EnvInv, JobEnv, OwnOnly

\* The invariant of the environments holds.
LEMMA EnvInvariant == Spec => []EnvInv
  <1>1. Init => EnvInv
    <2> SUFFICES ASSUME Init PROVE EnvInv
      OBVIOUS
    <2>1. ASSUME NEW j \in Jobs
          PROVE  EnvOK(j, HeapOf(j), stack[j], globalEnv[j], exported[j], request[j])
      <3> DEFINE P == NewEnvironment(ProcessVars)
      <3>1. /\ heap[j] = <<>> /\ stack[j] = <<>> /\ globalEnv[j] = 0 /\ exported[j] = NoVars
            /\ process = P
        BY DEF Init
      <3> HIDE DEF P
      <3>2. <<P>> \o <<>> = <<P>>
        OBVIOUS
      <3>3. HeapOf(j) = <<P>>
        BY <3>1, <3>2 DEF HeapOf
      <3>4. QED
        BY <3>1, <3>3 DEF EnvOK, P
    <2>2. /\ process = NewEnvironment(ProcessVars)
          /\ exported = [j \in Jobs |-> exported[j]] /\ request = [j \in Jobs |-> request[j]]
      BY DEF Init
    <2>3. QED
      BY <2>1, <2>2 DEF EnvInv
  <1>2. StepsInv /\ EnvInv /\ [Next]_vars => EnvInv'
    <2> SUFFICES ASSUME StepsInv, EnvInv, [Next]_vars PROVE EnvInv'
      OBVIOUS
    <2>1. ASSUME UNCHANGED <<heapVars, globalEnv, stack, exported, request>> PROVE EnvInv'
      <3>1. \A j \in Jobs : HeapOf(j)' = HeapOf(j)
        BY <2>1 DEF HeapOf, heapVars
      <3>2. UNCHANGED <<process, globalEnv, stack, exported, request>>
        BY <2>1 DEF heapVars
      <3>3. QED
        BY <3>1, <3>2 DEF EnvInv
    <2>2. CASE UNCHANGED vars
      BY <2>1, <2>2 DEF vars, jobVars
    <2>3. ASSUME NEW j \in Jobs, Cancel(j) PROVE EnvInv'
      BY <2>1, <2>3 DEF Cancel
    <2>4. ASSUME NEW j \in Jobs, Begin(j) \/ EndCommand(j) \/ KillCommand(j) \/ JobStep(j)
          PROVE  EnvInv'
      <3>1. OthersStay(j)
        BY <2>4, BeginShape, EnterShape, CommandShape, ReadFilesShape, LoadStepShape,
           LoadStepFailsShape, StepReturnedShape, SequenceEndShape DEF JobStep
      <3>2. JobEnv(j)' /\ OwnOnly(j)
        BY <2>4, BeginKeeps, EnterKeeps, CommandKeeps, ReadFilesKeeps, LoadStepKeeps,
           SequenceKeeps DEF JobStep
      <3>3. QED
        BY <3>1, <3>2, OthersEnv
    <2>5. QED
      BY <2>2, <2>3, <2>4 DEF Next
  <1>3. QED
    BY <1>1, <1>2, StepsInvariant, PTL DEF Spec

\* What a frame of the stack sets, SetOnStack has.
LEMMA OnStack ==
    ASSUME NEW j \in Jobs, IsSeq(stack[j]), NEW l \in 1..Len(stack[j]),
           NEW m \in DOMAIN stack[j][l].vars, NEW n \in DOMAIN stack[j][l].vars[m]
    PROVE  stack[j][l].vars[m][n] \in SetOnStack(j, n)
  <1> DEFINE f == stack[j][l]
             w == f.vars[m]
  <1>1. f \in ToSet(stack[j])
    BY LenFacts DEF ToSet
  <1>2. w \in ToSet(f.vars) /\ n \in DOMAIN w
    BY DEF ToSet
  <1> HIDE DEF w, f
  <1>3. w[n] \in {v[n] : v \in {u \in ToSet(f.vars) : n \in DOMAIN u}}
    BY <1>2
  <1>4. w[n] \in SetOnStack(j, n)
    BY <1>1, <1>3 DEF SetOnStack
  <1>5. QED
    BY <1>4 DEF w, f

-------------------------------------------------------------------------------
(*****************************************************************************)
(* Theorems                                                                  *)
(*****************************************************************************)

\* Only a call that returns makes the stack of a job shorter.
LEMMA OnlyPopsReturn ==
    ASSUME StepsInv, [Next]_vars, NEW j \in Jobs, Len(stack'[j]) < Len(stack[j])
    PROVE  Pops(j)
  <1>1. Len(stack[j]) \in Nat /\ JobInv(j)
    BY LenFacts DEF StepsInv, JobInv
  <1>2. PICK i \in Jobs : StepOf(i)
    BY <1>1, NextShape
  <1>3. i = j
    BY <1>1, <1>2 DEF StepOf, OthersStay
  <1>4. ~Starts(j)
    BY <1>1, LenFacts DEF Starts, JobInv
  <1>5. ASSUME stack[j] # <<>>
        PROVE  /\ IsSeq(Front(stack[j])) /\ Len(Front(stack[j])) = Len(stack[j]) - 1
               /\ \A f : /\ Len(Append(Front(stack[j]), f)) = Len(stack[j])
                        /\ IsSeq(Append(Front(stack[j]), f))
    BY <1>1, <1>5, FrontFacts, AppendFacts DEF JobInv
  <1>6. ~Replaces(j)
    BY <1>1, <1>5 DEF Replaces
  <1>7. ~Pushes(j)
    <2> SUFFICES ASSUME Pushes(j) PROVE FALSE
      OBVIOUS
    <2>1. PICK f, g : stack'[j] = Append(Append(Front(stack[j]), f), g)
      BY DEF Pushes
    <2>2. /\ Len(Append(Front(stack[j]), f)) = Len(stack[j])
          /\ IsSeq(Append(Front(stack[j]), f))
      BY <1>5 DEF Pushes
    <2>3. Len(stack'[j]) = Len(stack[j]) + 1
      BY <2>1, <2>2, AppendFacts
    <2>4. QED
      BY <1>1, <2>3
  <1>8. QED
    BY <1>2, <1>3, <1>4, <1>6, <1>7 DEF StepOf

\* A sequence of steps succeeds only if all its steps ran and succeeded, for any
\* documents (SequenceOfSteps.Run).
THEOREM StepsSequencesAreAllOrNothing == Spec => SequencesAreAllOrNothing
  <1> DEFINE AllOrNothing ==
        \A j \in Jobs :
            /\ Len(stack'[j]) < Len(stack[j])
            /\ Top(j).def.type = "steps"
            /\ ret'[j].status = "success"
            => Top(j).subs = [i \in 1..Len(Refs(j)) |-> "success"]
  <1>1. StepsInv /\ [Next]_vars => [AllOrNothing]_vars
    <2> SUFFICES ASSUME StepsInv, [Next]_vars, NEW j \in Jobs,
                        Len(stack'[j]) < Len(stack[j]), Top(j).def.type = "steps",
                        ret'[j].status = "success"
                 PROVE  Top(j).subs = [i \in 1..Len(Refs(j)) |-> "success"]
      OBVIOUS
    <2>1. Pops(j)
      BY OnlyPopsReturn
    <2>2. Len(Top(j).subs) = Len(Refs(j)) /\ stack[j] # <<>>
      BY <2>1 DEF Pops
    <2>3. IsFrame(Top(j))
      BY <2>2, TopFacts DEF StepsInv
    <2>4. Top(j).subs = [i \in 1..Len(Top(j).subs) |-> Top(j).subs[i]]
      <3>1. Top(j).subs \in Seq(ToSet(Top(j).subs))
        BY <2>3 DEF IsFrame, IsSeq
      <3>2. QED
        BY <3>1
    <2>5. QED
      BY <2>2, <2>3, <2>4 DEF IsFrame
  <1>2. QED
    BY <1>1, StepsInvariant, PTL DEF Spec, SequencesAreAllOrNothing

\* The job gets a result from any steps, although a step that cannot be loaded has
\* none; the exception is a job whose root is a command that could not write its first
\* line in the log (ExecutableStep.Run, SequenceOfSteps.Run, Job.onRunCompletion).
THEOREM StepsJobsGetAResult == Spec => JobsGetAResult
  <1> DEFINE GetsAResult ==
        \A j \in Jobs :
            stack[j] # <<>> /\ stack'[j] = <<>> =>
               /\ Seen(ret'[j]) \in StepResults
               /\ Seen(ret'[j]) = NoResult => /\ stack[j][1].def.type = "exec"
                                             /\ stack[j][1].pc = "enter"
  <1>1. StepsInv /\ [Next]_vars => [GetsAResult]_vars
    <2> SUFFICES ASSUME StepsInv, [Next]_vars, NEW j \in Jobs,
                        stack[j] # <<>>, stack'[j] = <<>>
                 PROVE  /\ Seen(ret'[j]) \in StepResults
                        /\ Seen(ret'[j]) = NoResult => /\ stack[j][1].def.type = "exec"
                                                      /\ stack[j][1].pc = "enter"
      OBVIOUS
    <2>1. IsSeq(stack[j]) /\ Len(stack[j]) \in Nat \ {0} /\ Len(stack'[j]) = 0
      BY LenFacts DEF StepsInv, JobInv
    <2>2. Pops(j)
      BY <2>1, OnlyPopsReturn
    <2>3. Top(j) = stack[j][1]
      BY <2>1, <2>2, FrontFacts DEF Pops, Top
    <2>4. /\ Settled(ret'[j])
          /\ ret'[j].status = "nil" =>
                ret'[j].err = "other" /\ Top(j).def.type = "exec" /\ Top(j).pc = "enter"
      BY <2>2 DEF Pops
    <2>5. Seen(ret'[j]) \in StepResults
      BY <2>4 DEF Seen, StepResults, NoResult, Settled, Errors
    <2>6. ASSUME Seen(ret'[j]) = NoResult
          PROVE  Top(j).def.type = "exec" /\ Top(j).pc = "enter"
      BY <2>4, <2>6 DEF Seen, NoResult
    <2>7. QED
      BY <2>3, <2>5, <2>6
  <1>2. QED
    BY <1>1, StepsInvariant, PTL DEF Spec, JobsGetAResult

\* For any documents, environments and exports: a command sees no variable from
\* elsewhere, not what another job exported or set, and not what a step that has ended
\* set in its env (Environment.AddLexicalScope, Mutate).
THEOREM StepsEnvHasASource == Spec => []EnvHasASource
  <1>1. StepsInv /\ EnvInv => EnvHasASource
    <2> SUFFICES ASSUME EnvInv, NEW j \in Jobs, RunsCommand(j),
                        NEW n \in DOMAIN CommandEnv(j) \ {LogLevel}
                 PROVE  \/ CommandEnv(j)[n] \in SetOnStack(j, n)
                        \/ \E v \in {ProcessVars, request[j].env} \cup Exportable(j) :
                              n \in DOMAIN v /\ v[n] = CommandEnv(j)[n]
      BY DEF EnvHasASource
    <2> DEFINE h == HeapOf(j)
               s == stack[j]
               g == globalEnv[j]
               x == exported[j]
               r == request[j]
               e == Last(s).env
    <2>1. EnvFrames(j, h, s, g, x, r) /\ s # <<>> /\ CommandEnv(j) = Values(h, e)
      BY RunningEnv DEF RunsCommand, At, CommandEnv, Top
    <2> HIDE DEF h, s, g, x, r
    <2>2. /\ Len(s) \in Nat \ {0} /\ IsHeap(h) /\ IsSeq(s) /\ Sources(j, r, h, s)
          /\ \A l \in 0..Len(s) : End(h, s, l) \in 1..Len(h)
          /\ \A l \in 1..Len(s) : s[l].env \in 1..End(h, s, l)
      BY <2>1, EndFacts, LenFacts DEF EnvFrames
    <2>3. Len(s) \in 0..Len(s) /\ End(h, s, Len(s)) \in 1..Len(h) /\ e \in 0..End(h, s, Len(s))
      BY <2>2 DEF Last
    <2> HIDE DEF e
    <2>4. From(j, r, s, Len(s), Values(h, e))
      BY <2>2, <2>3, ValuesFrom
    <2>5. HasSource(j, r, s, Len(s), n, CommandEnv(j)[n])
      BY <2>1, <2>4 DEF From
    <2>6. ASSUME NEW l \in 1..Len(s), NEW m \in DOMAIN s[l].vars,
                 n \in DOMAIN s[l].vars[m], s[l].vars[m][n] = CommandEnv(j)[n]
          PROVE  CommandEnv(j)[n] \in SetOnStack(j, n)
      BY <2>2, <2>6, OnStack DEF s
    <2>7. QED
      BY <2>5, <2>6 DEF HasSource, r
  <1>2. QED
    BY <1>1, StepsInvariant, EnvInvariant, PTL

\* For any documents, environments and exports: a command sees the last value that the
\* job has exported for a variable, unless a step on the stack sets it, or a sequence
\* within the job already knew it when it began (Environment.Mutate, Values).
THEOREM StepsLaterStepsSeeExports == Spec => []LaterStepsSeeExports
  <1>1. StepsInv /\ EnvInv => LaterStepsSeeExports
    <2> SUFFICES ASSUME EnvInv, NEW j \in Jobs, RunsCommand(j), NEW n \in DOMAIN exported[j],
                        SetOnStack(j, n) = {},
                        \A i \in 2..Len(stack[j]) - 1 : n \notin stack[j][i].known
                 PROVE  Sees(j, n, exported[j][n])
      BY DEF LaterStepsSeeExports
    <2> DEFINE h == HeapOf(j)
               s == stack[j]
               g == globalEnv[j]
               x == exported[j]
               r == request[j]
               e == Last(s).env
               c == Caller(s, g, Len(s))
    <2>1. /\ EnvFrames(j, h, s, g, x, r) /\ Fresh(h, s, g) /\ s # <<>>
          /\ Last(s).def.type = "exec" /\ CommandEnv(j) = Values(h, e)
      BY RunningEnv DEF RunsCommand, At, CommandEnv, Top
    <2>2. \A l \in 1..Len(s) : \A m \in DOMAIN s[l].vars : n \notin DOMAIN s[l].vars[m]
      BY <2>1, OnStack DEF EnvFrames
    <2>3. \A i \in 2..Len(s) - 1 : n \notin s[i].known
      OBVIOUS
    <2>4. n \in DOMAIN x
      OBVIOUS
    <2> HIDE DEF h, s, g, x, r
    <2>5. /\ Len(s) \in Nat \ {0} /\ IsHeap(h) /\ IsSeq(s) /\ HasExports(h, g, x)
          /\ \A k \in 1..Len(s) : FrameEnv(h, s, g, k)
      BY <2>1, LenFacts DEF EnvFrames
    <2>6. \A l \in 1..Len(s) : n \notin SetBy(s[l])
      BY <2>2 DEF SetBy
    <2>7. Same(h, e, c, n)
      <3>1. n \notin SetBy(Last(s))
        BY <2>5, <2>6 DEF Last
      <3>2. QED
        BY <2>1, <3>1 DEF Fresh, Same
    <2>8. Same(h, c, g, n)
      <3> DEFINE d == Len(s) - 1
      <3>1. d \in 0..Len(s) /\ d + 1 = Len(s)
        BY <2>5
      <3>2. ASSUME NEW k \in 1..d PROVE n \notin KnownAt(s, k) /\ n \notin SetBy(s[k])
        <4>1. k \in 1..Len(s) /\ (k = 1 \/ k \in 2..Len(s) - 1)
          BY <2>5
        <4>2. QED
          BY <2>3, <2>6, <4>1 DEF KnownAt
      <3> HIDE DEF d
      <3>3. Same(h, Caller(s, g, d + 1), g, n)
        BY <2>5, <3>1, <3>2, StackSees
      <3>4. QED
        BY <3>1, <3>3
    <2>9. n \in DOMAIN Values(h, g) /\ Values(h, g)[n] = x[n]
      BY <2>4, <2>5 DEF HasExports
    <2> HIDE DEF e, c
    <2>10. n \in DOMAIN Values(h, e) /\ Values(h, e)[n] = x[n]
      BY <2>7, <2>8, <2>9 DEF Same
    <2>11. QED
      BY <2>1, <2>10 DEF Sees, x
  <1>2. QED
    BY <1>1, StepsInvariant, EnvInvariant, PTL
===============================================================================
