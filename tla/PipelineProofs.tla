---------------------------- MODULE PipelineProofs ----------------------------
(***************************************************************************)
(* What the pipeline keeps to, for every tree of files, every limit, every *)
(* policy and whatever the stages find.                                    *)
(*                                                                         *)
(* The files that are being checked lie one in another (PathIsNested), so  *)
(* a member is never one of the files above it.  What is not checked       *)
(* leaves a mark, and the mark is with a file of the path until it comes   *)
(* to the upload (MissLeavesAMark); the verdict is given to the upload as  *)
(* it was then, and a thread that outlived its limit can mark only what is *)
(* marked already (LateIsMarked, DecidedOnMarks).  The entries that are    *)
(* still to be unpacked are counted against the one budget of the tree     *)
(* (EntriesAreCounted), and so is what was written (BytesAreCounted).      *)
(*                                                                         *)
(* A score is the sum of the strongest finding of each family, at most     *)
(* 100, so more findings never weigh less (ScoreGrows).  What made the     *)
(* check of an archive stop therefore weighs as much with the upload       *)
(* (WeightStays, StopIsBlocked), and what is shown weighs no more than     *)
(* what was decided on, unless a thread wrote after the decision, which    *)
(* the findings tell (LateIsTold, ResultIsExplained).                      *)
(***************************************************************************)
EXTENDS Pipeline, FiniteSetTheorems, SequenceTheorems, WellFoundedInduction, TLAPS

Places == StageNames \cup {"expand", "members", "left"}
Steps == {"running", "decided", "built", "rebuilt", "published"}
Items == [entry : Nat, size : Nat]
Tellers == StageNames \cup {"archive", "cdr"}
Findings == {Finding(s, c, RuleFor(DefaultWeights, c)) : s \in Tellers, c \in DOMAIN DefaultWeights}
FindingSets == {findings \in SUBSET Findings : IsFiniteSet(findings)}
Contexts == [findings : FindingSets, encrypted : BOOLEAN, supported : BOOLEAN,
             failed : SUBSET StageNames]

(* The files on the path lie one in another, the upload is the outermost. *)
PathIsNested ==
  /\ path \in Seq(File) /\ Len(path) \in Nat \ {0} /\ path[1] = Upload
  /\ \A i \in 1 .. Len(path) : Depth[path[i]] = i - 1

OnPath == {path[i] : i \in 1 .. Len(path)}

FileTypes ==
  /\ at \in [File -> Places]
  /\ ctx \in [File -> Contexts]
  /\ todo \in [File -> SUBSET Items]
  /\ \A f \in File : \A e \in todo[f] : e.entry \in 1 .. Len(Entries[f])
  /\ orphans \subseteq File \X StageNames
  /\ faults \in 0 .. Faults

DoneTypes ==
  /\ job \in Jobs
  /\ done \in [step : Steps, verdict : Verdicts, score : {done.score},
               facts : {done.facts}, findings : {done.findings},
               artifact : Profiles \cup {"none"}, status : {done.status},
               allowlisted : BOOLEAN]

CountTypes ==
  /\ budget \in [made : BOOLEAN, declared : {budget.declared}, unpacked : Nat,
                 entries : 0 .. MaxArchiveEntries, expired : BOOLEAN]
  /\ ghost \in [missed : SUBSET {"entry", "content", "stage"}, stopped : BOOLEAN,
                passes : Nat, written : 0 .. MaxUnpacked]

(* What cannot be taken for checked. *)
Marked(c) == c.encrypted \/ ~c.supported \/ c.failed \cap EssentialStages # {}

MissLeavesAMark == ghost.missed # {} => \E f \in OnPath : Marked(ctx[f])

(* Whoever still writes to the upload failed it. *)
LateIsMarked == \A s \in StageNames : <<Upload, s>> \in orphans => s \in ctx[Upload].failed

DecidedOnMarks ==
  done.step # "running" =>
    /\ path = <<Upload>>
    /\ Marked(ctx[Upload]) /\ Policy.failMode # "fail-open" => done.verdict # "clean"

(* Only an archive that is not too deep is unpacked. *)
MembersAreNotDeep ==
  /\ \A f \in File : at[f] = "members" => Depth[f] <= MaxArchiveDepth
  /\ Len(path) <= 2 + MaxArchiveDepth

Pending == {p \in File \X Items : p[2] \in todo[p[1]]}

EntriesAreCounted ==
  /\ IsFiniteSet(Pending)
  /\ ghost.passes + Cardinality(Pending) <= 1 + budget.entries

BytesAreCounted == ghost.written <= budget.unpacked

(* When there may be an artifact, and whose. *)
ArtifactIsLate ==
  /\ done.step \in {"running", "decided"} => done.artifact = "none"
  /\ done.step = "built" /\ ~AvOnly => done.artifact = "none"
  /\ done.artifact # "none" =>
       /\ ~AvOnly => done.verdict \notin UnscannableVerdicts /\ job.mode # "detect"
       /\ done.verdict = "malicious" => done.artifact = "strict" /\ ~AvOnly

(* With a cached structural part only the antivirus looks at the file. *)
CachedIsNotUnpacked == AvOnly => path = <<Upload>> /\ at[Upload] \in {"clamav", "left"}

(* What made the check of an archive stop is on the path until the verdict. *)
StopIsBlocked ==
  ghost.stopped =>
    /\ ~AvOnly
    /\ done.step = "running" => \E f \in OnPath : ScoreOf(ctx[f].findings) >= Policy.block
    /\ done.step = "decided" => done.verdict = "malicious"

TimedOut == "STAGE_TIMEOUT" \in Codes(ctx[Upload].findings)

(* Whoever still writes to the upload is told of in its findings. *)
LateIsTold == \A s \in StageNames : <<Upload, s>> \in orphans => TimedOut

(* The findings that are shown when the result is published. *)
Shown == IF AvOnly THEN done.facts.findings ELSE ctx[Upload].findings

(* How the result comes from a verdict and a score. *)
FollowsFrom(answer) ==
  /\ done.score = answer[2]
  /\ done.allowlisted => answer[1] = "malicious" /\ done.verdict = "suspicious"
  /\ ~done.allowlisted /\ done.status = "failed" =>
       done.verdict = ApplyFailure(answer[1], Policy)
  /\ ~done.allowlisted /\ done.status # "failed" => done.verdict = answer[1]

Explained ==
  /\ FollowsFrom(VerdictAndScore(done.facts, Policy))
  /\ ScoreOf(Shown) <= done.score
  /\ ~AvOnly /\ done.step # "rebuilt" => done.facts = ctx[Upload]

ResultIsExplained ==
  /\ done.step \in {"running", "decided"} => ~done.allowlisted /\ done.status = "scanning"
  /\ done.step = "built" => done.status = "done"
  /\ done.step \in {"decided", "built", "rebuilt"} => (~AvOnly /\ TimedOut) \/ Explained
  /\ PublishedIsExplained

PipelineIInv ==
  /\ PathIsNested /\ FileTypes /\ DoneTypes /\ CountTypes
  /\ MissLeavesAMark /\ LateIsMarked /\ DecidedOnMarks
  /\ MembersAreNotDeep /\ EntriesAreCounted /\ BytesAreCounted
  /\ ArtifactIsLate
  /\ CachedIsNotUnpacked /\ StopIsBlocked /\ LateIsTold /\ ResultIsExplained

-----------------------------------------------------------------------------
(* The least of some numbers, and of some sets *)

LEMMA LargestExists ==
  ASSUME NEW n \in Nat, NEW S \in SUBSET (1 .. n), S # {}
  PROVE  \E i \in S : \A j \in S : j <= i
  <1> DEFINE T == {n - i : i \in S}
  <1>1. T \subseteq Nat /\ T # {}
    <2>1. ASSUME NEW i \in S PROVE n - i \in Nat
      <3>1. i \in 1 .. n
        OBVIOUS
      <3> QED
        BY <3>1
    <2> QED
      BY <2>1
  <1>2. \E x \in T : \A y \in T : ~ (<<y, x>> \in OpToRel(<, Nat))
    BY <1>1, WFMin, NatLessThanWellFounded
  <1>3. PICK x \in T : \A y \in T : ~ (y < x)
    BY <1>1, <1>2 DEF OpToRel
  <1>4. PICK i \in S : x = n - i
    BY <1>3
  <1>5. ASSUME NEW j \in S PROVE j <= i
    <2>1. ~ (n - j < n - i)
      BY <1>3, <1>4
    <2>2. i \in 1 .. n /\ j \in 1 .. n
      OBVIOUS
    <2> QED
      BY <2>1, <2>2
  <1> QED
    BY <1>5

LEMMA SmallestExists ==
  ASSUME NEW S \in SUBSET Nat, S # {}
  PROVE  \E x \in S : \A y \in S : x <= y
  <1>1. \E x \in S : \A y \in S : ~ (<<y, x>> \in OpToRel(<, Nat))
    BY WFMin, NatLessThanWellFounded
  <1>2. PICK x \in S : \A y \in S : ~ (y < x)
    BY <1>1 DEF OpToRel
  <1>3. \A y \in S : x <= y
    BY <1>2
  <1> QED
    BY <1>3

(* Of some subsets of a finite set one has no other of them in it. *)
LEMMA SmallestSubset ==
  ASSUME NEW S, IsFiniteSet(S), NEW B \in SUBSET SUBSET S, B # {}
  PROVE  \E T \in B : \A U \in B : U \subseteq T => U = T
<1> DEFINE Sizes == {Cardinality(T) : T \in B}
<1>1. \A T \in B : IsFiniteSet(T) /\ Cardinality(T) \in Nat
  BY FS_Subset, FS_CardinalityType
<1>2. PICK n \in Sizes : \A m \in Sizes : n <= m
  <2>1. Sizes \in SUBSET Nat /\ Sizes # {}
    BY <1>1
  <2> HIDE DEF Sizes
  <2> QED BY <2>1, SmallestExists
<1>3. PICK T \in B : Cardinality(T) = n
  OBVIOUS
<1>4. ASSUME NEW U \in B, U \subseteq T PROVE U = T
  <2>1. n <= Cardinality(U) /\ n \in Nat
    BY <1>1, <1>2
  <2>2. Cardinality(U) <= Cardinality(T) /\ (Cardinality(T) = Cardinality(U) => U = T)
    BY <1>1, <1>4, FS_Subset
  <2> QED BY <2>1, <2>2, <1>1, <1>3
<1> QED BY <1>4

-----------------------------------------------------------------------------
(* Sums.  SumFunctionOnSet takes its value from a table that gives the sum for
   every part of the set; that there is one, and only one, is shown first. *)

Chosen(s) == CHOOSE x \in s : TRUE

(* A table of sums over the subsets of S. *)
IsTable(g, f, S) ==
  g = [s \in SUBSET S |-> IF s = {} THEN 0 ELSE f[Chosen(s)] + g[s \ {Chosen(s)}]]

LEMMA SumIsTable ==
  ASSUME NEW f, NEW S
  PROVE  SumFunctionOnSet(f, S) = (CHOOSE g : IsTable(g, f, S))[S]
BY DEF SumFunctionOnSet, FoldFunctionOnSet, MapThenFoldSet, IsTable, Chosen

LEMMA ChosenIsIn ==
  ASSUME NEW s, s # {}
  PROVE  Chosen(s) \in s
BY DEF Chosen

(* What is known of a table, without its domain. *)
LEMMA TableValues ==
  ASSUME NEW g, NEW f, NEW S, IsTable(g, f, S)
  PROVE  \A s \in SUBSET S : g[s] = IF s = {} THEN 0 ELSE f[Chosen(s)] + g[s \ {Chosen(s)}]
BY DEF IsTable

(* Two tables agree where both are defined. *)
LEMMA TablesAgree ==
  ASSUME NEW f, NEW g, NEW h, NEW S, NEW T, IsFiniteSet(S), IsTable(g, f, S), IsTable(h, f, T)
  PROVE  \A s \in SUBSET S : s \in SUBSET T => g[s] = h[s]
<1> DEFINE B == {s \in SUBSET S : s \in SUBSET T /\ g[s] # h[s]}
<1>1. SUFFICES ASSUME B # {} PROVE FALSE
  OBVIOUS
<1>2. B \in SUBSET SUBSET S
  OBVIOUS
<1>3. PICK s \in B : \A u \in B : u \subseteq s => u = s
  <2> HIDE DEF B
  <2> QED BY <1>1, <1>2, SmallestSubset
<1>4. g[s] = (IF s = {} THEN 0 ELSE f[Chosen(s)] + g[s \ {Chosen(s)}])
        /\ h[s] = (IF s = {} THEN 0 ELSE f[Chosen(s)] + h[s \ {Chosen(s)}])
  BY TableValues
<1>5. CASE s = {}
  BY <1>4, <1>5
<1>6. CASE s # {}
  <2>1. s \ {Chosen(s)} \subseteq s /\ s \ {Chosen(s)} # s
    BY <1>6, ChosenIsIn
  <2>2. s \ {Chosen(s)} \notin B
    BY <2>1, <1>3
  <2>3. g[s \ {Chosen(s)}] = h[s \ {Chosen(s)}]
    BY <2>1, <2>2
  <2> QED BY <1>4, <1>6, <2>3
<1> QED BY <1>5, <1>6

LEMMA TableExists ==
  ASSUME NEW f, NEW S, IsFiniteSet(S)
  PROVE  \E g : IsTable(g, f, S)
<1> DEFINE B == {T \in SUBSET S : ~ \E g : IsTable(g, f, T)}
<1>1. SUFFICES ASSUME B # {} PROVE FALSE
  OBVIOUS
<1>2. B \in SUBSET SUBSET S
  OBVIOUS
<1>3. PICK T \in B : \A u \in B : u \subseteq T => u = T
  <2> HIDE DEF B
  <2> QED BY <1>1, <1>2, SmallestSubset
<1>4. \A u \in SUBSET T : u # T => \E g : IsTable(g, f, u)
  BY <1>3
<1> DEFINE Of(u) == CHOOSE g : IsTable(g, f, u)
           h == [s \in SUBSET T |->
                   IF s = {} THEN 0 ELSE f[Chosen(s)] + Of(s \ {Chosen(s)})[s \ {Chosen(s)}]]
<1>5. \A u \in SUBSET T : u # T => IsTable(Of(u), f, u)
  BY <1>4
<1>6. ASSUME NEW s \in SUBSET T, s # {}
      PROVE  Of(s \ {Chosen(s)})[s \ {Chosen(s)}] = h[s \ {Chosen(s)}]
  <2> DEFINE u == s \ {Chosen(s)}
  <2>1. u \in SUBSET T /\ u # T /\ IsFiniteSet(u)
    BY <1>6, ChosenIsIn, FS_Subset, T \in SUBSET S
  <2>2. IsTable(Of(u), f, u)
    BY <2>1, <1>5
  <2>3. Of(u)[u] = (IF u = {} THEN 0 ELSE f[Chosen(u)] + Of(u)[u \ {Chosen(u)}])
    <3> HIDE DEF u, Of
    <3> QED BY <2>2, TableValues
  <2>4. h[u] = (IF u = {} THEN 0 ELSE f[Chosen(u)] + Of(u \ {Chosen(u)})[u \ {Chosen(u)}])
    <3> HIDE DEF u, Of
    <3> QED BY <2>1
  <2>5. u = {} => Of(u)[u] = h[u]
    BY <2>3, <2>4
  <2>6. ASSUME u # {} PROVE Of(u)[u] = h[u]
    <3> DEFINE v == u \ {Chosen(u)}
    <3>1. v \in SUBSET u /\ v \in SUBSET T /\ v # T
      BY <2>1, <2>6, ChosenIsIn
    <3>2. IsTable(Of(v), f, v)
      BY <3>1, <1>5
    <3>3. Of(u)[v] = Of(v)[v]
      <4> HIDE DEF u, v, Of
      <4> QED BY <2>1, <2>2, <3>1, <3>2, TablesAgree
    <3> HIDE DEF u, Of, h
    <3> QED BY <2>3, <2>4, <2>6, <3>3
  <2>7. Of(u)[u] = h[u]
    BY <2>5, <2>6
  <2> QED BY <2>7
<1>7. IsTable(h, f, T)
  <2>1. \A s \in SUBSET T : h[s] = IF s = {} THEN 0 ELSE f[Chosen(s)] + h[s \ {Chosen(s)}]
    <3> HIDE DEF Of
    <3> TAKE s \in SUBSET T
    <3>1. CASE s = {}
      BY <3>1
    <3>2. CASE s # {}
      <4>1. h[s] = f[Chosen(s)] + Of(s \ {Chosen(s)})[s \ {Chosen(s)}]
        BY <3>2
      <4> HIDE DEF h
      <4> QED BY <4>1, <3>2, <1>6
    <3> QED BY <3>1, <3>2
  <2>2. h = [s \in SUBSET T |-> h[s]]
    BY DEF h
  <2> HIDE DEF h
  <2>3. [s \in SUBSET T |-> h[s]] =
          [s \in SUBSET T |-> IF s = {} THEN 0 ELSE f[Chosen(s)] + h[s \ {Chosen(s)}]]
    BY <2>1
  <2> QED BY <2>2, <2>3 DEF IsTable
<1> QED BY <1>3, <1>7

(* The table that a sum over S is taken from: SumFunctionOnSet picks one. *)
LEMMA SumTable ==
  ASSUME NEW f, NEW S, IsFiniteSet(S), NEW T, T \subseteq S
  PROVE  /\ \E g : IsTable(g, f, S)
         /\ \A g : IsTable(g, f, S) => SumFunctionOnSet(f, T) = g[T]
<1>1. \E g : IsTable(g, f, S)
  BY TableExists
<1>2. IsFiniteSet(T)
  BY FS_Subset
<1> DEFINE h == CHOOSE g : IsTable(g, f, T)
<1>3. IsTable(h, f, T)
  BY <1>2, TableExists
<1>4. SumFunctionOnSet(f, T) = h[T]
  BY SumIsTable
<1> HIDE DEF h
<1>5. ASSUME NEW g, IsTable(g, f, S) PROVE h[T] = g[T]
  BY <1>2, <1>3, <1>5, TablesAgree
<1> QED BY <1>1, <1>4, <1>5

(* The sum over nothing, the sum without one of its parts, and the numbers
   that it is made of. *)
LEMMA SumEquation ==
  ASSUME NEW f, NEW S, IsFiniteSet(S)
  PROVE  /\ SumFunctionOnSet(f, {}) = 0
         /\ S # {} => SumFunctionOnSet(f, S) =
                        f[Chosen(S)] + SumFunctionOnSet(f, S \ {Chosen(S)})
<1>1. PICK g : IsTable(g, f, S)
  BY TableExists
<1>2. SumFunctionOnSet(f, S) = g[S] /\ SumFunctionOnSet(f, S \ {Chosen(S)}) = g[S \ {Chosen(S)}]
        /\ SumFunctionOnSet(f, {}) = g[{}]
  BY <1>1, SumTable
<1>3. g[S] = (IF S = {} THEN 0 ELSE f[Chosen(S)] + g[S \ {Chosen(S)}]) /\ g[{}] = 0
  BY <1>1, TableValues
<1> QED BY <1>2, <1>3

LEMMA SumOfNothing ==
  \A f : SumFunctionOnSet(f, {}) = 0
BY SumEquation, FS_EmptySet

LEMMA SumIsNat ==
  ASSUME NEW f, NEW S, IsFiniteSet(S), \A x \in S : f[x] \in Nat
  PROVE  SumFunctionOnSet(f, S) \in Nat
<1> DEFINE B == {T \in SUBSET S : SumFunctionOnSet(f, T) \notin Nat}
<1>1. SUFFICES ASSUME B # {} PROVE FALSE
  OBVIOUS
<1>2. PICK T \in B : \A u \in B : u \subseteq T => u = T
  <2>1. B \in SUBSET SUBSET S
    OBVIOUS
  <2> HIDE DEF B
  <2> QED BY <1>1, <2>1, SmallestSubset
<1>3. T # {} /\ IsFiniteSet(T)
  <2>1. SumFunctionOnSet(f, {}) \in Nat
    BY SumOfNothing
  <2> QED BY <2>1, FS_Subset
<1>4. T \ {Chosen(T)} \subseteq T /\ T \ {Chosen(T)} # T /\ Chosen(T) \in S
  BY <1>3, ChosenIsIn
<1>5. SumFunctionOnSet(f, T \ {Chosen(T)}) \in Nat /\ f[Chosen(T)] \in Nat
  BY <1>2, <1>4
<1>6. SumFunctionOnSet(f, T) = f[Chosen(T)] + SumFunctionOnSet(f, T \ {Chosen(T)})
  BY <1>3, SumEquation
<1> QED BY <1>5, <1>6

(* It does not matter which of the parts is added last. *)
LEMMA SumWithout ==
  ASSUME NEW f, NEW S, IsFiniteSet(S), \A x \in S : f[x] \in Nat, NEW y \in S
  PROVE  SumFunctionOnSet(f, S) = f[y] + SumFunctionOnSet(f, S \ {y})
<1> DEFINE Sum(T) == SumFunctionOnSet(f, T)
           B == {T \in SUBSET S : \E z \in T : Sum(T) # f[z] + Sum(T \ {z})}
<1>1. SUFFICES ASSUME B # {} PROVE FALSE
  OBVIOUS
<1>2. PICK T \in B : \A u \in B : u \subseteq T => u = T
  <2>1. B \in SUBSET SUBSET S
    OBVIOUS
  <2> HIDE DEF B
  <2> QED BY <1>1, <2>1, SmallestSubset
<1>3. PICK z \in T : Sum(T) # f[z] + Sum(T \ {z})
  OBVIOUS
<1> DEFINE x == Chosen(T)
<1>4. IsFiniteSet(T) /\ x \in T /\ T \in SUBSET S
  BY FS_Subset, ChosenIsIn
<1>5. Sum(T) = f[x] + Sum(T \ {x})
  BY <1>4, SumEquation
<1>6. x # z
  BY <1>3, <1>5
<1> HIDE DEF x
<1>7. Sum(T \ {x}) = f[z] + Sum((T \ {x}) \ {z})
  <2>1. T \ {x} \in SUBSET S /\ T \ {x} \subseteq T /\ T \ {x} # T /\ z \in T \ {x}
    BY <1>4, <1>6
  <2> QED BY <2>1, <1>2
<1>8. Sum(T \ {z}) = f[x] + Sum((T \ {z}) \ {x})
  <2>1. T \ {z} \in SUBSET S /\ T \ {z} \subseteq T /\ T \ {z} # T /\ x \in T \ {z}
    BY <1>4, <1>6
  <2> QED BY <2>1, <1>2
<1>9. (T \ {z}) \ {x} = (T \ {x}) \ {z}
  OBVIOUS
<1>10. Sum((T \ {x}) \ {z}) \in Nat /\ f[x] \in Nat /\ f[z] \in Nat
  <2>1. IsFiniteSet((T \ {x}) \ {z}) /\ (T \ {x}) \ {z} \subseteq S
    BY <1>4, FS_Subset
  <2> QED BY <2>1, <1>4, SumIsNat
<1> DEFINE rest == Sum((T \ {x}) \ {z})
<1>11. Sum(T) = f[x] + (f[z] + rest) /\ Sum(T \ {z}) = f[x] + rest
  BY <1>5, <1>7, <1>8, <1>9
<1>12. rest \in Nat /\ f[x] \in Nat /\ f[z] \in Nat
  BY <1>10
<1> HIDE DEF Sum, rest
<1>13. f[x] + (f[z] + rest) = f[z] + (f[x] + rest)
  BY <1>12
<1> QED BY <1>3, <1>11, <1>13

(* A sum of more parts, none of them smaller, is no smaller; the parts that
   the other does not have must be nothing. *)
LEMMA SumCompares ==
  ASSUME NEW f, NEW g, NEW S, NEW T, IsFiniteSet(S), IsFiniteSet(T),
         \A x \in S : f[x] \in Nat, \A x \in T : g[x] \in Nat,
         \A x \in S : IF x \in T THEN f[x] <= g[x] ELSE f[x] = 0
  PROVE  SumFunctionOnSet(f, S) <= SumFunctionOnSet(g, T)
<1> DEFINE Less(U) == SumFunctionOnSet(f, U \cap S)
           More(U) == SumFunctionOnSet(g, U \cap T)
           B == {U \in SUBSET (S \cup T) : ~(Less(U) <= More(U))}
<1>0. IsFiniteSet(S \cup T)
  BY FS_Union
<1>1. SUFFICES ASSUME B # {} PROVE FALSE
  <2>1. S \cup T \notin B
    BY <1>1
  <2>2. (S \cup T) \cap S = S /\ (S \cup T) \cap T = T
    OBVIOUS
  <2> QED BY <2>1, <2>2
<1>2. PICK U \in B : \A V \in B : V \subseteq U => V = U
  <2>1. B \in SUBSET SUBSET (S \cup T)
    OBVIOUS
  <2> HIDE DEF B
  <2> QED BY <1>0, <1>1, <2>1, SmallestSubset
<1>3. ASSUME NEW V \in SUBSET U
      PROVE  /\ IsFiniteSet(V \cap S) /\ IsFiniteSet(V \cap T)
             /\ Less(V) \in Nat /\ More(V) \in Nat
  <2>1. IsFiniteSet(V \cap S) /\ IsFiniteSet(V \cap T)
    BY FS_Subset
  <2> QED BY <2>1, SumIsNat
<1>4. U # {}
  <2>1. {} \cap S = {} /\ {} \cap T = {}
    OBVIOUS
  <2>2. Less({}) = 0 /\ More({}) = 0
    BY <2>1, SumOfNothing
  <2> HIDE DEF Less, More
  <2> QED BY <2>2
<1>5. PICK y : y \in U
  BY <1>4
<1> DEFINE V == U \ {y}
<1>6. Less(V) <= More(V)
  <2>1. V \in SUBSET (S \cup T) /\ V \subseteq U /\ V # U
    BY <1>5
  <2>2. V \notin B
    BY <2>1, <1>2
  <2> HIDE DEF Less, More
  <2> QED BY <2>1, <2>2
<1>7. Less(U) = (IF y \in S THEN f[y] + Less(V) ELSE Less(V))
  <2>1. (U \cap S) \ {y} = V \cap S
    OBVIOUS
  <2>2. CASE y \in S
    <3>1. y \in U \cap S /\ IsFiniteSet(U \cap S) /\ \A x \in U \cap S : f[x] \in Nat
      BY <1>3, <1>5, <2>2
    <3> QED BY <3>1, <2>1, <2>2, SumWithout
  <2>3. CASE y \notin S
    <3>1. U \cap S = V \cap S
      BY <2>3
    <3> QED BY <3>1, <2>3
  <2> QED BY <2>2, <2>3
<1>8. More(U) = (IF y \in T THEN g[y] + More(V) ELSE More(V))
  <2>1. (U \cap T) \ {y} = V \cap T
    OBVIOUS
  <2>2. CASE y \in T
    <3>1. y \in U \cap T /\ IsFiniteSet(U \cap T) /\ \A x \in U \cap T : g[x] \in Nat
      BY <1>3, <1>5, <2>2
    <3> QED BY <3>1, <2>1, <2>2, SumWithout
  <2>3. CASE y \notin T
    <3>1. U \cap T = V \cap T
      BY <2>3
    <3> QED BY <3>1, <2>3
  <2> QED BY <2>2, <2>3
<1>9. ~(Less(U) <= More(U)) /\ Less(V) \in Nat /\ More(V) \in Nat /\ y \in S \cup T
  BY <1>3, <1>5
<1> HIDE DEF Less, More, V
<1> QED BY <1>6, <1>7, <1>8, <1>9

-----------------------------------------------------------------------------
(* Scores *)

(* What a list of findings is: not endless, and weighed in the limits of the
   model of a finding. *)
Weighed(findings) == IsFiniteSet(findings) /\ \A f \in findings : f.score \in 0 .. 100

FamiliesOf(findings) == {FamilyOf(c) : c \in Codes(findings)}
Best(findings) == [family \in FamiliesOf(findings) |-> Strongest(findings, family)]

LEMMA FamiliesAreFinite ==
  ASSUME NEW findings, IsFiniteSet(findings)
  PROVE  IsFiniteSet(FamiliesOf(findings))
<1> DEFINE to == [f \in findings |-> FamilyOf(f.code)]
<1>1. to \in Surjection(findings, FamiliesOf(findings))
  BY DEF Surjection, FamiliesOf, Codes
<1> HIDE DEF to
<1> QED BY <1>1, FS_Surjection

LEMMA StrongestFacts ==
  ASSUME NEW findings, Weighed(findings), NEW family \in FamiliesOf(findings)
  PROVE  /\ Strongest(findings, family) \in 0 .. 100
         /\ \E f \in findings : /\ FamilyOf(f.code) = family
                                /\ f.score = Strongest(findings, family)
         /\ \A f \in findings : FamilyOf(f.code) = family =>
                                  f.score <= Strongest(findings, family)
<1> DEFINE scores == {f.score : f \in {g \in findings : FamilyOf(g.code) = family}}
           shifted == {n + 1 : n \in scores}
<1>1. PICK g \in findings : FamilyOf(g.code) = family
  BY DEF FamiliesOf, Codes
<1>2. scores \subseteq 0 .. 100 /\ g.score \in scores
  BY <1>1 DEF Weighed
<1>3. \E n \in scores : \A m \in scores : m <= n
  <2>1. shifted \in SUBSET (1 .. 101) /\ shifted # {} /\ 101 \in Nat
    <3> HIDE DEF scores
    <3>1. \A n \in scores : n + 1 \in 1 .. 101
      BY <1>2
    <3>2. shifted \subseteq 1 .. 101 /\ shifted # {}
      BY <1>2, <3>1
    <3> HIDE DEF shifted
    <3> QED BY <3>2
  <2>2. PICK i \in shifted : \A j \in shifted : j <= i
    <3> HIDE DEF shifted
    <3> QED BY <2>1, LargestExists
  <2>3. PICK n \in scores : i = n + 1
    OBVIOUS
  <2>4. ASSUME NEW m \in scores PROVE m <= n
    <3>1. m + 1 <= n + 1
      BY <2>2, <2>3
    <3> HIDE DEF scores
    <3> QED BY <1>2, <3>1
  <2> QED BY <2>4
<1> DEFINE most == Max(scores)
<1>4. most \in scores /\ \A m \in scores : m <= most
  <2>1. \E n \in scores : \A m \in scores : n >= m
    <3> HIDE DEF scores
    <3> QED BY <1>2, <1>3
  <2>2. most \in scores /\ \A m \in scores : most >= m
    <3> HIDE DEF scores
    <3> QED BY <2>1 DEF Max
  <2> HIDE DEF scores, most
  <2> QED BY <1>2, <2>2
<1>5. Strongest(findings, family) = most
  BY DEF Strongest
<1> HIDE DEF most
<1> QED BY <1>2, <1>4, <1>5

LEMMA BestFacts ==
  ASSUME NEW findings, Weighed(findings)
  PROVE  /\ IsFiniteSet(FamiliesOf(findings))
         /\ \A family \in FamiliesOf(findings) : /\ Best(findings)[family] \in Nat
                          /\ Best(findings)[family] = Strongest(findings, family)
         /\ SumFunction(Best(findings)) =
              SumFunctionOnSet(Best(findings), FamiliesOf(findings))
         /\ SumFunction(Best(findings)) \in Nat
<1>1. IsFiniteSet(FamiliesOf(findings))
  BY FamiliesAreFinite DEF Weighed
<1>2. ASSUME NEW family \in FamiliesOf(findings)
      PROVE  /\ Best(findings)[family] \in Nat
             /\ Best(findings)[family] = Strongest(findings, family)
  BY StrongestFacts DEF Best
<1>3. DOMAIN Best(findings) = FamiliesOf(findings)
  BY DEF Best
<1>4. SumFunction(Best(findings)) = SumFunctionOnSet(Best(findings), FamiliesOf(findings))
  BY <1>3 DEF SumFunction
<1>5. SumFunctionOnSet(Best(findings), FamiliesOf(findings)) \in Nat
  BY <1>1, <1>2, SumIsNat
<1> QED BY <1>1, <1>2, <1>4, <1>5

LEMMA LeastOfTwo ==
  \A a, b \in Nat : Min({a, b}) = IF a <= b THEN a ELSE b
<1> SUFFICES ASSUME NEW a \in Nat, NEW b \in Nat
             PROVE  Min({a, b}) = IF a <= b THEN a ELSE b
  OBVIOUS
<1> DEFINE x == IF a <= b THEN a ELSE b
<1>1. x \in {a, b} /\ \A y \in {a, b} : x <= y
  OBVIOUS
<1>2. ASSUME NEW z \in {a, b}, \A y \in {a, b} : z <= y PROVE z = x
  BY <1>2
<1> HIDE DEF x
<1>3. Min({a, b}) = x
  BY <1>1, <1>2 DEF Min
<1> QED BY <1>3 DEF x

LEMMA MostOfTwo ==
  \A a, b \in Nat : Max({a, b}) = IF a <= b THEN b ELSE a
<1> SUFFICES ASSUME NEW a \in Nat, NEW b \in Nat
             PROVE  Max({a, b}) = IF a <= b THEN b ELSE a
  OBVIOUS
<1> DEFINE x == IF a <= b THEN b ELSE a
<1>1. x \in {a, b} /\ \A y \in {a, b} : x >= y
  OBVIOUS
<1>2. ASSUME NEW z \in {a, b}, \A y \in {a, b} : z >= y PROVE z = x
  BY <1>2
<1> HIDE DEF x
<1>3. Max({a, b}) = x
  BY <1>1, <1>2 DEF Max
<1> QED BY <1>3 DEF x

(* A score, in the terms of the lemmas on sums. *)
LEMMA ScoreValue ==
  ASSUME NEW findings, Weighed(findings)
  PROVE  /\ ScoreOf(findings) =
              IF \E f \in findings : f.score >= 100 THEN 100
              ELSE IF 100 <= SumFunction(Best(findings)) THEN 100
              ELSE SumFunction(Best(findings))
         /\ ScoreOf(findings) \in 0 .. 100
<1>1. SumFunction(Best(findings)) \in Nat
  BY BestFacts
<1>2. ScoreOf(findings) = IF \E f \in findings : f.score >= 100 THEN 100
                          ELSE Min({100, SumFunction(Best(findings))})
  BY DEF ScoreOf, Best, FamiliesOf
<1>3. Min({100, SumFunction(Best(findings))}) =
        IF 100 <= SumFunction(Best(findings)) THEN 100 ELSE SumFunction(Best(findings))
  BY <1>1, LeastOfTwo
<1> QED BY <1>1, <1>2, <1>3

(* More findings never weigh less: whatever weighs anything in the first list
   is in the second by its code and with its weight. *)
LEMMA ScoreGrows ==
  ASSUME NEW findings, NEW more, Weighed(findings), Weighed(more),
         \A f \in findings : \/ f.score = 0
                             \/ \E g \in more : g.code = f.code /\ g.score = f.score
  PROVE  ScoreOf(findings) <= ScoreOf(more)
<1>1. ASSUME NEW f \in findings, f.score >= 100 PROVE \E g \in more : g.score >= 100
  BY <1>1 DEF Weighed
<1>2. SumFunctionOnSet(Best(findings), FamiliesOf(findings))
        <= SumFunctionOnSet(Best(more), FamiliesOf(more))
  <2>1. ASSUME NEW family \in FamiliesOf(findings)
        PROVE  IF family \in FamiliesOf(more)
               THEN Best(findings)[family] <= Best(more)[family]
               ELSE Best(findings)[family] = 0
    <3>1. PICK f \in findings : /\ FamilyOf(f.code) = family
                                /\ f.score = Strongest(findings, family)
      BY StrongestFacts
    <3>2. Best(findings)[family] = f.score
      BY <3>1, BestFacts
    <3>3. CASE f.score = 0
      <4>1. family \in FamiliesOf(more) => Best(more)[family] \in Nat
        BY BestFacts
      <4> QED BY <3>2, <3>3, <4>1
    <3>4. CASE f.score # 0
      <4>1. PICK g \in more : g.code = f.code /\ g.score = f.score
        BY <3>4
      <4>2. family \in FamiliesOf(more)
        BY <3>1, <4>1 DEF FamiliesOf, Codes
      <4>3. g.score <= Strongest(more, family)
        BY <3>1, <4>1, <4>2, StrongestFacts
      <4>4. Strongest(more, family) = Best(more)[family]
        BY <4>2, BestFacts
      <4> QED BY <3>2, <4>1, <4>2, <4>3, <4>4
    <3> QED BY <3>3, <3>4
  <2>2. /\ IsFiniteSet(FamiliesOf(findings)) /\ IsFiniteSet(FamiliesOf(more))
        /\ \A x \in FamiliesOf(findings) : Best(findings)[x] \in Nat
        /\ \A x \in FamiliesOf(more) : Best(more)[x] \in Nat
    BY BestFacts
  <2> QED BY <2>1, <2>2, SumCompares
<1>3. SumFunction(Best(findings)) <= SumFunction(Best(more))
  BY <1>2, BestFacts
<1>4. SumFunction(Best(findings)) \in Nat /\ SumFunction(Best(more)) \in Nat
  BY BestFacts
<1> QED BY <1>1, <1>3, <1>4, ScoreValue

LEMMA RowFacts ==
  \A row \in Graded : row[1] \in 0 .. 100
BY DEF Graded

LEMMA WeightIsFair ==
  \A c \in DOMAIN DefaultWeights : RuleFor(DefaultWeights, c) \in 0 .. 100
<1> TAKE c \in DOMAIN DefaultWeights
<1>1. \E row \in Graded : c \in row[2]
  BY DEF DefaultWeights
<1> DEFINE row == CHOOSE r \in Graded : c \in r[2]
<1>2. row \in Graded
  BY <1>1
<1>3. RuleFor(DefaultWeights, c) = row[1]
  BY DEF RuleFor, DefaultWeights
<1> HIDE DEF row
<1> QED BY <1>2, <1>3, RowFacts

-----------------------------------------------------------------------------
(* The names of stages, the table of weights, the verdict *)

LEMMA StageFacts ==
  /\ StageNames = {"filetype", "structure", "clamav", "yara"}
  /\ \A s \in StageNames : Following(s) \in StageNames \cup {"expand"}
  <1>1. DOMAIN Stages = 1 .. 4
    BY DEF Stages
  <1>2. /\ Stages[1] = "filetype" /\ Stages[2] = "structure"
        /\ Stages[3] = "clamav" /\ Stages[4] = "yara"
    BY DEF Stages
  <1>3. StageNames = {"filetype", "structure", "clamav", "yara"}
    <2>1. StageNames = {Stages[i] : i \in 1 .. 4}
      BY <1>1 DEF StageNames, ToSet
    <2>2. \A i \in 1 .. 4 : i = 1 \/ i = 2 \/ i = 3 \/ i = 4
      OBVIOUS
    <2> QED
      BY <1>2, <2>1, <2>2
  <1>4. ASSUME NEW s \in StageNames, s # "yara"
        PROVE  Following(s) \in StageNames
    <2> DEFINE i == CHOOSE i \in 1 .. 3 : Stages[i] = s
    <2>1. \E k \in 1 .. 3 : Stages[k] = s
      BY <1>2, <1>3, <1>4
    <2>2. i \in 1 .. 3
      BY <2>1
    <2> HIDE DEF i
    <2>3. 1 + i \in 1 .. 4
      BY <2>2
    <2>4. Stages[1 + i] \in StageNames
      BY <1>1, <2>3 DEF StageNames, ToSet
    <2> QED
      BY <1>4, <2>4 DEF Following, i
  <1>5. Following("yara") = "expand"
    BY DEF Following
  <1> QED
    BY <1>3, <1>4, <1>5

(* The codes that the pipeline itself tells are in the table. *)
LEMMA TableFacts ==
  {"ARCHIVE_SYMLINK", "ARCHIVE_ENCRYPTED", "ARCHIVE_BOMB", "ARCHIVE_INCOMPLETE",
   "ARCHIVE_MALFORMED", "STAGE_FAILED", "STAGE_TIMEOUT", "CDR_FAILED"}
    \subseteq DOMAIN DefaultWeights
  <1>1. DOMAIN DefaultWeights = UNION {row[2] : row \in Graded}
    BY DEF DefaultWeights
  <1>2. \A row \in Graded : row[2] \subseteq DOMAIN DefaultWeights
    BY <1>1
  <1>3. \E row \in Graded : "ARCHIVE_SYMLINK" \in row[2]
    BY DEF Graded
  <1>4. \E row \in Graded : "ARCHIVE_ENCRYPTED" \in row[2]
    BY DEF Graded
  <1>5. \E row \in Graded : "ARCHIVE_BOMB" \in row[2]
    BY DEF Graded
  <1>6. \E row \in Graded : "ARCHIVE_INCOMPLETE" \in row[2]
    BY DEF Graded
  <1>7. \E row \in Graded : "ARCHIVE_MALFORMED" \in row[2]
    BY DEF Graded
  <1>8. \E row \in Graded : "STAGE_FAILED" \in row[2]
    BY DEF Graded
  <1>9. \E row \in Graded : "STAGE_TIMEOUT" \in row[2]
    BY DEF Graded
  <1>10. \E row \in Graded : "CDR_FAILED" \in row[2]
    BY DEF Graded
  <1> QED
    BY <1>2, <1>3, <1>4, <1>5, <1>6, <1>7, <1>8, <1>9, <1>10

(* What carries a mark is not clean, whatever was found and however it weighs,
   unless the tenant fails open. *)
LEMMA MarkedIsNotClean ==
  ASSUME NEW facts, NEW policy, Marked(facts), policy.failMode # "fail-open"
  PROVE  VerdictOf(facts, policy) # "clean"
  <1>1. ApplyFailure("clean", policy) # "clean"
    BY DEF ApplyFailure, VerdictOnFailure
  <1> QED
    BY <1>1 DEF Marked, VerdictOf, VerdictAndScore, CoverageIncomplete

LEMMA VerdictFacts ==
  /\ \A facts, policy : VerdictOf(facts, policy) \in Verdicts
  /\ \A verdict \in Verdicts : \A policy : ApplyFailure(verdict, policy) \in Verdicts
  <1>1. \A policy : VerdictOnFailure(policy) \in Verdicts
    BY DEF VerdictOnFailure, Verdicts
  <1>2. \A verdict \in Verdicts : \A policy : ApplyFailure(verdict, policy) \in Verdicts
    BY <1>1 DEF ApplyFailure
  <1>3. "clean" \in Verdicts
    BY DEF Verdicts
  <1> QED
    BY <1>2, <1>3 DEF VerdictOf, VerdictAndScore, Verdicts

(* A later failure softens nothing, and is no clean bill. *)
LEMMA FailureIsNotClean ==
  ASSUME NEW verdict, NEW policy, policy.failMode # "fail-open"
  PROVE  ApplyFailure(verdict, policy) # "clean"
  BY DEF ApplyFailure, VerdictOnFailure

-----------------------------------------------------------------------------
(* What a stage writes *)

LEMMA FindingFacts ==
  /\ \A stage \in Tellers, c \in DOMAIN DefaultWeights :
       Finding(stage, c, RuleFor(DefaultWeights, c)) \in Findings
  /\ \A f \in Findings : f.code \in DOMAIN DefaultWeights
                         /\ f.score = RuleFor(DefaultWeights, f.code)
  /\ \A findings \in FindingSets : Weighed(findings)
  <1>1. \A f \in Findings : f.code \in DOMAIN DefaultWeights
                            /\ f.score = RuleFor(DefaultWeights, f.code)
    BY DEF Finding, Findings
  <1>2. \A findings \in FindingSets : Weighed(findings)
    BY <1>1, WeightIsFair DEF FindingSets, Weighed
  <1> QED
    BY <1>1, <1>2 DEF Findings

LEMMA AddFits ==
  ASSUME NEW findings \in FindingSets, NEW stage \in Tellers,
         NEW c \in DOMAIN DefaultWeights
  PROVE  /\ Add(findings, stage, c, DefaultWeights) \in FindingSets
         /\ findings \subseteq Add(findings, stage, c, DefaultWeights)
         /\ c \in Codes(Add(findings, stage, c, DefaultWeights))
  <1> DEFINE f == Finding(stage, c, RuleFor(DefaultWeights, c))
  <1>1. f \in Findings /\ f.code = c
    BY FindingFacts DEF Finding
  <1>2. IsFiniteSet(findings \cup {f})
    BY FS_AddElement DEF FindingSets
  <1>3. Add(findings, stage, c, DefaultWeights) =
          IF c \in Codes(findings) THEN findings ELSE findings \cup {f}
    BY DEF Add, AddWeighed
  <1> HIDE DEF f
  <1> QED
    BY <1>1, <1>2, <1>3 DEF FindingSets, Codes

LEMMA AddAllFits ==
  ASSUME NEW findings \in FindingSets, NEW stage \in Tellers,
         NEW codes \in SUBSET DOMAIN DefaultWeights, IsFiniteSet(codes)
  PROVE  /\ AddAll(findings, stage, codes) \in FindingSets
         /\ findings \subseteq AddAll(findings, stage, codes)
  <1> DEFINE new == codes \ Codes(findings)
             of == [c \in new |-> Finding(stage, c, RuleFor(DefaultWeights, c))]
             added == {Finding(stage, c, RuleFor(DefaultWeights, c)) : c \in new}
  <1>1. of \in Surjection(new, added)
    BY DEF Surjection
  <1>2. IsFiniteSet(new)
    BY FS_Subset
  <1>3. IsFiniteSet(added)
    <2> HIDE DEF new, of, added
    <2> QED
      BY <1>1, <1>2, FS_Surjection
  <1>4. added \subseteq Findings
    BY FindingFacts
  <1>5. AddAll(findings, stage, codes) = findings \cup added
    BY DEF AddAll
  <1> HIDE DEF added
  <1>6. IsFiniteSet(findings \cup added)
    BY <1>3, FS_Union DEF FindingSets
  <1> QED
    BY <1>4, <1>5, <1>6 DEF FindingSets

(* Nothing is lost when findings are joined: what the one list does not take
   from the other it has by code, and so with the same weight. *)
LEMMA JoinFits ==
  ASSUME NEW findings \in FindingSets, NEW more \in FindingSets
  PROVE  /\ Join(findings, more) \in FindingSets
         /\ findings \subseteq Join(findings, more)
         /\ \A f \in more : \E g \in Join(findings, more) : g.code = f.code /\ g.score = f.score
  <1> DEFINE new == {f \in more : f.code \notin Codes(findings)}
  <1>1. IsFiniteSet(new) /\ new \subseteq Findings
    BY FS_Subset DEF FindingSets
  <1>2. Join(findings, more) = findings \cup new
    BY DEF Join
  <1>3. Join(findings, more) \in FindingSets
    <2> HIDE DEF new
    <2> QED
      BY <1>1, <1>2, FS_Union DEF FindingSets
  <1>4. ASSUME NEW f \in more
        PROVE  \E g \in Join(findings, more) : g.code = f.code /\ g.score = f.score
    <2>1. CASE f \in new
      BY <1>2, <2>1
    <2>2. CASE f \notin new
      <3>1. PICK g \in findings : g.code = f.code
        BY <2>2 DEF Codes
      <3>2. g \in Findings /\ f \in Findings
        BY DEF FindingSets
      <3>3. g.score = f.score
        BY <3>1, <3>2, FindingFacts
      <3> QED
        BY <1>2, <3>1, <3>3
    <2> QED
      BY <2>1, <2>2
  <1> QED
    BY <1>2, <1>3, <1>4

LEMMA NewContextFits ==
  NewContext \in Contexts
  <1>1. {} \in FindingSets
    BY FS_EmptySet DEF FindingSets
  <1> QED
    BY <1>1 DEF NewContext, Contexts

(* Another context for one file. *)
LEMMA ContextFields ==
  ASSUME ctx \in [File -> Contexts], NEW file \in File
  PROVE  /\ ctx[file] \in Contexts
         /\ ctx[file].findings \in FindingSets /\ ctx[file].failed \in SUBSET StageNames
         /\ ctx[file].encrypted \in BOOLEAN /\ ctx[file].supported \in BOOLEAN
  <1>1. ctx[file] \in Contexts
    OBVIOUS
  <1> QED
    BY <1>1 DEF Contexts

Told(file, findings, encrypted, supported) ==
  [ctx EXCEPT ![file] = [ctx[file] EXCEPT !.findings = findings, !.encrypted = encrypted,
                                          !.supported = supported]]

Failing(file, findings, stage) ==
  [ctx EXCEPT ![file] = [ctx[file] EXCEPT !.findings = findings,
                                          !.failed = ctx[file].failed \cup {stage}]]

(* The notes of the pipeline in these terms. *)
LEMMA NoteIsTold ==
  ASSUME ctx \in [File -> Contexts], NEW file \in File, NEW stage, NEW code
  PROVE  LET findings == Add(ctx[file].findings, stage, code, DefaultWeights) IN
         /\ Note(file, stage, code) =
              Told(file, findings, ctx[file].encrypted, ctx[file].supported)
         /\ [Note(file, stage, code) EXCEPT ![file].supported = FALSE] =
              Told(file, findings, ctx[file].encrypted, FALSE)
         /\ [Note(file, stage, code) EXCEPT ![file].failed = @ \cup {stage}] =
              Failing(file, findings, stage)
  <1>1. ctx[file] = [findings |-> ctx[file].findings, encrypted |-> ctx[file].encrypted,
                     supported |-> ctx[file].supported, failed |-> ctx[file].failed]
    BY ContextFields DEF Contexts
  <1> DEFINE findings == Add(ctx[file].findings, stage, code, DefaultWeights)
             noted == [ctx[file] EXCEPT !.findings = findings]
  <1>2. Note(file, stage, code) = [ctx EXCEPT ![file] = noted]
    BY DEF Note
  <1>3. noted = [ctx[file] EXCEPT !.findings = findings, !.encrypted = ctx[file].encrypted,
                                  !.supported = ctx[file].supported]
    BY <1>1
  <1>4. [noted EXCEPT !.supported = FALSE] =
          [ctx[file] EXCEPT !.findings = findings, !.encrypted = ctx[file].encrypted,
                            !.supported = FALSE]
    BY <1>1
  <1>5. [noted EXCEPT !.failed = noted.failed \cup {stage}] =
          [ctx[file] EXCEPT !.findings = findings, !.failed = ctx[file].failed \cup {stage}]
    BY <1>1
  <1>6. [Note(file, stage, code) EXCEPT ![file].supported = FALSE] =
          [ctx EXCEPT ![file] = [noted EXCEPT !.supported = FALSE]]
    BY <1>2
  <1>7. [Note(file, stage, code) EXCEPT ![file].failed = @ \cup {stage}] =
          [ctx EXCEPT ![file] = [noted EXCEPT !.failed = noted.failed \cup {stage}]]
    BY <1>2
  <1> HIDE DEF noted
  <1> QED
    BY <1>2, <1>3, <1>4, <1>5, <1>6, <1>7 DEF Told, Failing

-----------------------------------------------------------------------------
(* What is taken of an archive *)

LEMMA ListingFacts ==
  ASSUME NEW file \in File, NEW listing \in Listings(file)
  PROVE  /\ Len(Entries[file]) \in Nat
         /\ DOMAIN listing = 1 .. Len(Entries[file])
         /\ DOMAIN Entries[file] = 1 .. Len(Entries[file])
         /\ \A i \in DOMAIN listing : listing[i].size \in Nat
  BY PipelineAssumption, LenProperties DEF Listings

(* What is taken stays within the entries that the tree may have: the last one
   that was taken still found room. *)
LEMMA TakenFits ==
  ASSUME NEW file \in File, NEW listing \in Listings(file),
         NEW taken \in SUBSET DOMAIN Entries[file], Takes(listing, taken),
         budget.entries \in 0 .. MaxArchiveEntries
  PROVE  /\ IsFiniteSet(taken) /\ Cardinality(taken) \in Nat
         /\ budget.entries + Cardinality(taken) \in 0 .. MaxArchiveEntries
  <1> DEFINE n == Len(Entries[file])
  <1>1. n \in Nat /\ taken \in SUBSET (1 .. n) /\ DOMAIN listing = 1 .. n
    BY ListingFacts
  <1> HIDE DEF n
  <1>2. IsFiniteSet(taken) /\ Cardinality(taken) \in Nat
    <2>1. IsFiniteSet(1 .. n)
      BY <1>1, FS_Interval
    <2>2. IsFiniteSet(taken)
      BY <1>1, <2>1, FS_Subset
    <2> QED
      BY <2>2, FS_CardinalityType
  <1>3. budget.entries \in Nat /\ MaxArchiveEntries \in Nat
        /\ budget.entries <= MaxArchiveEntries
    BY PipelineAssumption
  <1>4. CASE taken = {}
    BY <1>2, <1>3, <1>4, FS_EmptySet
  <1>5. CASE taken # {}
    <2>1. PICK i \in taken : \A j \in taken : j <= i
      BY <1>1, <1>5, LargestExists
    <2> DEFINE earlier == {j \in taken : j < i}
    <2>2. earlier = taken \ {i}
      <3>1. ASSUME NEW j \in taken PROVE j < i <=> j # i
        <4>1. i \in 1 .. n /\ j \in 1 .. n /\ j <= i
          BY <1>1, <2>1
        <4> QED
          BY <1>1, <4>1
      <3> QED
        BY <3>1
    <2>3. Cardinality(earlier) = Cardinality(taken) - 1
      BY <1>2, <2>2, FS_RemoveElement
    <2>4. budget.entries + Cardinality(earlier) < MaxArchiveEntries
      BY <1>1, <2>1 DEF Takes, Fits
    <2> HIDE DEF earlier
    <2> QED
      BY <1>2, <1>3, <2>3, <2>4
  <1> QED
    BY <1>2, <1>4, <1>5

LEMMA MembersFit ==
  ASSUME NEW file \in File, NEW listing \in Listings(file),
         NEW taken \in SUBSET DOMAIN Entries[file], IsFiniteSet(taken)
  PROVE  LET members == {[entry |-> i, size |-> listing[i].size] : i \in taken}
             waiting == {<<file, e>> : e \in members}
         IN  /\ members \in SUBSET Items
             /\ \A e \in members : e.entry \in 1 .. Len(Entries[file])
             /\ IsFiniteSet(waiting) /\ Cardinality(waiting) <= Cardinality(taken)
  <1> DEFINE members == {[entry |-> i, size |-> listing[i].size] : i \in taken}
             waiting == {<<file, e>> : e \in members}
             g == [i \in taken |-> <<file, [entry |-> i, size |-> listing[i].size]>>]
  <1>1. /\ Len(Entries[file]) \in Nat
        /\ \A i \in taken : i \in 1 .. Len(Entries[file]) /\ listing[i].size \in Nat
    BY ListingFacts
  <1>2. members \in SUBSET Items /\ \A e \in members : e.entry \in 1 .. Len(Entries[file])
    BY <1>1 DEF Items
  <1>3. g \in Surjection(taken, waiting)
    <2>1. g \in [taken -> waiting]
      OBVIOUS
    <2>2. \A w \in waiting : \E i \in taken : g[i] = w
      OBVIOUS
    <2> HIDE DEF g, waiting
    <2> QED
      BY <2>1, <2>2 DEF Surjection
  <1>4. IsFiniteSet(waiting) /\ Cardinality(waiting) <= Cardinality(taken)
    <2> HIDE DEF g, waiting
    <2> QED
      BY <1>3, FS_Surjection
  <1> QED
    BY <1>2, <1>4

(* What is waiting, when one file has other entries. *)
LEMMA PendingGrows ==
  ASSUME todo \in [File -> SUBSET Items], IsFiniteSet(Pending), NEW file \in File,
         NEW members \in SUBSET Items, todo' = [todo EXCEPT ![file] = members],
         NEW n \in Nat, IsFiniteSet({<<file, e>> : e \in members}),
         Cardinality({<<file, e>> : e \in members}) <= n
  PROVE  /\ IsFiniteSet(Pending')
         /\ Cardinality(Pending) \in Nat /\ Cardinality(Pending') \in Nat
         /\ Cardinality(Pending') <= Cardinality(Pending) + n
  <1> DEFINE waiting == {<<file, e>> : e \in members}
  <1>1. Pending' \subseteq Pending \cup waiting
    BY DEF Pending
  <1> HIDE DEF waiting
  <1>2. IsFiniteSet(waiting) /\ Cardinality(waiting) <= n /\ Cardinality(waiting) \in Nat
    BY FS_CardinalityType DEF waiting
  <1>3. /\ IsFiniteSet(Pending \cup waiting) /\ IsFiniteSet(Pending \cap waiting)
        /\ Cardinality(Pending \cup waiting) =
             Cardinality(Pending) + Cardinality(waiting) - Cardinality(Pending \cap waiting)
    BY <1>2, FS_Union, FS_Subset
  <1>4. /\ Cardinality(Pending) \in Nat /\ Cardinality(Pending \cap waiting) \in Nat
        /\ Cardinality(Pending \cup waiting) \in Nat
    BY <1>3, FS_CardinalityType
  <1>5. /\ IsFiniteSet(Pending') /\ Cardinality(Pending') <= Cardinality(Pending \cup waiting)
        /\ Cardinality(Pending') \in Nat
    BY <1>1, <1>3, FS_Subset, FS_CardinalityType
  <1> QED
    BY <1>2, <1>3, <1>4, <1>5

-----------------------------------------------------------------------------
(* What one write to the context of a file may do: it takes back no mark and no
   finding, and what it leaves out it marks. *)

KeepsMarks(file) ==
  /\ ctx' \in [File -> Contexts]
  /\ \A f \in File \ {file} : ctx'[f] = ctx[f]
  /\ ctx[file].encrypted => ctx'[file].encrypted
  /\ ctx'[file].supported => ctx[file].supported
  /\ ctx[file].failed \subseteq ctx'[file].failed
  /\ ctx[file].findings \subseteq ctx'[file].findings

MissesMarked(file) ==
  \/ ghost' = ghost
  \/ Marked(ctx'[file]) /\ \E why \in {"entry", "content", "stage"} : ghost' = Miss(why)

Unmarked(file) ==
  /\ ctx'[file].encrypted = ctx[file].encrypted
  /\ ctx'[file].supported = ctx[file].supported
  /\ ghost' = ghost

TodoTypes ==
  /\ todo \in [File -> SUBSET Items]
  /\ \A f \in File : \A e \in todo[f] : e.entry \in 1 .. Len(Entries[f])

BudgetTypes ==
  budget \in [made : BOOLEAN, declared : {budget.declared}, unpacked : Nat,
              entries : 0 .. MaxArchiveEntries, expired : BOOLEAN]

(* What is added to what is waiting comes off the budget of the tree. *)
IsBooked ==
  /\ BudgetTypes' /\ budget'.unpacked = budget.unpacked
  /\ IsFiniteSet(Pending') /\ Cardinality(Pending) \in Nat /\ Cardinality(Pending') \in Nat
  /\ Cardinality(Pending') + budget.entries <= Cardinality(Pending) + budget'.entries

Wrote(file) ==
  /\ KeepsMarks(file) /\ ctx'[file].failed = ctx[file].failed
  /\ MissesMarked(file)
  /\ TodoTypes' /\ IsBooked

LEMMA SameTodo ==
  ASSUME TodoTypes, BudgetTypes, IsFiniteSet(Pending), todo' = todo,
         budget' = budget \/ budget' = [budget EXCEPT !.made = TRUE]
  PROVE  TodoTypes' /\ IsBooked
  <1>1. Pending' = Pending
    BY DEF Pending
  <1>2. Cardinality(Pending) \in Nat
    BY FS_CardinalityType
  <1>3. /\ BudgetTypes' /\ budget'.unpacked = budget.unpacked
        /\ budget'.entries = budget.entries
    BY DEF BudgetTypes
  <1>6. budget.entries \in Nat
    BY PipelineAssumption DEF BudgetTypes
  <1>4. TodoTypes'
    BY DEF TodoTypes
  <1>5. Cardinality(Pending') + budget.entries <= Cardinality(Pending) + budget'.entries
    BY <1>1, <1>2, <1>3, <1>6
  <1> QED
    BY <1>1, <1>2, <1>3, <1>4, <1>5 DEF IsBooked

LEMMA ToldKeepsMarks ==
  ASSUME ctx \in [File -> Contexts], NEW file \in File, NEW findings \in FindingSets,
         NEW encrypted \in BOOLEAN, NEW supported \in BOOLEAN,
         ctx[file].encrypted => encrypted, supported => ctx[file].supported,
         ctx[file].findings \subseteq findings, ctx' = Told(file, findings, encrypted, supported)
  PROVE  /\ KeepsMarks(file) /\ ctx'[file].failed = ctx[file].failed
         /\ ctx'[file].encrypted = encrypted /\ ctx'[file].supported = supported
  <1> DEFINE own == [ctx[file] EXCEPT !.findings = findings, !.encrypted = encrypted,
                                      !.supported = supported]
  <1>1. /\ own \in Contexts /\ own.failed = ctx[file].failed
        /\ own.encrypted = encrypted /\ own.supported = supported
        /\ own.findings = findings
    BY ContextFields DEF Contexts
  <1>2. ctx' = [ctx EXCEPT ![file] = own]
    BY DEF Told
  <1> HIDE DEF own
  <1>3. ctx'[file] = own /\ ctx' \in [File -> Contexts] /\ \A f \in File \ {file} : ctx'[f] = ctx[f]
    BY <1>1, <1>2
  <1> QED
    BY <1>1, <1>3 DEF KeepsMarks

LEMMA ReportWrites ==
  ASSUME FileTypes, BudgetTypes, IsFiniteSet(Pending), NEW file \in File,
         NEW stage \in StageNames, NEW report \in Reports[file][stage],
         WriteReport(file, stage, report)
  PROVE  Wrote(file) /\ (stage = "yara" => Unmarked(file))
  <1> DEFINE findings == AddAll(ctx[file].findings, stage, report.codes)
             encrypted == ctx[file].encrypted \/ report.encrypted
             supported == ctx[file].supported /\ report.supported
  <1>1. /\ report.codes \in SUBSET DOMAIN DefaultWeights /\ IsFiniteSet(report.codes)
        /\ report.encrypted \in BOOLEAN /\ report.supported \in BOOLEAN
        /\ stage = "yara" => ~report.encrypted /\ report.supported
    BY PipelineAssumption
  <1>2. ctx \in [File -> Contexts]
    BY DEF FileTypes
  <1>3. ctx' = Told(file, findings, encrypted, supported)
    BY <1>2, ContextFields DEF WriteReport, Told, Contexts
  <1>4. /\ findings \in FindingSets /\ encrypted \in BOOLEAN /\ supported \in BOOLEAN
        /\ ctx[file].findings \subseteq findings
    <2>1. stage \in Tellers
      BY DEF Tellers
    <2>2. findings \in FindingSets /\ ctx[file].findings \subseteq findings
      BY <1>1, <1>2, <2>1, ContextFields, AddAllFits
    <2> QED
      BY <1>1, <1>2, <2>2, ContextFields
  <1>5. /\ KeepsMarks(file) /\ ctx'[file].failed = ctx[file].failed
        /\ ctx'[file].encrypted = encrypted /\ ctx'[file].supported = supported
    <2> HIDE DEF findings
    <2> QED
      BY <1>2, <1>3, <1>4, ToldKeepsMarks
  <1>6. MissesMarked(file)
    BY <1>5 DEF WriteReport, MissesMarked, Marked
  <1>7. stage = "yara" => Unmarked(file)
    BY <1>1, <1>2, <1>5, ContextFields DEF WriteReport, Unmarked
  <1>8. TodoTypes' /\ IsBooked
    BY SameTodo DEF WriteReport, FileTypes, TodoTypes
  <1> QED
    BY <1>5, <1>6, <1>7, <1>8 DEF Wrote

LEMMA BrokenWrites ==
  ASSUME FileTypes, BudgetTypes, IsFiniteSet(Pending), NEW file \in File, BrokenArchive(file)
  PROVE  Wrote(file)
  <1>1. PICK code \in {"ARCHIVE_MALFORMED", "ARCHIVE_INCOMPLETE"} :
          ctx' = [Note(file, "structure", code) EXCEPT ![file].supported = FALSE]
    BY DEF BrokenArchive
  <1> DEFINE findings == Add(ctx[file].findings, "structure", code, DefaultWeights)
  <1>2. ctx \in [File -> Contexts]
    BY DEF FileTypes
  <1>3. ctx' = Told(file, findings, ctx[file].encrypted, FALSE)
    BY <1>1, <1>2, NoteIsTold
  <1>4. findings \in FindingSets /\ ctx[file].findings \subseteq findings
    <2>1. code \in DOMAIN DefaultWeights
      BY TableFacts
    <2>2. ctx[file].findings \in FindingSets
      BY <1>2, ContextFields
    <2>3. "structure" \in Tellers
      BY StageFacts DEF Tellers
    <2> QED
      BY <2>1, <2>2, <2>3, AddFits
  <1>5. KeepsMarks(file) /\ ctx'[file].failed = ctx[file].failed /\ ~ctx'[file].supported
    <2> HIDE DEF findings
    <2> QED
      BY <1>2, <1>3, <1>4, ContextFields, ToldKeepsMarks
  <1>6. MissesMarked(file)
    BY <1>5 DEF BrokenArchive, MissesMarked, Marked
  <1>7. TodoTypes' /\ IsBooked
    BY SameTodo DEF BrokenArchive, FileTypes, TodoTypes
  <1> QED
    BY <1>5, <1>6, <1>7 DEF Wrote

LEMMA ProblemsFit ==
  ASSUME NEW listing
  PROVE  Problems(listing) \in SUBSET DOMAIN DefaultWeights /\ IsFiniteSet(Problems(listing))
  <1>1. /\ Problems(listing) \in SUBSET DOMAIN DefaultWeights
        /\ Problems(listing) \subseteq {"ARCHIVE_SYMLINK"} \cup {"ARCHIVE_ENCRYPTED"}
    BY TableFacts DEF Problems
  <1>2. IsFiniteSet({"ARCHIVE_SYMLINK"} \cup {"ARCHIVE_ENCRYPTED"})
    BY FS_Singleton, FS_AddElement
  <1> QED
    BY <1>1, <1>2, FS_Subset

LEMMA ListWrites ==
  ASSUME FileTypes, BudgetTypes, IsFiniteSet(Pending), NEW file \in File,
         NEW listing \in Listings(file), NEW taken \in SUBSET DOMAIN Entries[file],
         Takes(listing, taken), ListArchive(file, listing, taken)
  PROVE  Wrote(file)
  <1> DEFINE found == Inspect(file, listing, taken)
             codes == found.codes \cup (IF found.incomplete THEN {"ARCHIVE_INCOMPLETE"} ELSE {})
             findings == AddAll(ctx[file].findings, "structure", codes)
             encrypted == ctx[file].encrypted \/ found.encrypted
             supported == ctx[file].supported /\ ~found.incomplete
             members == {[entry |-> i, size |-> listing[i].size] : i \in taken}
  <1>1. /\ found.codes \in SUBSET DOMAIN DefaultWeights /\ IsFiniteSet(found.codes)
        /\ found.encrypted \in BOOLEAN /\ found.incomplete \in BOOLEAN
    <2>1. /\ found.codes \in SUBSET DOMAIN DefaultWeights
          /\ found.encrypted \in BOOLEAN /\ found.incomplete \in BOOLEAN
          /\ found.codes = Problems(listing) \/ found.codes = Problems(listing) \cup {"ARCHIVE_BOMB"}
      BY ProblemsFit, TableFacts DEF Inspect
    <2>2. IsFiniteSet(found.codes)
      BY <2>1, ProblemsFit, FS_AddElement
    <2> QED
      BY <2>1, <2>2
  <1>2. \/ found.members = {} /\ found.entries = budget.entries + 0
        \/ found.members = members /\ found.entries = budget.entries + Cardinality(taken)
    BY DEF Inspect
  <1>3. /\ ctx' = [ctx EXCEPT ![file].findings = findings, ![file].encrypted = encrypted,
                              ![file].supported = supported]
        /\ todo' = [todo EXCEPT ![file] = found.members]
        /\ budget' = [budget EXCEPT !.made = TRUE, !.declared = found.declared,
                                    !.entries = found.entries]
        /\ ghost' = IF found.incomplete \/ found.encrypted THEN Miss("entry") ELSE ghost
    BY DEF ListArchive
  <1> HIDE DEF found
  <1>4. ctx \in [File -> Contexts]
    BY DEF FileTypes
  <1>5. /\ findings \in FindingSets /\ encrypted \in BOOLEAN /\ supported \in BOOLEAN
        /\ ctx[file].findings \subseteq findings
    <2>1. codes \in SUBSET DOMAIN DefaultWeights /\ IsFiniteSet(codes)
      <3>1. codes = found.codes \/ codes = found.codes \cup {"ARCHIVE_INCOMPLETE"}
        OBVIOUS
      <3> HIDE DEF codes
      <3> QED
        BY <1>1, <3>1, TableFacts, FS_AddElement, SMTT(30)
    <2> HIDE DEF codes
    <2>2. ctx[file].findings \in FindingSets
      BY <1>4, ContextFields
    <2>3. findings \in FindingSets /\ ctx[file].findings \subseteq findings
      <3>1. "structure" \in Tellers
        BY StageFacts DEF Tellers
      <3> QED
        BY <2>1, <2>2, <3>1, AddAllFits
    <2> QED
      BY <1>1, <1>4, <2>3, ContextFields
  <1> HIDE DEF codes
  <1>6. /\ KeepsMarks(file) /\ ctx'[file].failed = ctx[file].failed
        /\ ctx'[file].encrypted = encrypted /\ ctx'[file].supported = supported
    <2>1. ctx' = Told(file, findings, encrypted, supported)
      BY <1>3, <1>4, ContextFields DEF Told, Contexts
    <2> HIDE DEF findings
    <2> QED
      BY <1>4, <1>5, <2>1, ToldKeepsMarks
  <1>7. MissesMarked(file)
    BY <1>3, <1>6 DEF MissesMarked, Marked
  <1>8. TodoTypes' /\ IsBooked
    <2>1. /\ IsFiniteSet(taken) /\ Cardinality(taken) \in Nat
          /\ budget.entries + Cardinality(taken) \in 0 .. MaxArchiveEntries
          /\ budget.entries \in 0 .. MaxArchiveEntries
      BY TakenFits DEF BudgetTypes
    <2>2. budget.entries \in Nat /\ MaxArchiveEntries \in Nat
      BY <2>1, PipelineAssumption
    <2>3. /\ members \in SUBSET Items
          /\ \A e \in members : e.entry \in 1 .. Len(Entries[file])
          /\ IsFiniteSet({<<file, e>> : e \in members})
          /\ Cardinality({<<file, e>> : e \in members}) <= Cardinality(taken)
      BY <2>1, MembersFit
    <2>4. PICK n \in Nat : /\ found.entries = budget.entries + n
                           /\ found.entries \in 0 .. MaxArchiveEntries
                           /\ IsFiniteSet({<<file, e>> : e \in found.members})
                           /\ Cardinality({<<file, e>> : e \in found.members}) <= n
                           /\ found.members \in SUBSET Items
                           /\ \A e \in found.members : e.entry \in 1 .. Len(Entries[file])
      <3> HIDE DEF members
      <3>1. CASE found.members = {} /\ found.entries = budget.entries + 0
        <4>1. {<<file, e>> : e \in found.members} = {}
          BY <3>1
        <4>2. found.entries = budget.entries + 0 /\ found.entries \in 0 .. MaxArchiveEntries
          BY <2>1, <2>2, <3>1
        <4>3. /\ IsFiniteSet({<<file, e>> : e \in found.members})
              /\ Cardinality({<<file, e>> : e \in found.members}) <= 0
          BY <4>1, FS_EmptySet
        <4>4. 0 \in Nat /\ found.members \in SUBSET Items
              /\ \A e \in found.members : e.entry \in 1 .. Len(Entries[file])
          BY <3>1
        <4> QED
          BY <4>2, <4>3, <4>4
      <3>2. CASE found.members = members
                 /\ found.entries = budget.entries + Cardinality(taken)
        BY <2>1, <2>3, <3>2
      <3> QED
        BY <1>2, <3>1, <3>2
    <2>5. BudgetTypes' /\ budget'.unpacked = budget.unpacked /\ budget'.entries = found.entries
      BY <1>3, <2>4 DEF BudgetTypes
    <2>6. TodoTypes'
      BY <1>3, <2>4 DEF TodoTypes, FileTypes
    <2>7. /\ IsFiniteSet(Pending')
          /\ Cardinality(Pending) \in Nat /\ Cardinality(Pending') \in Nat
          /\ Cardinality(Pending') <= Cardinality(Pending) + n
      BY <1>3, <2>4, PendingGrows DEF FileTypes
    <2>8. Cardinality(Pending') + budget.entries <= Cardinality(Pending) + budget'.entries
      BY <2>2, <2>4, <2>5, <2>7
    <2> QED
      BY <2>5, <2>6, <2>7, <2>8 DEF IsBooked
  <1> QED
    BY <1>6, <1>7, <1>8 DEF Wrote

LEMMA StageWrote ==
  ASSUME FileTypes, BudgetTypes, IsFiniteSet(Pending), NEW file \in File,
         NEW stage \in StageNames, StageWrites(file, stage)
  PROVE  Wrote(file) /\ (stage = "yara" => Unmarked(file))
  <1>1. CASE stage = "structure" /\ Entries[file] # <<>>
    BY <1>1, ListWrites, BrokenWrites DEF StageWrites
  <1>2. CASE ~(stage = "structure" /\ Entries[file] # <<>>)
    BY <1>2, ReportWrites DEF StageWrites
  <1> QED
    BY <1>1, <1>2

LEMMA FailingKeepsMarks ==
  ASSUME ctx \in [File -> Contexts], NEW file \in File, NEW findings \in FindingSets,
         NEW stage \in StageNames, ctx[file].findings \subseteq findings,
         ctx' = Failing(file, findings, stage)
  PROVE  KeepsMarks(file) /\ ctx'[file].failed = ctx[file].failed \cup {stage}
  <1> DEFINE own == [ctx[file] EXCEPT !.findings = findings,
                                      !.failed = ctx[file].failed \cup {stage}]
  <1>1. /\ own \in Contexts /\ own.failed = ctx[file].failed \cup {stage}
        /\ own.encrypted = ctx[file].encrypted /\ own.supported = ctx[file].supported
        /\ own.findings = findings
    BY ContextFields DEF Contexts
  <1>2. ctx' = [ctx EXCEPT ![file] = own]
    BY DEF Failing
  <1> HIDE DEF own
  <1>3. ctx'[file] = own /\ ctx' \in [File -> Contexts] /\ \A f \in File \ {file} : ctx'[f] = ctx[f]
    BY <1>1, <1>2
  <1> QED
    BY <1>1, <1>3 DEF KeepsMarks

(* What the pipeline itself says of a file: a note, or that it is not checked. *)
LEMMA NoteKeepsMarks ==
  ASSUME ctx \in [File -> Contexts], NEW file \in File, NEW stage \in Tellers,
         NEW code \in DOMAIN DefaultWeights
  PROVE  /\ ctx' = Note(file, stage, code) =>
              /\ KeepsMarks(file) /\ ctx'[file].failed = ctx[file].failed
              /\ ctx'[file].encrypted = ctx[file].encrypted
              /\ ctx'[file].supported = ctx[file].supported
         /\ ctx' = [Note(file, stage, code) EXCEPT ![file].supported = FALSE] =>
              /\ KeepsMarks(file) /\ ctx'[file].failed = ctx[file].failed
              /\ Marked(ctx'[file])
         /\ stage \in StageNames
              /\ ctx' = [Note(file, stage, code) EXCEPT ![file].failed = @ \cup {stage}] =>
              /\ KeepsMarks(file) /\ ctx'[file].failed = ctx[file].failed \cup {stage}
              /\ stage \in EssentialStages => Marked(ctx'[file])
  <1> DEFINE findings == Add(ctx[file].findings, stage, code, DefaultWeights)
  <1>1. /\ Note(file, stage, code) =
             Told(file, findings, ctx[file].encrypted, ctx[file].supported)
        /\ [Note(file, stage, code) EXCEPT ![file].supported = FALSE] =
             Told(file, findings, ctx[file].encrypted, FALSE)
        /\ [Note(file, stage, code) EXCEPT ![file].failed = @ \cup {stage}] =
             Failing(file, findings, stage)
    BY NoteIsTold
  <1>2. ctx[file].encrypted \in BOOLEAN /\ ctx[file].supported \in BOOLEAN
    BY ContextFields
  <1>3. findings \in FindingSets /\ ctx[file].findings \subseteq findings
    <2>1. ctx[file].findings \in FindingSets
      BY ContextFields
    <2> QED
      BY <2>1, AddFits
  <1> HIDE DEF findings
  <1>4. ASSUME ctx' = Note(file, stage, code)
        PROVE  /\ KeepsMarks(file) /\ ctx'[file].failed = ctx[file].failed
               /\ ctx'[file].encrypted = ctx[file].encrypted
               /\ ctx'[file].supported = ctx[file].supported
    <2>1. ctx' = Told(file, findings, ctx[file].encrypted, ctx[file].supported)
      BY <1>1, <1>4
    <2> QED
      BY <1>2, <1>3, <2>1, ToldKeepsMarks
  <1>5. ASSUME ctx' = [Note(file, stage, code) EXCEPT ![file].supported = FALSE]
        PROVE  /\ KeepsMarks(file) /\ ctx'[file].failed = ctx[file].failed
               /\ Marked(ctx'[file])
    <2>1. ctx' = Told(file, findings, ctx[file].encrypted, FALSE)
      BY <1>1, <1>5
    <2>2. /\ KeepsMarks(file) /\ ctx'[file].failed = ctx[file].failed
          /\ ~ctx'[file].supported
      BY <1>2, <1>3, <2>1, ToldKeepsMarks
    <2> QED
      BY <2>2 DEF Marked
  <1>6. ASSUME stage \in StageNames,
               ctx' = [Note(file, stage, code) EXCEPT ![file].failed = @ \cup {stage}]
        PROVE  /\ KeepsMarks(file) /\ ctx'[file].failed = ctx[file].failed \cup {stage}
               /\ stage \in EssentialStages => Marked(ctx'[file])
    <2>1. ctx' = Failing(file, findings, stage)
      BY <1>1, <1>6
    <2>2. KeepsMarks(file) /\ ctx'[file].failed = ctx[file].failed \cup {stage}
      BY <1>3, <1>6, <2>1, FailingKeepsMarks
    <2> QED
      BY <2>2 DEF Marked
  <1> QED
    BY <1>4, <1>5, <1>6

-----------------------------------------------------------------------------
(* The path, and the entry that is next *)

LEMMA CurrentFacts ==
  ASSUME PathIsNested
  PROVE  /\ Len(path) \in Nat \ {0} /\ Current \in File /\ Current \in OnPath
         /\ Depth[Current] = Len(path) - 1
         /\ path = [i \in 1 .. Len(path) |-> path[i]]
         /\ Upload \in OnPath /\ OnPath \subseteq File
         /\ OnPath = ToSet(path)
  <1>1. /\ path \in Seq(File) /\ Len(path) \in Nat \ {0}
        /\ DOMAIN path = 1 .. Len(path) /\ \A i \in 1 .. Len(path) : path[i] \in File
        /\ path = [i \in 1 .. Len(path) |-> path[i]]
    <2>1. path \in Seq(File) /\ Len(path) \in Nat \ {0}
      BY DEF PathIsNested
    <2> QED
      BY <2>1, LenProperties, ElementOfSeq
  <1>2. Len(path) \in 1 .. Len(path) /\ 1 \in 1 .. Len(path)
    BY <1>1
  <1>3. Current \in File /\ Current \in OnPath /\ Depth[Current] = Len(path) - 1
    BY <1>1, <1>2 DEF PathIsNested, Current, OnPath
  <1>4. Upload \in OnPath /\ OnPath \subseteq File
    BY <1>1, <1>2 DEF PathIsNested, OnPath
  <1>5. OnPath = ToSet(path)
    BY <1>1 DEF OnPath, ToSet
  <1> QED
    BY <1>1, <1>3, <1>4, <1>5

LEMMA EntryFacts ==
  ASSUME PathIsNested, FileTypes, todo[Current] # {}
  PROVE  /\ Entry \in todo[Current] /\ Entry \in Items
         /\ Member \in File /\ Depth[Member] = Len(path)
         /\ Member \notin OnPath /\ Member # Current /\ Member # Upload
  <1>1. Current \in File /\ Depth[Current] = Len(path) - 1 /\ Len(path) \in Nat \ {0}
    BY CurrentFacts
  <1>2. todo[Current] \in SUBSET Items
        /\ \A e \in todo[Current] : e.entry \in 1 .. Len(Entries[Current])
    BY <1>1 DEF FileTypes
  <1>3. PICK x \in {e.entry : e \in todo[Current]} :
          \A y \in {e.entry : e \in todo[Current]} : x <= y
    <2>1. {e.entry : e \in todo[Current]} \in SUBSET Nat
      BY <1>2 DEF Items
    <2>2. {e.entry : e \in todo[Current]} # {}
      OBVIOUS
    <2> QED
      BY <2>1, <2>2, SmallestExists
  <1>4. \E e \in todo[Current] : \A other \in todo[Current] : e.entry <= other.entry
    BY <1>3
  <1>5. Entry \in todo[Current]
    BY <1>4 DEF Entry
  <1>6. Entry \in Items /\ Entry.entry \in 1 .. Len(Entries[Current])
    BY <1>2, <1>5
  <1>7. Entries[Current] \in Seq(File)
    BY <1>1, PipelineAssumption
  <1>8. Member \in ToSet(Entries[Current]) /\ Member \in File
    <2>1. DOMAIN Entries[Current] = 1 .. Len(Entries[Current])
      BY <1>7, LenProperties
    <2>2. Member \in File
      BY <1>6, <1>7, ElementOfSeq DEF Member
    <2> QED
      BY <1>6, <2>1, <2>2 DEF ToSet, Member
  <1>9. Depth[Member] = Len(path)
    <2>1. Depth[Member] = Depth[Current] + 1
      BY <1>1, <1>8, PipelineAssumption
    <2> QED
      BY <1>1, <2>1
  <1>10. Member \notin OnPath
    <2>1. ASSUME NEW i \in 1 .. Len(path), path[i] = Member PROVE FALSE
      <3>1. Depth[Member] = i - 1
        BY <2>1 DEF PathIsNested
      <3> QED
        BY <1>1, <1>9, <3>1
    <2> QED
      BY <2>1 DEF OnPath
  <1>11. Member # Current /\ Member # Upload
    BY <1>10, CurrentFacts
  <1> QED
    BY <1>5, <1>6, <1>8, <1>9, <1>10, <1>11

(* The way into a member and out of it. *)
LEMMA PathMoves ==
  ASSUME PathIsNested
  PROVE  /\ Extract /\ FileTypes =>
              /\ path' \in Seq(File) /\ Len(path') = Len(path) + 1
              /\ \A i \in 1 .. Len(path) : path'[i] = path[i]
              /\ path'[Len(path) + 1] = Member
         /\ LeaveMember =>
              /\ path' \in Seq(File) /\ Len(path') = Len(path) - 1 /\ Len(path) > 1
              /\ \A i \in 1 .. Len(path) - 1 : path'[i] = path[i]
              /\ path[Len(path) - 1] = Container
  <1>1. path \in Seq(File) /\ Len(path) \in Nat \ {0}
        /\ \A i \in 1 .. Len(path) : path[i] \in File
    BY CurrentFacts, ElementOfSeq DEF PathIsNested
  <1>2. ASSUME Extract, FileTypes
        PROVE  /\ path' \in Seq(File) /\ Len(path') = Len(path) + 1
               /\ \A i \in 1 .. Len(path) : path'[i] = path[i]
               /\ path'[Len(path) + 1] = Member
    <2>1. Member \in File /\ path' = Append(path, Member)
      BY <1>2, EntryFacts DEF Extract, Unpacking
    <2> QED
      BY <1>1, <2>1, AppendProperties
  <1>3. ASSUME LeaveMember
        PROVE  /\ path' \in Seq(File) /\ Len(path') = Len(path) - 1 /\ Len(path) > 1
               /\ \A i \in 1 .. Len(path) - 1 : path'[i] = path[i]
               /\ path[Len(path) - 1] = Container
    <2> DEFINE n == Len(path) - 1
    <2>1. Len(path) > 1 /\ path' = SubSeq(path, 1, n)
      BY <1>3 DEF LeaveMember, Front
    <2>2. n \in Int /\ 1 \in Int /\ 1 <= n /\ n - 1 + 1 = n
          /\ \A i \in 1 .. n : path[i] \in File
      BY <1>1, <2>1
    <2>3. /\ path' \in Seq(File) /\ Len(path') = n
          /\ \A i \in 1 .. n : path'[i] = path[i]
      <3> HIDE DEF n
      <3>1. /\ SubSeq(path, 1, n) \in Seq(File)
            /\ Len(SubSeq(path, 1, n)) = n - 1 + 1
            /\ \A i \in 1 .. n - 1 + 1 : SubSeq(path, 1, n)[i] = path[1 + i - 1]
        BY <2>2, SubSeqProperties
      <3>2. \A i \in 1 .. n : 1 + i - 1 = i
        BY <2>2
      <3> QED
        BY <2>1, <2>2, <3>1, <3>2
    <2> QED
      BY <2>1, <2>3 DEF Container
  <1> QED
    BY <1>2, <1>3

(* The steps by what they change. *)
Arrives == Expand \/ NothingToExpand \/ AllMembers \/ StopMembers
GivesUp == OutOfTime \/ Overflow \/ Unreadable
Decides == Decide \/ Allowlist \/ Rebuild \/ Publish

LEMMA StepKinds ==
  ASSUME PipelineNext
  PROVE  \/ \E s \in StageNames : StageSucceeds(s)
         \/ \E s \in StageNames : StageRaises(s) \/ StageTimesOut(s)
         \/ \E f \in File, s \in StageNames : LateWrite(f, s)
         \/ \E f \in File : LateSpend(f)
         \/ Arrives \/ GivesUp \/ Extract \/ LeaveMember
         \/ Decides \/ RebuildFails \/ Deadline
  BY DEF PipelineNext, PipelineStep, Arrives, GivesUp, Decides

LEMMA PathIsNestedNext ==
  ASSUME PathIsNested, FileTypes, PipelineNext
  PROVE  PathIsNested'
  <1>1. Len(path) \in Nat \ {0} /\ path[1] = Upload
        /\ \A i \in 1 .. Len(path) : Depth[path[i]] = i - 1
    BY DEF PathIsNested
  <1>2. CASE Extract
    <2>1. /\ path' \in Seq(File) /\ Len(path') = Len(path) + 1
          /\ \A i \in 1 .. Len(path) : path'[i] = path[i]
          /\ path'[Len(path) + 1] = Member
      BY <1>2, PathMoves
    <2>2. Depth[Member] = Len(path)
      BY <1>2, EntryFacts DEF Extract, Unpacking
    <2>3. ASSUME NEW i \in 1 .. Len(path') PROVE Depth[path'[i]] = i - 1
      <3>1. CASE i \in 1 .. Len(path)
        BY <1>1, <2>1, <3>1
      <3>2. CASE i \notin 1 .. Len(path)
        <4>1. i = Len(path) + 1
          BY <1>1, <2>1, <3>2
        <4> QED
          BY <1>1, <2>1, <2>2, <4>1
      <3> QED
        BY <3>1, <3>2
    <2>4. path'[1] = Upload /\ Len(path') \in Nat \ {0}
      BY <1>1, <2>1
    <2> QED
      BY <2>1, <2>3, <2>4 DEF PathIsNested
  <1>3. CASE LeaveMember
    <2>1. /\ path' \in Seq(File) /\ Len(path') = Len(path) - 1 /\ Len(path) > 1
          /\ \A i \in 1 .. Len(path) - 1 : path'[i] = path[i]
      BY <1>3, PathMoves
    <2>2. \A i \in 1 .. Len(path') : i \in 1 .. Len(path) - 1 /\ i \in 1 .. Len(path)
      BY <1>1, <2>1
    <2>3. path'[1] = Upload /\ Len(path') \in Nat \ {0}
      BY <1>1, <2>1
    <2> QED
      BY <1>1, <2>1, <2>2, <2>3 DEF PathIsNested
  <1>4. CASE path' = path
    BY <1>4 DEF PathIsNested
  <1>5. path' = path \/ Extract \/ LeaveMember
    BY StepKinds DEF StageSucceeds, StageRaises, StageTimesOut, LateWrite, LateSpend,
      Arrives, Expand, NothingToExpand, AllMembers, StopMembers,
      GivesUp, OutOfTime, Overflow, Unreadable,
      Decides, Decide, Allowlist, Rebuild, Publish, RebuildFails, Deadline
  <1> QED
    BY <1>2, <1>3, <1>4, <1>5

(* A stage that fails marks its file, if it is one of those without which the
   file was not checked. *)
LEMMA FaultMarks ==
  ASSUME PathIsNested, FileTypes, NEW s \in StageNames, StageRaises(s) \/ StageTimesOut(s)
  PROVE  /\ KeepsMarks(Current) /\ ctx'[Current].failed = ctx[Current].failed \cup {s}
         /\ MissesMarked(Current)
  <1>1. ctx \in [File -> Contexts] /\ Current \in File /\ s \in Tellers
    BY CurrentFacts DEF FileTypes, Tellers
  <1>2. PICK code \in {"STAGE_FAILED", "STAGE_TIMEOUT"} :
          ctx' = [Note(Current, s, code) EXCEPT ![Current].failed = @ \cup {s}]
    BY DEF StageRaises, StageTimesOut
  <1>3. code \in DOMAIN DefaultWeights
    BY TableFacts
  <1>4. /\ KeepsMarks(Current) /\ ctx'[Current].failed = ctx[Current].failed \cup {s}
        /\ s \in EssentialStages => Marked(ctx'[Current])
    BY <1>1, <1>2, <1>3, NoteKeepsMarks
  <1>5. ghost' = ghost \/ (s \in EssentialStages /\ ghost' = Miss("stage"))
    BY DEF StageRaises, StageTimesOut, EssentialStages
  <1> QED
    BY <1>4, <1>5 DEF MissesMarked

LEMMA GivingUpMarks ==
  ASSUME PathIsNested, FileTypes, GivesUp
  PROVE  /\ KeepsMarks(Current) /\ ctx'[Current].failed = ctx[Current].failed
         /\ MissesMarked(Current)
  <1>1. ctx \in [File -> Contexts] /\ Current \in File /\ "archive" \in Tellers
    BY CurrentFacts DEF FileTypes, Tellers
  <1>2. PICK code \in {"ARCHIVE_INCOMPLETE", "ARCHIVE_MALFORMED"} :
          ctx' = [Note(Current, "archive", code) EXCEPT ![Current].supported = FALSE]
    BY DEF GivesUp, OutOfTime, Overflow, Unreadable, MarkIncomplete
  <1>3. code \in DOMAIN DefaultWeights
    BY TableFacts
  <1>4. /\ KeepsMarks(Current) /\ ctx'[Current].failed = ctx[Current].failed
        /\ Marked(ctx'[Current])
    BY <1>1, <1>2, <1>3, NoteKeepsMarks
  <1>5. ghost' = Miss("entry")
    BY DEF GivesUp, OutOfTime, Overflow, Unreadable
  <1> QED
    BY <1>4, <1>5 DEF MissesMarked

LEMMA LateWriteMarks ==
  ASSUME PathIsNested, FileTypes, BudgetTypes, IsFiniteSet(Pending),
         NEW f \in File, NEW s \in StageNames, LateWrite(f, s)
  PROVE  /\ f \in OnPath /\ Wrote(f)
         /\ StageWrites(f, s) \/ Unmarked(f)
         /\ s = "yara" => Unmarked(f)
  <1>1. f \in OnPath
    BY CurrentFacts DEF LateWrite
  <1>2. CASE StageWrites(f, s)
    BY <1>1, <1>2, StageWrote
  <1>3. CASE /\ ctx' = Note(f, s, "STAGE_FAILED")
             /\ UNCHANGED <<todo, budget, ghost>>
    <2>1. ctx \in [File -> Contexts] /\ s \in Tellers
          /\ "STAGE_FAILED" \in DOMAIN DefaultWeights
      BY TableFacts DEF FileTypes, Tellers
    <2>2. /\ KeepsMarks(f) /\ ctx'[f].failed = ctx[f].failed
          /\ ctx'[f].encrypted = ctx[f].encrypted
          /\ ctx'[f].supported = ctx[f].supported
      BY <1>3, <2>1, NoteKeepsMarks
    <2>3. MissesMarked(f) /\ Unmarked(f)
      BY <1>3, <2>2 DEF MissesMarked, Unmarked
    <2>4. TodoTypes' /\ IsBooked
      BY <1>3, SameTodo DEF FileTypes, TodoTypes
    <2> QED
      BY <1>1, <2>2, <2>3, <2>4 DEF Wrote
  <1> QED
    BY <1>2, <1>3 DEF LateWrite

LEMMA RebuildFailsMarks ==
  ASSUME FileTypes, RebuildFails
  PROVE  /\ KeepsMarks(Upload) /\ ctx'[Upload].failed = ctx[Upload].failed
         /\ Unmarked(Upload)
  <1>1. ctx \in [File -> Contexts] /\ Upload \in File /\ "cdr" \in Tellers
        /\ "CDR_FAILED" \in DOMAIN DefaultWeights
    BY PipelineAssumption, TableFacts DEF FileTypes, Tellers
  <1>2. ctx' = Note(Upload, "cdr", "CDR_FAILED") /\ ghost' = ghost
    BY DEF RebuildFails
  <1> QED
    BY <1>1, <1>2, NoteKeepsMarks DEF Unmarked

(* Into a member, which has a new context; out of it, when the archive takes
   over what was found and what could not be checked. *)
LEMMA ExtractFacts ==
  ASSUME PathIsNested, FileTypes, Extract
  PROVE  /\ Member \in File /\ Member \notin OnPath /\ Member # Upload
         /\ OnPath \subseteq OnPath'
         /\ ctx' \in [File -> Contexts]
         /\ \A f \in File \ {Member} : ctx'[f] = ctx[f]
  <1>1. Member \in File /\ Member \notin OnPath /\ Member # Upload
    BY EntryFacts DEF Extract, Unpacking
  <1>2. OnPath \subseteq OnPath'
    <2>1. Len(path) \in Nat \ {0} /\ Len(path') = Len(path) + 1
          /\ \A i \in 1 .. Len(path) : path'[i] = path[i]
      BY CurrentFacts, PathMoves
    <2>2. \A i \in 1 .. Len(path) : i \in 1 .. Len(path')
      BY <2>1
    <2> QED
      BY <2>1, <2>2, SMTT(30) DEF OnPath
  <1>3. NewContext \in Contexts
    BY NewContextFits
  <1>4. ctx \in [File -> Contexts] /\ ctx' = [ctx EXCEPT ![Member] = NewContext]
    BY DEF FileTypes, Extract
  <1> QED
    BY <1>1, <1>2, <1>3, <1>4

LEMMA AdoptFits ==
  ASSUME NEW own \in Contexts, NEW child \in Contexts
  PROVE  /\ Adopt(own, child) \in Contexts
         /\ own.failed \subseteq Adopt(own, child).failed
         /\ Marked(own) \/ Marked(child) => Marked(Adopt(own, child))
  <1>1. Join(own.findings, child.findings) \in FindingSets
    BY JoinFits DEF Contexts
  <1>2. Adopt(own, child) \in Contexts
    BY <1>1 DEF Adopt, Contexts
  <1>3. own.failed \subseteq Adopt(own, child).failed
    BY DEF Adopt
  <1>4. Marked(own) \/ Marked(child) => Marked(Adopt(own, child))
    BY DEF Adopt, Marked
  <1> QED
    BY <1>2, <1>3, <1>4

LEMMA LeaveFacts ==
  ASSUME PathIsNested, FileTypes, LeaveMember
  PROVE  /\ Current \in File /\ Current # Upload /\ Current \notin OnPath'
         /\ Container \in File /\ Container \in OnPath' /\ Container # Current
         /\ OnPath = OnPath' \cup {Current}
         /\ ctx' \in [File -> Contexts]
         /\ \A f \in File \ {Current, Container} : ctx'[f] = ctx[f]
         /\ ctx'[Container] = Adopt(ctx[Container], ctx[Current])
  <1> DEFINE n == Len(path)
  <1>1. /\ Current \in File /\ Current \in OnPath /\ Depth[Current] = n - 1
        /\ n \in Nat \ {0} /\ n > 1 /\ Len(path') = n - 1
        /\ \A i \in 1 .. n - 1 : path'[i] = path[i]
        /\ path[n - 1] = Container /\ path[n] = Current
        /\ \A i \in 1 .. n : Depth[path[i]] = i - 1 /\ path[i] \in File
    <2>1. \A i \in 1 .. n : Depth[path[i]] = i - 1 /\ path[i] \in File
      BY CurrentFacts, ElementOfSeq DEF PathIsNested
    <2> QED
      BY <2>1, CurrentFacts, PathMoves DEF Current
  <1> HIDE DEF n
  <1>2. \A i \in 1 .. n - 1 : i \in 1 .. n /\ Depth[path[i]] # n - 1
    BY <1>1
  <1>3. OnPath' = {path[i] : i \in 1 .. n - 1}
    BY <1>1 DEF OnPath
  <1>4. Current \notin OnPath'
    BY <1>1, <1>2, <1>3
  <1>5. n - 1 \in 1 .. n - 1
    BY <1>1
  <1>6. Container \in OnPath' /\ Container \in File /\ Container # Current
    BY <1>1, <1>2, <1>3, <1>4, <1>5
  <1>7. OnPath = OnPath' \cup {Current}
    <2>1. ASSUME NEW i \in 1 .. n PROVE i \in 1 .. n - 1 \/ i = n
      BY <1>1, <2>1
    <2>2. n \in 1 .. n
      BY <1>1
    <2> QED
      BY <1>1, <1>2, <1>3, <2>1, <2>2, ZenonT(40) DEF OnPath, n
  <1>8. Current # Upload
    BY <1>1, PipelineAssumption
  <1>9. Forget(Current) \in [File -> Contexts]
        /\ \A f \in File \ {Current} : Forget(Current)[f] = ctx[f]
    <2>1. NewContext \in Contexts /\ ctx \in [File -> Contexts]
      BY NewContextFits DEF FileTypes
    <2> QED
      BY <1>1, <2>1 DEF Forget
  <1>10. ctx' = [Forget(Current) EXCEPT ![Container] = Adopt(Forget(Current)[Container], ctx[Current])]
    BY DEF LeaveMember
  <1>11. Adopt(ctx[Container], ctx[Current]) \in Contexts
    <2>1. ctx[Container] \in Contexts /\ ctx[Current] \in Contexts
      BY <1>1, <1>6 DEF FileTypes
    <2> QED
      BY <2>1, AdoptFits
  <1>12. /\ ctx' \in [File -> Contexts]
         /\ \A f \in File \ {Current, Container} : ctx'[f] = ctx[f]
         /\ ctx'[Container] = Adopt(ctx[Container], ctx[Current])
    BY <1>6, <1>9, <1>10, <1>11
  <1> QED
    BY <1>1, <1>4, <1>6, <1>7, <1>8, <1>12

-----------------------------------------------------------------------------
(* Marks *)

LEMMA MarkingSteps ==
  ASSUME PathIsNested, FileTypes, CountTypes, IsFiniteSet(Pending), PipelineNext
  PROVE  \/ /\ \E f \in OnPath : KeepsMarks(f) /\ MissesMarked(f)
            /\ path' = path
         \/ ctx' = ctx /\ ghost'.missed = ghost.missed /\ path' = path
         \/ Extract \/ LeaveMember
  <1>1. BudgetTypes /\ Current \in OnPath /\ Current \in File /\ Upload \in OnPath
    BY CurrentFacts DEF CountTypes, BudgetTypes
  <1>2. ASSUME NEW s \in StageNames, StageSucceeds(s)
        PROVE  KeepsMarks(Current) /\ MissesMarked(Current) /\ path' = path
    BY <1>1, <1>2, StageWrote DEF StageSucceeds, Wrote
  <1>3. ASSUME NEW s \in StageNames, StageRaises(s) \/ StageTimesOut(s)
        PROVE  KeepsMarks(Current) /\ MissesMarked(Current) /\ path' = path
    BY <1>3, FaultMarks DEF StageRaises, StageTimesOut
  <1>4. ASSUME NEW f \in File, NEW s \in StageNames, LateWrite(f, s)
        PROVE  f \in OnPath /\ KeepsMarks(f) /\ MissesMarked(f) /\ path' = path
    BY <1>1, <1>4, LateWriteMarks DEF LateWrite, Wrote
  <1>5. CASE GivesUp
    BY <1>1, <1>5, GivingUpMarks DEF GivesUp, OutOfTime, Overflow, Unreadable
  <1>6. CASE RebuildFails
    BY <1>1, <1>6, RebuildFailsMarks DEF RebuildFails, MissesMarked
  <1>7. ASSUME NEW f \in File, LateSpend(f)
        PROVE  ctx' = ctx /\ ghost' = ghost /\ path' = path
    BY <1>7 DEF LateSpend
  <1>8. CASE Arrives \/ Decides \/ Deadline
    <2>1. ctx' = ctx /\ path' = path
          /\ (ghost' = ghost \/ ghost' = [ghost EXCEPT !.stopped = TRUE])
      BY <1>8 DEF Arrives, Expand, NothingToExpand, AllMembers, StopMembers,
        Decides, Decide, Allowlist, Rebuild, Publish, Deadline
    <2>2. ghost'.missed = ghost.missed
      BY <2>1 DEF CountTypes
    <2> QED
      BY <2>1, <2>2
  <1> QED
    BY <1>1, <1>2, <1>3, <1>4, <1>5, <1>6, <1>7, <1>8, StepKinds

LEMMA MarksStay ==
  ASSUME FileTypes, NEW f \in File, KeepsMarks(f), NEW g \in File, Marked(ctx[g])
  PROVE  Marked(ctx'[g])
  <1>1. CASE g = f
    BY <1>1 DEF KeepsMarks, Marked
  <1>2. CASE g # f
    BY <1>2 DEF KeepsMarks
  <1> QED
    BY <1>1, <1>2

LEMMA MissLeavesAMarkNext ==
  ASSUME PathIsNested, FileTypes, CountTypes, IsFiniteSet(Pending), MissLeavesAMark,
         PipelineNext
  PROVE  MissLeavesAMark'
  <1>1. OnPath \subseteq File
    BY CurrentFacts
  <1>2. CASE path' = path /\ \E f \in OnPath : KeepsMarks(f) /\ MissesMarked(f)
    <2>1. PICK f \in OnPath : KeepsMarks(f) /\ MissesMarked(f)
      BY <1>2
    <2>2. OnPath' = OnPath
      BY <1>2 DEF OnPath
    <2>3. CASE Marked(ctx'[f])
      BY <2>1, <2>2, <2>3 DEF MissLeavesAMark
    <2>4. CASE ghost' = ghost
      BY <1>1, <2>1, <2>2, <2>4, MarksStay DEF MissLeavesAMark
    <2> QED
      BY <2>1, <2>3, <2>4 DEF MissesMarked
  <1>3. CASE ctx' = ctx /\ ghost'.missed = ghost.missed /\ path' = path
    BY <1>3 DEF MissLeavesAMark, OnPath
  <1>4. CASE Extract
    <2>1. ghost'.missed = ghost.missed
      BY <1>4 DEF Extract, CountTypes
    <2>2. \A f \in OnPath : f \in OnPath' /\ ctx'[f] = ctx[f]
      BY <1>1, <1>4, ExtractFacts
    <2> QED
      BY <2>1, <2>2 DEF MissLeavesAMark
  <1>5. CASE LeaveMember
    <2>1. ghost' = ghost
      BY <1>5 DEF LeaveMember
    <2>2. /\ Container \in OnPath' /\ OnPath = OnPath' \cup {Current}
          /\ \A f \in File \ {Current, Container} : ctx'[f] = ctx[f]
          /\ ctx'[Container] = Adopt(ctx[Container], ctx[Current])
          /\ ctx[Container] \in Contexts /\ ctx[Current] \in Contexts
      BY <1>5, LeaveFacts DEF FileTypes
    <2>3. Marked(ctx[Container]) \/ Marked(ctx[Current]) => Marked(ctx'[Container])
      BY <2>2, AdoptFits
    <2>4. ASSUME NEW f \in OnPath, Marked(ctx[f])
          PROVE  \E g \in OnPath' : Marked(ctx'[g])
      <3>1. CASE f \in {Current, Container}
        BY <2>2, <2>3, <2>4, <3>1
      <3>2. CASE f \notin {Current, Container}
        BY <1>1, <2>2, <2>4, <3>2
      <3> QED
        BY <3>1, <3>2
    <2> QED
      BY <2>1, <2>4 DEF MissLeavesAMark
  <1> QED
    BY <1>2, <1>3, <1>4, <1>5, MarkingSteps

LEMMA LateIsMarkedNext ==
  ASSUME PathIsNested, FileTypes, CountTypes, IsFiniteSet(Pending), LateIsMarked,
         PipelineNext
  PROVE  LateIsMarked'
  <1>1. Upload \in File /\ OnPath \subseteq File /\ Upload \in OnPath /\ Current \in File
    BY PipelineAssumption, CurrentFacts
  <1>2. ctx[Upload].failed \subseteq ctx'[Upload].failed
    <2>1. ASSUME NEW f \in OnPath, KeepsMarks(f)
          PROVE  ctx[Upload].failed \subseteq ctx'[Upload].failed
      <3>1. CASE f = Upload
        BY <2>1, <3>1 DEF KeepsMarks
      <3>2. CASE f # Upload
        BY <1>1, <2>1, <3>2 DEF KeepsMarks
      <3> QED
        BY <3>1, <3>2
    <2>2. CASE Extract
      BY <1>1, <2>2, ExtractFacts
    <2>3. CASE LeaveMember
      <3>1. /\ Container \in File /\ Current \in File /\ Current # Upload
            /\ \A f \in File \ {Current, Container} : ctx'[f] = ctx[f]
            /\ ctx'[Container] = Adopt(ctx[Container], ctx[Current])
        BY <2>3, LeaveFacts
      <3>2. ctx[Container] \in Contexts /\ ctx[Current] \in Contexts
        BY <3>1 DEF FileTypes
      <3>3. CASE Container = Upload
        BY <3>1, <3>2, <3>3, AdoptFits
      <3>4. CASE Container # Upload
        BY <1>1, <3>1, <3>4
      <3> QED
        BY <3>3, <3>4
    <2> QED
      BY <2>1, <2>2, <2>3, MarkingSteps
  <1>3. ASSUME NEW s \in StageNames, StageRaises(s) \/ StageTimesOut(s)
        PROVE  LateIsMarked'
    <2>1. /\ KeepsMarks(Current) /\ ctx'[Current].failed = ctx[Current].failed \cup {s}
          /\ orphans' \subseteq orphans \cup {<<Current, s>>}
      BY <1>3, FaultMarks DEF StageRaises, StageTimesOut
    <2> QED
      BY <1>2, <2>1 DEF LateIsMarked
  <1>4. CASE orphans' \subseteq orphans
    BY <1>2, <1>4 DEF LateIsMarked
  <1>5. ASSUME NEW s \in StageNames, StageSucceeds(s) PROVE orphans' \subseteq orphans
    BY <1>5 DEF StageSucceeds
  <1>6. ASSUME NEW f \in File, NEW s \in StageNames, LateWrite(f, s)
        PROVE  orphans' \subseteq orphans
    BY <1>6 DEF LateWrite
  <1>7. ASSUME NEW f \in File, LateSpend(f) PROVE orphans' \subseteq orphans
    BY <1>7 DEF LateSpend
  <1>8. CASE Arrives \/ GivesUp \/ Extract \/ LeaveMember \/ Decides \/ RebuildFails \/ Deadline
    BY <1>4, <1>8 DEF Arrives, Expand, NothingToExpand, AllMembers, StopMembers, GivesUp,
      OutOfTime, Overflow, Unreadable, Extract, LeaveMember,
      Decides, Decide, Allowlist, Rebuild, Publish, RebuildFails, Deadline
  <1> QED
    BY <1>3, <1>4, <1>5, <1>6, <1>7, <1>8, StepKinds

-----------------------------------------------------------------------------
(* Types *)

(* A member is unpacked only after its archive was found not to be too deep. *)
LEMMA PlacesNext ==
  ASSUME PathIsNested, FileTypes, MembersAreNotDeep, PipelineNext
  PROVE  /\ at' \in [File -> Places]
         /\ \A f \in File : at'[f] = "members" => Depth[f] <= MaxArchiveDepth
  <1>1. /\ at \in [File -> Places] /\ Current \in File
        /\ \A f \in File : at[f] = "members" => Depth[f] <= MaxArchiveDepth
    BY CurrentFacts DEF FileTypes, MembersAreNotDeep
  <1>2. ASSUME NEW f \in File, NEW p \in Places, at' = [at EXCEPT ![f] = p],
               p = "members" => Depth[f] <= MaxArchiveDepth
        PROVE  /\ at' \in [File -> Places]
               /\ \A g \in File : at'[g] = "members" => Depth[g] <= MaxArchiveDepth
    BY <1>1, <1>2
  <1>3. ASSUME NEW s \in StageNames, StageSucceeds(s) \/ StageRaises(s) \/ StageTimesOut(s)
        PROVE  \E p \in Places : at' = [at EXCEPT ![Current] = p] /\ p # "members"
    <2>1. /\ Following(s) \in Places /\ "left" \in Places /\ "expand" \in Places
          /\ Following(s) # "members"
      <3>1. Following(s) \in {"filetype", "structure", "clamav", "yara", "expand"}
        BY StageFacts
      <3>2. Following(s) # "members"
        BY <3>1
      <3> QED
        BY <3>2, StageFacts DEF Places
    <2>2. GoOn(s)
      BY <1>3 DEF StageSucceeds, StageRaises, StageTimesOut
    <2>3. \/ at' = [at EXCEPT ![Current] = "left"]
          \/ at' = [at EXCEPT ![Current] = "expand"]
          \/ at' = [at EXCEPT ![Current] = Following(s)]
      BY <2>2 DEF GoOn
    <2> QED
      BY <2>1, <2>3
  <1>4. CASE Arrives
    <2>1. \/ at' = [at EXCEPT ![Current] = "left"]
          \/ at' = [at EXCEPT ![Current] = "members"] /\ Depth[Current] <= MaxArchiveDepth
      BY <1>4 DEF Arrives, Expand, NothingToExpand, AllMembers, StopMembers, Leaving, MayExpand
    <2>2. "left" \in Places /\ "members" \in Places
      BY DEF Places
    <2> QED
      BY <1>1, <1>2, <2>1, <2>2
  <1>5. CASE GivesUp
    <2>1. at' = at \/ at' = [at EXCEPT ![Current] = "left"]
      BY <1>5 DEF GivesUp, OutOfTime, Overflow, Unreadable, Leaving
    <2>2. "left" \in Places
      BY DEF Places
    <2> QED
      BY <1>1, <1>2, <2>1, <2>2
  <1>6. CASE Extract \/ LeaveMember
    <2>1. \E f \in File : at' = [at EXCEPT ![f] = "filetype"]
      BY <1>1, <1>6, ExtractFacts DEF Extract, LeaveMember
    <2>2. "filetype" \in Places
      BY StageFacts DEF Places
    <2> QED
      BY <1>2, <2>1, <2>2
  <1>7. ASSUME NEW f \in File, NEW s \in StageNames, LateWrite(f, s) PROVE at' = at
    BY <1>7 DEF LateWrite
  <1>8. ASSUME NEW f \in File, LateSpend(f) PROVE at' = at
    BY <1>8 DEF LateSpend
  <1>9. CASE Decides \/ RebuildFails \/ Deadline
    <2>1. at' = at
      BY <1>9 DEF Decides, Decide, Allowlist, Rebuild, Publish, RebuildFails, Deadline
    <2> QED
      BY <1>1, <2>1
  <1> QED
    BY <1>1, <1>2, <1>3, <1>4, <1>5, <1>6, <1>7, <1>8, <1>9, StepKinds

LEMMA MembersAreNotDeepNext ==
  ASSUME PathIsNested, FileTypes, MembersAreNotDeep, PipelineNext
  PROVE  MembersAreNotDeep'
  <1>1. Len(path) \in Nat \ {0} /\ Depth[Current] = Len(path) - 1 /\ Current \in File
    BY CurrentFacts
  <1>2. Len(path') <= 2 + MaxArchiveDepth
    <2>1. CASE Extract
      <3>1. Len(path') = Len(path) + 1
        BY <2>1, PathMoves
      <3>2. Depth[Current] <= MaxArchiveDepth
        BY <1>1, <2>1 DEF Extract, Unpacking, Running, Step, MembersAreNotDeep
      <3> QED
        BY <1>1, <3>1, <3>2, PipelineAssumption
    <2>2. CASE LeaveMember
      <3>1. Len(path') = Len(path) - 1 /\ Len(path) <= 2 + MaxArchiveDepth
        BY <2>2, PathMoves DEF MembersAreNotDeep
      <3> QED
        BY <1>1, <3>1, PipelineAssumption
    <2>3. CASE path' = path
      BY <2>3 DEF MembersAreNotDeep
    <2>4. path' = path \/ Extract \/ LeaveMember
      BY StepKinds DEF StageSucceeds, StageRaises, StageTimesOut, LateWrite, LateSpend,
        Arrives, Expand, NothingToExpand, AllMembers, StopMembers,
        GivesUp, OutOfTime, Overflow, Unreadable,
        Decides, Decide, Allowlist, Rebuild, Publish, RebuildFails, Deadline
    <2> QED
      BY <2>1, <2>2, <2>3, <2>4
  <1> QED
    BY <1>2, PlacesNext DEF MembersAreNotDeep

LEMMA TodoTypesNext ==
  ASSUME PathIsNested, FileTypes, CountTypes, IsFiniteSet(Pending), PipelineNext
  PROVE  TodoTypes'
  <1>1. TodoTypes /\ BudgetTypes /\ Current \in File
    BY CurrentFacts DEF FileTypes, CountTypes, TodoTypes, BudgetTypes
  <1>2. ASSUME NEW s \in StageNames, StageSucceeds(s) PROVE TodoTypes'
    BY <1>1, <1>2, StageWrote DEF StageSucceeds, Wrote
  <1>3. ASSUME NEW f \in File, NEW s \in StageNames, LateWrite(f, s) PROVE TodoTypes'
    BY <1>1, <1>3, LateWriteMarks DEF Wrote
  <1>4. CASE Unreadable
    <2>1. todo' = [todo EXCEPT ![Current] = todo[Current] \ {Entry}]
      BY <1>4 DEF Unreadable
    <2> HIDE DEF Current, Entry
    <2> QED
      BY <1>1, <2>1 DEF TodoTypes
  <1>5. CASE Extract
    <2>1. Member \in File /\ Member # Current
      BY <1>5, EntryFacts DEF Extract, Unpacking
    <2>2. todo' = [todo EXCEPT ![Current] = todo[Current] \ {Entry}, ![Member] = {}]
      BY <1>5 DEF Extract
    <2> HIDE DEF Current, Member, Entry
    <2> QED
      BY <1>1, <2>1, <2>2 DEF TodoTypes
  <1>6. CASE LeaveMember
    BY <1>1, <1>6 DEF LeaveMember, TodoTypes
  <1>7. CASE todo' = todo
    BY <1>1, <1>7 DEF TodoTypes
  <1>8. ASSUME NEW s \in StageNames, StageRaises(s) \/ StageTimesOut(s) PROVE todo' = todo
    BY <1>8 DEF StageRaises, StageTimesOut
  <1>9. ASSUME NEW f \in File, LateSpend(f) PROVE todo' = todo
    BY <1>9 DEF LateSpend
  <1>10. CASE Arrives \/ OutOfTime \/ Overflow \/ Decides \/ RebuildFails \/ Deadline
    BY <1>7, <1>10 DEF Arrives, Expand, NothingToExpand, AllMembers, StopMembers,
      OutOfTime, Overflow, Decides, Decide, Allowlist, Rebuild, Publish, RebuildFails, Deadline
  <1> QED
    BY <1>2, <1>3, <1>4, <1>5, <1>6, <1>7, <1>8, <1>9, <1>10, StepKinds DEF GivesUp

LEMMA FileTypesNext ==
  ASSUME PathIsNested, FileTypes, CountTypes, MembersAreNotDeep, IsFiniteSet(Pending),
         PipelineNext
  PROVE  FileTypes'
  <1>1. at' \in [File -> Places]
    BY PlacesNext
  <1>2. ctx' \in [File -> Contexts]
    <2>1. CASE \E f \in OnPath : KeepsMarks(f)
      BY <2>1 DEF KeepsMarks
    <2>2. CASE ctx' = ctx
      BY <2>2 DEF FileTypes
    <2>3. CASE Extract
      BY <2>3, ExtractFacts
    <2>4. CASE LeaveMember
      BY <2>4, LeaveFacts
    <2> QED
      BY <2>1, <2>2, <2>3, <2>4, MarkingSteps
  <1>3. TodoTypes'
    BY TodoTypesNext
  <1>4. orphans' \subseteq File \X StageNames /\ faults' \in 0 .. Faults
    <2>1. /\ Current \in File /\ orphans \subseteq File \X StageNames
          /\ faults \in 0 .. Faults /\ Faults \in Nat
      BY CurrentFacts, PipelineAssumption DEF FileTypes
    <2>2. ASSUME NEW s \in StageNames, StageRaises(s) \/ StageTimesOut(s)
          PROVE  orphans' \subseteq File \X StageNames /\ faults' \in 0 .. Faults
      <3>1. orphans' \subseteq orphans \cup {<<Current, s>>}
            /\ faults > 0 /\ faults' = faults - 1
        BY <2>2 DEF StageRaises, StageTimesOut
      <3>2. faults' \in 0 .. Faults
        BY <2>1, <3>1
      <3> QED
        BY <2>1, <3>1, <3>2
    <2>3. CASE orphans' \subseteq orphans /\ faults' = faults
      BY <2>1, <2>3
    <2>4. ASSUME NEW s \in StageNames, StageSucceeds(s)
          PROVE  orphans' \subseteq orphans /\ faults' = faults
      BY <2>4 DEF StageSucceeds
    <2>5. ASSUME NEW f \in File, NEW s \in StageNames, LateWrite(f, s)
          PROVE  orphans' \subseteq orphans /\ faults' = faults
      BY <2>5 DEF LateWrite
    <2>6. ASSUME NEW f \in File, LateSpend(f)
          PROVE  orphans' \subseteq orphans /\ faults' = faults
      BY <2>6 DEF LateSpend
    <2>7. Arrives \/ GivesUp \/ Extract \/ LeaveMember \/ Decides \/ RebuildFails \/ Deadline
          => orphans' \subseteq orphans /\ faults' = faults
      BY DEF Arrives, Expand, NothingToExpand, AllMembers, StopMembers, GivesUp,
        OutOfTime, Overflow, Unreadable, Extract, LeaveMember,
        Decides, Decide, Allowlist, Rebuild, Publish, RebuildFails, Deadline
    <2> QED
      BY <2>2, <2>3, <2>4, <2>5, <2>6, <2>7, StepKinds
  <1> QED
    BY <1>1, <1>2, <1>3, <1>4 DEF FileTypes, TodoTypes

-----------------------------------------------------------------------------
(* The verdict and what is handed out *)

LEMMA DoneOfOthers ==
  ASSUME PipelineNext
  PROVE  job' = job /\ (done' = done \/ Decides \/ RebuildFails)
  BY StepKinds DEF StageSucceeds, StageRaises, StageTimesOut, LateWrite, LateSpend,
    Arrives, Expand, NothingToExpand, AllMembers, StopMembers,
    GivesUp, OutOfTime, Overflow, Unreadable, Extract, LeaveMember,
    Decides, Decide, Allowlist, Rebuild, Publish, RebuildFails, Deadline

(* What each of the last steps makes of the result. *)
LEMMA DoneMoves ==
  ASSUME DoneTypes
  PROVE  /\ Decide => /\ done.step = "running" /\ done'.step = "decided"
                      /\ done'.artifact = done.artifact
                      /\ done'.verdict = VerdictOf(Facts, Policy)
         /\ Allowlist => /\ done.step = "decided" /\ done'.step = "built"
                         /\ \/ done'.artifact = done.artifact
                            \/ /\ AvOnly /\ done'.artifact = job.cached.artifact
                               /\ done'.verdict # "malicious"
                         /\ done'.verdict \in {done.verdict, "suspicious"}
         /\ Rebuild => /\ done.step = "built" /\ done'.step = "rebuilt"
                       /\ ShouldSanitize(done.verdict) /\ done'.verdict = done.verdict
                       /\ done'.artifact = ProfileFor(done.verdict)
         /\ RebuildFails => /\ done.step = "built" /\ done'.step = "rebuilt"
                            /\ ShouldSanitize(done.verdict)
                            /\ done'.artifact = done.artifact
                            /\ done'.verdict = ApplyFailure(done.verdict, Policy)
         /\ Publish => /\ done.step \in {"built", "rebuilt"} /\ done'.step = "published"
                       /\ done'.artifact = done.artifact /\ done'.verdict = done.verdict
  <1>1. Decide => /\ done.step = "running" /\ done'.step = "decided"
                  /\ done'.artifact = done.artifact
                  /\ done'.verdict = VerdictOf(Facts, Policy)
    BY DEF Decide, DoneTypes, Running
  <1>2. Allowlist => /\ done.step = "decided" /\ done'.step = "built"
                     /\ \/ done'.artifact = done.artifact
                        \/ /\ AvOnly /\ done'.artifact = job.cached.artifact
                           /\ done'.verdict # "malicious"
                     /\ done'.verdict \in {done.verdict, "suspicious"}
    BY DEF Allowlist, DoneTypes
  <1>3. Rebuild => /\ done.step = "built" /\ done'.step = "rebuilt"
                   /\ ShouldSanitize(done.verdict) /\ done'.verdict = done.verdict
                   /\ done'.artifact = ProfileFor(done.verdict)
    BY DEF Rebuild, DoneTypes
  <1>4. RebuildFails => /\ done.step = "built" /\ done'.step = "rebuilt"
                        /\ ShouldSanitize(done.verdict)
                        /\ done'.artifact = done.artifact
                        /\ done'.verdict = ApplyFailure(done.verdict, Policy)
    BY DEF RebuildFails, DoneTypes
  <1>5. Publish => /\ done.step \in {"built", "rebuilt"} /\ done'.step = "published"
                   /\ done'.artifact = done.artifact /\ done'.verdict = done.verdict
    BY DEF Publish, DoneTypes
  <1> QED
    BY <1>1, <1>2, <1>3, <1>4, <1>5

LEMMA DoneTypesNext ==
  ASSUME DoneTypes, PipelineNext
  PROVE  DoneTypes'
  <1>1. job' = job /\ job \in Jobs
    BY DoneOfOthers DEF DoneTypes
  <1>2. CASE done' = done
    BY <1>1, <1>2 DEF DoneTypes
  <1>3. job.policy.profile \in Profiles /\ job.cached.artifact \in Profiles \cup {"none"}
    BY <1>1, PipelineAssumption
  <1>4. CASE Decides \/ RebuildFails
    <2>1. /\ done.verdict \in Verdicts /\ done.artifact \in Profiles \cup {"none"}
      BY DEF DoneTypes
    <2>2. done'.verdict \in Verdicts
      <3>1. "suspicious" \in Verdicts
        BY DEF Verdicts
      <3> QED
        BY <1>4, <2>1, <3>1, DoneMoves, VerdictFacts DEF Decides
    <2>3. done'.artifact \in Profiles \cup {"none"}
      <3>1. \A v : ProfileFor(v) \in Profiles
        BY <1>3 DEF ProfileFor, Policy, Profiles
      <3> QED
        BY <1>3, <1>4, <2>1, <3>1, DoneMoves DEF Decides
    <2>4. done'.step \in Steps
      BY <1>4, DoneMoves DEF Decides, Steps
    <2>5. /\ DOMAIN done' = DOMAIN done /\ done' = [k \in DOMAIN done' |-> done'[k]]
          /\ done'.allowlisted \in BOOLEAN
      BY <1>4 DEF Decides, Decide, Allowlist, Rebuild, Publish, RebuildFails, DoneTypes
    <2>6. DOMAIN done = {"step", "verdict", "score", "facts", "findings", "artifact", "status",
                         "allowlisted"}
      BY DEF DoneTypes
    <2>7. done' = [step |-> done'.step, verdict |-> done'.verdict, score |-> done'.score,
                   facts |-> done'.facts, findings |-> done'.findings,
                   artifact |-> done'.artifact, status |-> done'.status,
                   allowlisted |-> done'.allowlisted]
      BY <2>5, <2>6
    <2>8. done' \in [step : Steps, verdict : Verdicts, score : {done'.score},
                     facts : {done'.facts}, findings : {done'.findings},
                     artifact : Profiles \cup {"none"}, status : {done'.status},
                     allowlisted : BOOLEAN]
      BY <2>2, <2>3, <2>4, <2>5, <2>7
    <2> QED
      BY <1>1, <2>8 DEF DoneTypes
  <1> QED
    BY <1>2, <1>4, DoneOfOthers

LEMMA ArtifactIsLateNext ==
  ASSUME DoneTypes, ArtifactIsLate, PipelineNext
  PROVE  ArtifactIsLate'
  <1>1. job' = job /\ AvOnly' = AvOnly
    BY DoneOfOthers DEF AvOnly
  <1>2. CASE done' = done
    BY <1>1, <1>2 DEF ArtifactIsLate
  <1>3. CASE Decide
    BY <1>1, <1>3, DoneMoves DEF ArtifactIsLate
  <1>4. CASE Allowlist
    <2>1. done.artifact = "none" /\ done'.step = "built"
      BY <1>4, DoneMoves DEF ArtifactIsLate
    <2>2. \/ done'.artifact = "none"
          \/ AvOnly /\ done'.verdict # "malicious"
      BY <1>4, <2>1, DoneMoves
    <2> QED
      BY <1>1, <2>1, <2>2 DEF ArtifactIsLate
  <1>5. CASE Rebuild
    <2>1. /\ done'.step = "rebuilt" /\ ShouldSanitize(done.verdict)
          /\ done'.verdict = done.verdict /\ done'.artifact = ProfileFor(done.verdict)
      BY <1>5, DoneMoves
    <2>2. /\ ~AvOnly /\ job.mode # "detect" /\ done.verdict \notin UnscannableVerdicts
      BY <2>1 DEF ShouldSanitize
    <2>3. done'.verdict = "malicious" => done'.artifact = "strict"
      BY <2>1 DEF ProfileFor
    <2> QED
      BY <1>1, <2>1, <2>2, <2>3 DEF ArtifactIsLate
  <1>6. CASE RebuildFails
    <2>1. done.artifact = "none"
      BY <1>6, DoneMoves DEF ArtifactIsLate, ShouldSanitize
    <2>2. done'.artifact = "none" /\ done'.step = "rebuilt"
      BY <1>6, <2>1, DoneMoves
    <2> QED
      BY <2>2 DEF ArtifactIsLate
  <1>7. CASE Publish
    BY <1>1, <1>7, DoneMoves DEF ArtifactIsLate
  <1> QED
    BY <1>2, <1>3, <1>4, <1>5, <1>6, <1>7, DoneOfOthers DEF Decides

(* Once it is decided there are only the upload and the threads that outlived
   their limit on it, and each of those left its mark long before. *)
LEMMA DecidedOnMarksNext ==
  ASSUME PathIsNested, FileTypes, DoneTypes, CountTypes, IsFiniteSet(Pending),
         LateIsMarked, DecidedOnMarks, PipelineNext
  PROVE  DecidedOnMarks'
  <1>1. job' = job /\ Policy' = Policy
    BY DoneOfOthers DEF Policy
  <1>2. CASE done' = done /\ done.step = "running"
    BY <1>2 DEF DecidedOnMarks
  <1>3. CASE /\ done' = done /\ path' = path
             /\ done.step # "running" => (Marked(ctx'[Upload]) <=> Marked(ctx[Upload]))
    BY <1>1, <1>3 DEF DecidedOnMarks
  <1>4. CASE Decide
    <2>1. /\ done'.verdict = VerdictOf(Facts, Policy) /\ path = <<Upload>>
          /\ ctx' = ctx /\ path' = path
      BY <1>4, DoneMoves DEF Decide
    <2>2. Marked(ctx[Upload]) => Marked(Facts)
      BY DEF Facts, Marked, Merge
    <2> QED
      BY <1>1, <2>1, <2>2, MarkedIsNotClean DEF DecidedOnMarks
  <1>5. CASE Allowlist \/ Rebuild \/ Publish
    <2>1. /\ done.step # "running" /\ done'.verdict \in {done.verdict, "suspicious"}
          /\ ctx' = ctx /\ path' = path
      BY <1>5, DoneMoves DEF Allowlist, Rebuild, Publish
    <2> QED
      BY <1>1, <2>1 DEF DecidedOnMarks
  <1>6. CASE RebuildFails
    <2>1. /\ done.step # "running" /\ path' = path
          /\ done'.verdict = ApplyFailure(done.verdict, Policy)
      BY <1>6, DoneMoves DEF RebuildFails
    <2> QED
      BY <1>1, <2>1, FailureIsNotClean DEF DecidedOnMarks
  <1>7. ASSUME NEW f \in File, NEW s \in StageNames, LateWrite(f, s)
        PROVE  /\ done' = done /\ path' = path
               /\ done.step # "running" => (Marked(ctx'[Upload]) <=> Marked(ctx[Upload]))
    <2>1. /\ f \in OnPath /\ Wrote(f) /\ (s = "yara" => Unmarked(f))
          /\ done' = done /\ path' = path /\ <<f, s>> \in orphans
      BY <1>7, LateWriteMarks DEF LateWrite, CountTypes, BudgetTypes
    <2>2. SUFFICES ASSUME done.step # "running"
                   PROVE  Marked(ctx'[Upload]) <=> Marked(ctx[Upload])
      BY <2>1
    <2>3. f = Upload
      <3>1. path = <<Upload>>
        BY <2>2 DEF DecidedOnMarks
      <3> QED
        BY <2>1, <3>1 DEF OnPath
    <2>4. s \in ctx[Upload].failed
      BY <2>1, <2>3 DEF LateIsMarked
    <2>5. CASE s = "yara"
      BY <2>1, <2>3, <2>5 DEF Unmarked, Wrote, Marked
    <2>6. CASE s # "yara"
      <3>1. s \in EssentialStages
        BY <2>6, StageFacts DEF EssentialStages
      <3>2. s \in ctx'[Upload].failed
        BY <2>1, <2>3, <2>4 DEF Wrote
      <3> QED
        BY <2>4, <3>1, <3>2 DEF Marked
    <2> QED
      BY <2>5, <2>6
  <1>8. ASSUME NEW f \in File, LateSpend(f)
        PROVE  done' = done /\ path' = path /\ ctx' = ctx
    BY <1>8 DEF LateSpend
  <1>9. ASSUME NEW s \in StageNames, StageSucceeds(s) \/ StageRaises(s) \/ StageTimesOut(s)
        PROVE  done' = done /\ done.step = "running"
    BY <1>9 DEF StageSucceeds, StageRaises, StageTimesOut, Running
  <1>10. CASE Arrives \/ GivesUp \/ Extract \/ LeaveMember \/ Deadline
    <2>1. done' = done /\ done.step = "running"
      BY <1>10 DEF Arrives, Expand, NothingToExpand, AllMembers, StopMembers, GivesUp,
        OutOfTime, Overflow, Unreadable, Extract, LeaveMember, Unpacking, Deadline, Running
    <2> QED
      BY <1>2, <2>1
  <1> QED
    BY <1>2, <1>3, <1>4, <1>5, <1>6, <1>7, <1>8, <1>9, <1>10, StepKinds DEF Decides

-----------------------------------------------------------------------------
(* What was found decides *)

LEMMA ScoresStay ==
  ASSUME NEW findings \in FindingSets, NEW more \in FindingSets, findings \subseteq more
  PROVE  /\ ScoreOf(findings) <= ScoreOf(more)
         /\ ScoreOf(findings) \in Nat /\ ScoreOf(more) \in Nat
  <1>1. Weighed(findings) /\ Weighed(more)
    BY FindingFacts
  <1>2. ScoreOf(findings) <= ScoreOf(more)
    BY <1>1, ScoreGrows
  <1> QED
    BY <1>1, <1>2, ScoreValue

LEMMA PolicyFacts ==
  ASSUME DoneTypes
  PROVE  /\ Policy.block \in Nat /\ Policy.suspicious \in Nat
         /\ Weighed(job.cached.facts.findings)
  <1>1. job \in Jobs
    BY DEF DoneTypes
  <1>2. /\ job.policy.block \in 1 .. 100 /\ job.policy.suspicious \in 1 .. 100
        /\ IsFiniteSet(job.cached.facts.findings)
        /\ \A f \in job.cached.facts.findings : f.score \in 0 .. 100
    BY <1>1, PipelineAssumption
  <1> QED
    BY <1>2 DEF Policy, Weighed

(* The shown score is no less than what was found weighs. *)
LEMMA ScoreIsShown ==
  ASSUME NEW facts, NEW policy, policy.suspicious \in Nat, Weighed(facts.findings)
  PROVE  ScoreOf(facts.findings) <= VerdictAndScore(facts, policy)[2]
  <1> DEFINE score == ScoreOf(facts.findings)
  <1>1. score \in Nat
    BY ScoreValue
  <1>2. score <= Lifted(score, policy)
    <2> HIDE DEF score
    <2> QED
      BY <1>1, MostOfTwo DEF Lifted
  <1>3. VerdictAndScore(facts, policy)[2] \in {score, Lifted(score, policy)}
    BY DEF VerdictAndScore
  <1> HIDE DEF score
  <1> QED
    BY <1>1, <1>2, <1>3 DEF score

LEMMA UploadKeepsFindings ==
  ASSUME PathIsNested, FileTypes, CountTypes, IsFiniteSet(Pending), PipelineNext
  PROVE  ctx[Upload].findings \subseteq ctx'[Upload].findings
  <1>1. Upload \in File /\ OnPath \subseteq File
    BY PipelineAssumption, CurrentFacts
  <1>2. ASSUME NEW f \in OnPath, KeepsMarks(f)
        PROVE  ctx[Upload].findings \subseteq ctx'[Upload].findings
    <2>1. CASE f = Upload
      BY <1>2, <2>1 DEF KeepsMarks
    <2>2. CASE f # Upload
      BY <1>1, <1>2, <2>2 DEF KeepsMarks
    <2> QED
      BY <2>1, <2>2
  <1>3. CASE Extract
    BY <1>1, <1>3, ExtractFacts
  <1>4. CASE LeaveMember
    <2>1. /\ Current # Upload
          /\ \A f \in File \ {Current, Container} : ctx'[f] = ctx[f]
          /\ ctx'[Container] = Adopt(ctx[Container], ctx[Current])
      BY <1>4, LeaveFacts
    <2>2. CASE Container = Upload
      BY <2>1, <2>2 DEF Adopt, Join
    <2>3. CASE Container # Upload
      BY <1>1, <2>1, <2>3
    <2> QED
      BY <2>2, <2>3
  <1> QED
    BY <1>2, <1>3, <1>4, MarkingSteps

LEMMA LateIsToldNext ==
  ASSUME PathIsNested, FileTypes, CountTypes, IsFiniteSet(Pending), LateIsTold,
         PipelineNext
  PROVE  LateIsTold'
  <1>1. TimedOut => TimedOut'
    BY UploadKeepsFindings DEF TimedOut, Codes
  <1>2. ASSUME NEW s \in StageNames, StageTimesOut(s)
        PROVE  LateIsTold'
    <2>1. /\ ctx' = [Note(Current, s, "STAGE_TIMEOUT") EXCEPT
                        ![Current].failed = @ \cup {s}]
          /\ orphans' = orphans \cup {<<Current, s>>}
      BY <1>2 DEF StageTimesOut
    <2>2. CASE Current = Upload
      <3> DEFINE findings == Add(ctx[Upload].findings, s, "STAGE_TIMEOUT", DefaultWeights)
      <3>1. ctx \in [File -> Contexts] /\ Upload \in File /\ s \in Tellers
            /\ "STAGE_TIMEOUT" \in DOMAIN DefaultWeights
        BY PipelineAssumption, TableFacts DEF FileTypes, Tellers
      <3>2. ctx[Upload] \in Contexts /\ ctx[Upload].findings \in FindingSets
        BY <3>1, ContextFields
      <3>3. "STAGE_TIMEOUT" \in Codes(findings)
        BY <3>1, <3>2, AddFits
      <3>4. ctx' = Failing(Upload, findings, s)
        BY <2>1, <2>2, <3>1, NoteIsTold
      <3>5. ctx'[Upload].findings = findings
        <4> HIDE DEF findings
        <4> QED
          BY <3>1, <3>2, <3>4 DEF Failing, Contexts
      <3> QED
        BY <3>3, <3>5 DEF LateIsTold, TimedOut
    <2>3. CASE Current # Upload
      BY <1>1, <2>1, <2>3 DEF LateIsTold
    <2> QED
      BY <2>2, <2>3
  <1>3. CASE orphans' \subseteq orphans
    BY <1>1, <1>3, UploadKeepsFindings DEF LateIsTold, TimedOut, Codes
  <1>4. orphans' \subseteq orphans \/ \E s \in StageNames : StageTimesOut(s)
    BY StepKinds DEF StageSucceeds, StageRaises, LateWrite, LateSpend, Arrives, Expand,
      NothingToExpand, AllMembers, StopMembers, GivesUp, OutOfTime, Overflow, Unreadable,
      Extract, LeaveMember, Decides, Decide, Allowlist, Rebuild, Publish, RebuildFails, Deadline
  <1> QED
    BY <1>2, <1>3, <1>4

LEMMA CachedIsNotUnpackedNext ==
  ASSUME PathIsNested, CachedIsNotUnpacked, FileTypes, PipelineNext
  PROVE  CachedIsNotUnpacked'
  <1>1. AvOnly' = AvOnly
    BY DoneOfOthers DEF AvOnly
  <1>2. SUFFICES ASSUME AvOnly
                 PROVE  path' = <<Upload>> /\ at'[Upload] \in {"clamav", "left"}
    BY <1>1 DEF CachedIsNotUnpacked
  <1>3. /\ path = <<Upload>> /\ Current = Upload /\ Upload \in File
        /\ Step \in {"clamav", "left"} /\ Len(path) = 1
        /\ at \in [File -> Places]
    <2>1. path = <<Upload>> /\ at[Upload] \in {"clamav", "left"}
      BY <1>2 DEF CachedIsNotUnpacked
    <2>2. Len(path) = 1 /\ path[1] = Upload
      BY <2>1
    <2>3. Current = Upload /\ Step = at[Upload]
      BY <2>2 DEF Current, Step
    <2>4. Upload \in File /\ at \in [File -> Places]
      BY PipelineAssumption DEF FileTypes
    <2> QED
      BY <2>1, <2>2, <2>3, <2>4
  <1>4. ASSUME NEW s \in StageNames, StageSucceeds(s) \/ StageRaises(s) \/ StageTimesOut(s)
        PROVE  path' = <<Upload>> /\ at'[Upload] \in {"clamav", "left"}
    <2>1. at' = [at EXCEPT ![Upload] = "left"] /\ path' = path
      BY <1>2, <1>3, <1>4 DEF StageSucceeds, StageRaises, StageTimesOut, GoOn
    <2> QED
      BY <1>3, <2>1
  <1>5. ~Arrives /\ ~GivesUp /\ ~Extract /\ ~LeaveMember
    BY <1>3 DEF Arrives, Expand, NothingToExpand, AllMembers, StopMembers, GivesUp, OutOfTime,
      Overflow, Unreadable, Extract, LeaveMember, Unpacking, Running
  <1>6. \/ \E s \in StageNames : StageSucceeds(s) \/ StageRaises(s) \/ StageTimesOut(s)
        \/ path' = path /\ at' = at
    BY <1>5, StepKinds DEF LateWrite, LateSpend,
      Decides, Decide, Allowlist, Rebuild, Publish, RebuildFails, Deadline
  <1> QED
    BY <1>3, <1>4, <1>6 DEF Step

(* Whatever is found or left behind, the path does not come to weigh less:
   when a member is left, its archive takes over all that was found in it. *)
LEMMA WeightStays ==
  ASSUME PathIsNested, FileTypes, CountTypes, IsFiniteSet(Pending), PipelineNext,
         NEW limit \in Nat, NEW f \in OnPath, ScoreOf(ctx[f].findings) >= limit
  PROVE  \E g \in OnPath' : ScoreOf(ctx'[g].findings) >= limit
  <1>1. /\ OnPath \subseteq File /\ f \in File
        /\ \A g \in File : ctx[g].findings \in FindingSets
    BY CurrentFacts, ContextFields DEF FileTypes
  <1>2. ASSUME NEW g \in OnPath, KeepsMarks(g), path' = path
        PROVE  f \in OnPath' /\ ScoreOf(ctx'[f].findings) >= limit
    <2>1. f \in OnPath'
      BY <1>2 DEF OnPath
    <2>2. CASE f = g
      <3>1. ctx'[f].findings \in FindingSets /\ ctx[f].findings \subseteq ctx'[f].findings
        BY <1>1, <1>2, <2>2 DEF KeepsMarks, Contexts
      <3>2. /\ ScoreOf(ctx[f].findings) <= ScoreOf(ctx'[f].findings)
            /\ ScoreOf(ctx[f].findings) \in Nat /\ ScoreOf(ctx'[f].findings) \in Nat
        BY <1>1, <3>1, ScoresStay
      <3> QED
        BY <2>1, <3>2
    <2>3. CASE f # g
      BY <1>1, <1>2, <2>1, <2>3 DEF KeepsMarks
    <2> QED
      BY <2>2, <2>3
  <1>3. CASE ctx' = ctx /\ path' = path
    BY <1>3 DEF OnPath
  <1>4. CASE Extract
    BY <1>1, <1>4, ExtractFacts
  <1>5. CASE LeaveMember
    <2>1. /\ Container \in File /\ Current \in File /\ Container \in OnPath'
          /\ OnPath = OnPath' \cup {Current}
          /\ \A g \in File \ {Current, Container} : ctx'[g] = ctx[g]
          /\ ctx'[Container] = Adopt(ctx[Container], ctx[Current])
      BY <1>5, LeaveFacts
    <2>2. CASE f \notin {Current, Container}
      BY <1>1, <2>1, <2>2
    <2>3. CASE f \in {Current, Container}
      <3> DEFINE all == Join(ctx[Container].findings, ctx[Current].findings)
      <3>1. ctx'[Container].findings = all
        BY <2>1 DEF Adopt
      <3>2. /\ all \in FindingSets /\ ctx[Container].findings \subseteq all
            /\ \A x \in ctx[Current].findings : \E y \in all : y.code = x.code /\ y.score = x.score
        BY <1>1, <2>1, JoinFits
      <3> HIDE DEF all
      <3>3. \A x \in ctx[f].findings : \E y \in all : y.code = x.code /\ y.score = x.score
        BY <2>3, <3>2
      <3>4. Weighed(ctx[f].findings) /\ Weighed(all)
        BY <1>1, <3>2, FindingFacts
      <3>5. ScoreOf(ctx[f].findings) <= ScoreOf(all)
        BY <3>3, <3>4, ScoreGrows
      <3>6. ScoreOf(ctx[f].findings) \in Nat /\ ScoreOf(all) \in Nat
        BY <3>4, ScoreValue
      <3>7. ScoreOf(all) >= limit
        BY <3>5, <3>6
      <3> QED
        BY <2>1, <3>1, <3>7
    <2> QED
      BY <2>2, <2>3
  <1> QED
    BY <1>2, <1>3, <1>4, <1>5, MarkingSteps

LEMMA StopMoves ==
  ASSUME PathIsNested, FileTypes, CountTypes, IsFiniteSet(Pending), PipelineNext
  PROVE  StopMembers \/ ghost'.stopped = ghost.stopped
  <1> DEFINE Same == ghost' = ghost \/ \E why \in {"entry", "content", "stage"} : ghost' = Miss(why)
  <1>1. BudgetTypes /\ Current \in File
    BY CurrentFacts DEF CountTypes, BudgetTypes
  <1>2. ASSUME NEW s \in StageNames, StageSucceeds(s) PROVE Same
    BY <1>1, <1>2, StageWrote DEF StageSucceeds, Wrote, MissesMarked
  <1>3. ASSUME NEW s \in StageNames, StageRaises(s) \/ StageTimesOut(s) PROVE Same
    BY <1>3 DEF StageRaises, StageTimesOut
  <1>4. ASSUME NEW f \in File, NEW s \in StageNames, LateWrite(f, s) PROVE Same
    BY <1>1, <1>4, LateWriteMarks DEF Wrote, MissesMarked
  <1>5. ASSUME NEW f \in File, LateSpend(f) PROVE Same
    BY <1>5 DEF LateSpend
  <1>6. CASE Extract
    BY <1>6 DEF Extract, CountTypes
  <1>7. ASSUME Arrives \/ GivesUp \/ LeaveMember \/ Decides \/ RebuildFails \/ Deadline
        PROVE  Same \/ StopMembers
    BY <1>7 DEF Arrives, Expand, NothingToExpand, AllMembers, GivesUp,
        OutOfTime, Overflow, Unreadable, LeaveMember,
        Decides, Decide, Allowlist, Rebuild, Publish, RebuildFails, Deadline
  <1>8. ASSUME Same PROVE ghost'.stopped = ghost.stopped
    BY <1>8 DEF Miss, CountTypes
  <1> HIDE DEF Same
  <1> QED
    BY <1>2, <1>3, <1>4, <1>5, <1>6, <1>7, <1>8, StepKinds

LEMMA StopIsBlockedNext ==
  ASSUME PathIsNested, FileTypes, DoneTypes, CountTypes, IsFiniteSet(Pending),
         CachedIsNotUnpacked, StopIsBlocked, PipelineNext
  PROVE  StopIsBlocked'
  <1>1. job' = job /\ Policy' = Policy /\ AvOnly' = AvOnly
    BY DoneOfOthers DEF Policy, AvOnly
  <1>2. Policy.block \in Nat
    BY PolicyFacts
  <1>3. CASE StopMembers
    <2>1. /\ done' = done /\ ctx' = ctx /\ path' = path /\ done.step = "running"
          /\ Step = "members" /\ ScoreOf(ctx[Current].findings) >= Policy.block
      BY <1>3 DEF StopMembers, Running, Blocks, ShouldStopEarly
    <2>2. ~AvOnly
      BY <2>1 DEF CachedIsNotUnpacked, Step, Current
    <2>3. Current \in OnPath' /\ Current \in File
      BY <2>1, CurrentFacts DEF OnPath
    <2> QED
      BY <1>1, <2>1, <2>2, <2>3 DEF StopIsBlocked
  <1>4. CASE ghost'.stopped = ghost.stopped
    <2>1. SUFFICES ASSUME ghost.stopped
                   PROVE  /\ done'.step = "running" =>
                               \E f \in OnPath' : ScoreOf(ctx'[f].findings) >= Policy.block
                          /\ done'.step = "decided" => done'.verdict = "malicious"
      BY <1>1, <1>4 DEF StopIsBlocked
    <2>2. CASE done' = done
      BY <1>2, <2>1, <2>2, WeightStays DEF StopIsBlocked
    <2>3. CASE Decide
      <3>1. /\ done'.verdict = VerdictOf(Facts, Policy) /\ done'.step = "decided"
            /\ done.step = "running" /\ path = <<Upload>>
        BY <2>3, DoneMoves DEF Decide
      <3>2. ScoreOf(ctx[Upload].findings) >= Policy.block
        BY <2>1, <3>1 DEF StopIsBlocked, OnPath
      <3>3. Facts = ctx[Upload]
        BY <2>1 DEF StopIsBlocked, Facts
      <3>4. VerdictOf(Facts, Policy) = "malicious"
        BY <3>2, <3>3 DEF VerdictOf, VerdictAndScore
      <3> QED
        BY <3>1, <3>4
    <2>4. CASE Allowlist \/ Rebuild \/ RebuildFails \/ Publish
      <3>1. done'.step \in {"built", "rebuilt", "published"}
        BY <2>4, DoneMoves
      <3> QED
        BY <3>1
    <2> QED
      BY <2>2, <2>3, <2>4, DoneOfOthers DEF Decides
  <1> QED
    BY <1>3, <1>4, StopMoves

(* A rebuilding that fails leaves a note that weighs nothing. *)
LEMMA FailureWeighsNothing ==
  ASSUME FileTypes, RebuildFails
  PROVE  /\ ScoreOf(ctx'[Upload].findings) <= ScoreOf(ctx[Upload].findings)
         /\ ScoreOf(ctx'[Upload].findings) \in Nat /\ ScoreOf(ctx[Upload].findings) \in Nat
  <1> DEFINE f == Finding("cdr", "CDR_FAILED", RuleFor(DefaultWeights, "CDR_FAILED"))
             was == ctx[Upload].findings
             now == Add(was, "cdr", "CDR_FAILED", DefaultWeights)
  <1>1. ctx \in [File -> Contexts] /\ Upload \in File /\ "cdr" \in Tellers
        /\ "CDR_FAILED" \in DOMAIN DefaultWeights
    BY PipelineAssumption, TableFacts DEF FileTypes, Tellers
  <1>2. was \in FindingSets /\ now \in FindingSets
    BY <1>1, ContextFields, AddFits
  <1>3. ctx'[Upload].findings = now
    <2>1. ctx' = Told(Upload, now, ctx[Upload].encrypted, ctx[Upload].supported)
      BY <1>1, NoteIsTold DEF RebuildFails
    <2>2. ctx[Upload] \in Contexts
      BY <1>1
    <2> HIDE DEF now
    <2> QED
      BY <1>1, <2>1, <2>2 DEF Told, Contexts
  <1>4. f.score = 0
    <2>1. RuleFor(DefaultWeights, "CDR_FAILED") = (CHOOSE row \in Graded : "CDR_FAILED" \in row[2])[1]
      BY <1>1 DEF RuleFor, DefaultWeights
    <2>2. \E row \in Graded : "CDR_FAILED" \in row[2]
      BY DEF Graded
    <2>3. \A row \in Graded : "CDR_FAILED" \in row[2] => row[1] = 0
      BY DEF Graded
    <2> DEFINE row == CHOOSE row \in Graded : "CDR_FAILED" \in row[2]
    <2>4. row \in Graded /\ "CDR_FAILED" \in row[2]
      BY <2>2
    <2> HIDE DEF row
    <2>5. row[1] = 0
      BY <2>3, <2>4
    <2> QED
      BY <2>1, <2>5 DEF row, Finding
  <1>5. \A x \in now : x \in was \/ x.score = 0
    BY <1>4 DEF Add, AddWeighed
  <1> HIDE DEF now, was, f
  <1>6. Weighed(now) /\ Weighed(was)
    BY <1>2, FindingFacts
  <1>7. ScoreOf(now) <= ScoreOf(was)
    BY <1>5, <1>6, ScoreGrows
  <1>8. ScoreOf(now) \in Nat /\ ScoreOf(was) \in Nat
    BY <1>6, ScoreValue
  <1> QED
    BY <1>3, <1>7, <1>8 DEF was

(* What the last steps make of the other fields of the result. *)
LEMMA ResultMoves ==
  ASSUME DoneTypes
  PROVE  /\ Decide => /\ done'.facts = Facts /\ done'.status = done.status
                      /\ done'.score = VerdictAndScore(Facts, Policy)[2]
                      /\ done'.allowlisted = done.allowlisted
         /\ Allowlist => /\ done'.score = done.score /\ done'.status = "done"
                         /\ done'.facts = IF AvOnly THEN done.facts ELSE ctx[Upload]
                         /\ \/ done'.allowlisted /\ done.verdict = "malicious"
                               /\ done'.verdict = "suspicious"
                            \/ ~done'.allowlisted /\ done'.verdict = done.verdict
         /\ Rebuild => /\ done'.score = done.score /\ done'.status = done.status
                       /\ done'.facts = done.facts /\ done'.allowlisted = done.allowlisted
         /\ RebuildFails => /\ done'.score = done.score /\ done'.status = "failed"
                            /\ done'.facts = done.facts /\ done'.allowlisted = done.allowlisted
         /\ Publish => /\ done'.score = done.score /\ done'.status = done.status
                       /\ done'.facts = done.facts /\ done'.allowlisted = done.allowlisted
                       /\ done'.findings = Shown
  <1>1. Decide => /\ done'.facts = Facts /\ done'.status = done.status
                  /\ done'.score = VerdictAndScore(Facts, Policy)[2]
                  /\ done'.allowlisted = done.allowlisted
    BY DEF Decide, DoneTypes
  <1>2. Allowlist => /\ done'.score = done.score /\ done'.status = "done"
                     /\ done'.facts = IF AvOnly THEN done.facts ELSE ctx[Upload]
    BY DEF Allowlist, DoneTypes, Facts
  <1>3. Allowlist => \/ done'.allowlisted /\ done.verdict = "malicious"
                        /\ done'.verdict = "suspicious"
                     \/ ~done'.allowlisted /\ done'.verdict = done.verdict
    BY DEF Allowlist, DoneTypes
  <1>4. Rebuild => /\ done'.score = done.score /\ done'.status = done.status
                   /\ done'.facts = done.facts /\ done'.allowlisted = done.allowlisted
    BY DEF Rebuild, DoneTypes
  <1>5. RebuildFails => /\ done'.score = done.score /\ done'.status = "failed"
                        /\ done'.facts = done.facts /\ done'.allowlisted = done.allowlisted
    BY DEF RebuildFails, DoneTypes
  <1>6. Publish => /\ done'.score = done.score /\ done'.status = done.status
                   /\ done'.facts = done.facts /\ done'.allowlisted = done.allowlisted
                   /\ done'.findings = Shown
    BY DEF Publish, DoneTypes, Shown
  <1> QED
    BY <1>1, <1>2, <1>3, <1>4, <1>5, <1>6

(* After the decision nothing writes to the upload that is not told of. *)
LEMMA LateOrQuiet ==
  ASSUME PathIsNested, FileTypes, DoneTypes, CountTypes, IsFiniteSet(Pending), DecidedOnMarks, LateIsTold,
         PipelineNext, done' = done, done.step # "running"
  PROVE  TimedOut' \/ ctx'[Upload] = ctx[Upload]
  <1>1. path = <<Upload>>
    BY DEF DecidedOnMarks
  <1>2. ASSUME NEW f \in File, NEW s \in StageNames, LateWrite(f, s)
        PROVE  TimedOut'
    <2>1. f \in OnPath /\ <<f, s>> \in orphans
      BY <1>2, LateWriteMarks DEF LateWrite, CountTypes, BudgetTypes
    <2>2. f = Upload
      BY <1>1, <2>1 DEF OnPath
    <2>3. TimedOut
      BY <2>1, <2>2 DEF LateIsTold
    <2> QED
      BY <2>3, UploadKeepsFindings DEF TimedOut, Codes
  <1>3. ASSUME NEW f \in File, LateSpend(f) PROVE ctx' = ctx
    BY <1>3 DEF LateSpend
  <1>4. ASSUME NEW s \in StageNames, StageSucceeds(s) \/ StageRaises(s) \/ StageTimesOut(s)
        PROVE  FALSE
    BY <1>4 DEF StageSucceeds, StageRaises, StageTimesOut, Running
  <1>5. ~Arrives /\ ~GivesUp /\ ~Extract /\ ~LeaveMember
    BY DEF Arrives, Expand, NothingToExpand, AllMembers, StopMembers, GivesUp,
      OutOfTime, Overflow, Unreadable, Extract, LeaveMember, Unpacking, Running
  <1>6. CASE Decides \/ RebuildFails
    <2>1. done'.step # done.step
      BY <1>6, DoneMoves DEF Decides
    <2> QED
      BY <2>1
  <1>7. CASE Deadline
    BY <1>7 DEF Deadline
  <1> QED
    BY <1>2, <1>3, <1>4, <1>5, <1>6, <1>7, StepKinds

LEMMA ResultIsExplainedNext ==
  ASSUME PathIsNested, FileTypes, DoneTypes, CountTypes, IsFiniteSet(Pending),
         DecidedOnMarks, LateIsTold, ResultIsExplained, PipelineNext
  PROVE  ResultIsExplained'
  <1>1. job' = job /\ Policy' = Policy /\ AvOnly' = AvOnly
    BY DoneOfOthers DEF Policy, AvOnly
  <1>2. TimedOut => TimedOut'
    BY UploadKeepsFindings DEF TimedOut, Codes
  <1>3. done.allowlisted \in BOOLEAN /\ AvOnly \in BOOLEAN
    BY DEF DoneTypes, AvOnly
  <1>4. CASE done' = done
    <2>1. CASE done.step = "running"
      BY <1>4, <2>1 DEF ResultIsExplained, PublishedIsExplained, Published
    <2>2. CASE done.step = "published"
      BY <1>1, <1>4, <2>2 DEF ResultIsExplained, PublishedIsExplained, Published
    <2>3. CASE done.step \in {"decided", "built", "rebuilt"}
      <3>1. CASE ~AvOnly /\ TimedOut'
        BY <1>1, <1>4, <2>3, <3>1 DEF ResultIsExplained, PublishedIsExplained, Published
      <3>2. CASE AvOnly \/ ctx'[Upload] = ctx[Upload]
        <4>1. CASE ~AvOnly /\ TimedOut
          BY <1>1, <1>2, <1>4, <2>3, <4>1 DEF ResultIsExplained, PublishedIsExplained, Published
        <4>2. CASE Explained
          <5>1. Shown' = Shown /\ (~AvOnly => ctx'[Upload] = ctx[Upload])
            BY <1>1, <1>4, <3>2 DEF Shown
          <5>2. Explained'
            BY <1>1, <1>4, <4>2, <5>1 DEF Explained, FollowsFrom
          <5> QED
            BY <1>1, <1>4, <2>3, <5>2 DEF ResultIsExplained, PublishedIsExplained, Published
        <4> QED
          BY <2>3, <4>1, <4>2 DEF ResultIsExplained
      <3>3. TimedOut' \/ ctx'[Upload] = ctx[Upload]
        BY <1>4, <2>3, LateOrQuiet
      <3> QED
        BY <3>1, <3>2, <3>3
    <2> QED
      BY <2>1, <2>2, <2>3 DEF DoneTypes, Steps
  <1>5. CASE Decide
    <2>1. /\ done.step = "running" /\ done'.step = "decided" /\ ctx' = ctx
          /\ done'.verdict = VerdictOf(Facts, Policy) /\ done'.facts = Facts
          /\ done'.score = VerdictAndScore(Facts, Policy)[2]
          /\ done'.status = "scanning" /\ ~done'.allowlisted
      BY <1>5, DoneMoves, ResultMoves DEF Decide, ResultIsExplained
    <2>2. Facts' = Facts /\ Shown' = Facts.findings
      BY <1>1, <2>1 DEF Facts, Shown
    <2>3. ScoreOf(Facts.findings) <= done'.score
      <3>1. Weighed(Facts.findings)
        <4>1. ctx[Upload].findings \in FindingSets
          BY PipelineAssumption, ContextFields DEF FileTypes
        <4>2. Weighed(ctx[Upload].findings) /\ Weighed(job.cached.facts.findings)
          BY <4>1, FindingFacts, PolicyFacts
        <4>3. \A a, b : Weighed(a) /\ Weighed(b) => Weighed(Join(a, b))
          <5> SUFFICES ASSUME NEW a, NEW b, Weighed(a), Weighed(b) PROVE Weighed(Join(a, b))
            OBVIOUS
          <5> DEFINE new == {f \in b : f.code \notin Codes(a)}
          <5>1. IsFiniteSet(new) /\ new \subseteq b
            BY FS_Subset DEF Weighed
          <5>2. Join(a, b) = a \cup new
            BY DEF Join
          <5> HIDE DEF new
          <5> QED
            BY <5>1, <5>2, FS_Union DEF Weighed
        <4>4. Facts.findings = IF AvOnly THEN Join(job.cached.facts.findings, ctx[Upload].findings)
                               ELSE ctx[Upload].findings
          BY DEF Facts, Merge
        <4> QED
          BY <4>2, <4>3, <4>4
      <3> QED
        BY <2>1, <3>1, ScoreIsShown, PolicyFacts
    <2>4. FollowsFrom(VerdictAndScore(done.facts, Policy))'
      BY <1>1, <2>1 DEF FollowsFrom, VerdictOf
    <2>5. ~AvOnly => done'.facts = ctx'[Upload]
      BY <2>1 DEF Facts
    <2>6. Explained'
      BY <1>1, <2>2, <2>3, <2>4, <2>5 DEF Explained
    <2> QED
      BY <2>1, <2>6 DEF ResultIsExplained, PublishedIsExplained, Published
  <1>6. ASSUME done.step \in {"decided", "built", "rebuilt"}, ctx' = ctx,
               ~AvOnly /\ TimedOut, done'.step \in {"built", "rebuilt"},
               done'.step = "built" => done'.status = "done"
        PROVE  ResultIsExplained'
    <2>1. ~AvOnly' /\ TimedOut'
      BY <1>1, <1>2, <1>6
    <2> QED
      BY <1>6, <2>1 DEF ResultIsExplained, PublishedIsExplained, Published
  <1>7. CASE Allowlist
    <2>1. /\ done.step = "decided" /\ done'.step = "built" /\ ctx' = ctx
          /\ done'.score = done.score /\ done'.status = "done"
          /\ done'.facts = IF AvOnly THEN done.facts ELSE ctx[Upload]
          /\ \/ done'.allowlisted /\ done.verdict = "malicious" /\ done'.verdict = "suspicious"
             \/ ~done'.allowlisted /\ done'.verdict = done.verdict
          /\ ~done.allowlisted /\ done.status = "scanning"
      BY <1>7, DoneMoves, ResultMoves DEF Allowlist, ResultIsExplained
    <2>2. CASE Explained
      <3>1. done'.facts = done.facts /\ (~AvOnly => done'.facts = ctx'[Upload])
        BY <2>1, <2>2 DEF Explained
      <3>2. Shown' = Shown
        BY <1>1, <2>1, <3>1 DEF Shown
      <3>3. FollowsFrom(VerdictAndScore(done.facts, Policy))'
        BY <1>1, <2>1, <2>2, <3>1 DEF FollowsFrom, Explained
      <3>4. ScoreOf(Shown') <= done'.score
        BY <2>1, <2>2, <3>2 DEF Explained
      <3>5. Explained'
        BY <1>1, <3>1, <3>3, <3>4 DEF Explained
      <3> QED
        BY <2>1, <3>5 DEF ResultIsExplained, PublishedIsExplained, Published
    <2> QED
      BY <1>6, <2>1, <2>2 DEF ResultIsExplained
  <1>8. CASE Rebuild \/ RebuildFails
    <2>1. /\ done.step = "built" /\ done'.step = "rebuilt" /\ ~AvOnly
          /\ done'.score = done.score /\ done'.facts = done.facts
          /\ done'.allowlisted = done.allowlisted /\ done.status = "done"
          /\ \/ done'.verdict = done.verdict /\ done'.status = "done"
             \/ done'.verdict = ApplyFailure(done.verdict, Policy) /\ done'.status = "failed"
      BY <1>8, DoneMoves, ResultMoves DEF ResultIsExplained, ShouldSanitize
    <2>2. CASE TimedOut
      BY <1>1, <1>2, <2>1, <2>2 DEF ResultIsExplained, PublishedIsExplained, Published
    <2>3. CASE Explained
      <3>1. ScoreOf(ctx'[Upload].findings) <= done'.score
        <4>1. ScoreOf(ctx[Upload].findings) <= done.score
              /\ done.facts = ctx[Upload]
          BY <2>1, <2>3 DEF Explained, Shown
        <4>2. CASE Rebuild
          BY <2>1, <4>1, <4>2 DEF Rebuild
        <4>3. CASE RebuildFails
          <5>1. /\ ScoreOf(ctx'[Upload].findings) <= ScoreOf(ctx[Upload].findings)
                /\ ScoreOf(ctx'[Upload].findings) \in Nat /\ ScoreOf(ctx[Upload].findings) \in Nat
            BY <4>3, FailureWeighsNothing
          <5>2. done.score \in Nat
            <6>1. VerdictAndScore(ctx[Upload], Policy)[2] \in
                    {ScoreOf(ctx[Upload].findings), Lifted(ScoreOf(ctx[Upload].findings), Policy)}
              BY DEF VerdictAndScore
            <6>2. Lifted(ScoreOf(ctx[Upload].findings), Policy) \in Nat
              BY <5>1, PolicyFacts, MostOfTwo DEF Lifted
            <6> QED
              BY <2>3, <4>1, <5>1, <6>1, <6>2 DEF Explained, FollowsFrom
          <5> QED
            BY <2>1, <4>1, <5>1, <5>2
        <4> QED
          BY <1>8, <4>2, <4>3
      <3>2. FollowsFrom(VerdictAndScore(done.facts, Policy))
        BY <2>3 DEF Explained
      <3>3. \A p : ApplyFailure("suspicious", p) = "suspicious"
        BY DEF ApplyFailure
      <3>4. FollowsFrom(VerdictAndScore(done.facts, Policy))'
        <4>1. CASE done.allowlisted
          BY <1>1, <1>3, <2>1, <3>2, <3>3, <4>1 DEF FollowsFrom
        <4>2. CASE ~done.allowlisted
          BY <1>1, <1>3, <2>1, <3>2, <4>2 DEF FollowsFrom
        <4> QED
          BY <4>1, <4>2
      <3>5. Explained'
        BY <1>1, <2>1, <3>1, <3>4 DEF Explained, Shown
      <3> QED
        BY <2>1, <3>5 DEF ResultIsExplained, PublishedIsExplained, Published
    <2> QED
      BY <2>1, <2>2, <2>3 DEF ResultIsExplained
  <1>9. CASE Publish
    <2>1. /\ done.step \in {"built", "rebuilt"} /\ done'.step = "published"
          /\ done'.score = done.score /\ done'.facts = done.facts
          /\ done'.allowlisted = done.allowlisted /\ done'.status = done.status
          /\ done'.verdict = done.verdict /\ done'.findings = Shown
      BY <1>9, DoneMoves, ResultMoves
    <2>2. PublishedIsExplained'
      <3>1. CASE ~AvOnly /\ TimedOut
        <4>1. "STAGE_TIMEOUT" \in Codes(done'.findings)
          BY <2>1, <3>1 DEF Shown, TimedOut
        <4> QED
          BY <4>1 DEF PublishedIsExplained
      <3>2. CASE Explained
        <4> DEFINE answer == VerdictAndScore(done.facts, Policy)
        <4>1. /\ done.score = answer[2]
              /\ done.allowlisted => answer[1] = "malicious" /\ done.verdict = "suspicious"
              /\ ~done.allowlisted /\ done.status = "failed" =>
                   done.verdict = ApplyFailure(answer[1], Policy)
              /\ ~done.allowlisted /\ done.status # "failed" => done.verdict = answer[1]
          BY <3>2 DEF Explained, FollowsFrom
        <4>2. ScoreOf(done'.findings) <= done'.score
          BY <2>1, <3>2 DEF Explained
        <4>3. answer' = answer
          BY <1>1, <2>1
        <4> HIDE DEF answer
        <4>4. /\ done'.score = answer[2]
              /\ CASE done'.allowlisted -> answer[1] = "malicious" /\ done'.verdict = "suspicious"
                   [] ~done'.allowlisted /\ done'.status = "failed" ->
                        done'.verdict = ApplyFailure(answer[1], Policy)
                   [] OTHER -> done'.verdict = answer[1]
          <5>1. CASE done.allowlisted
            BY <2>1, <4>1, <5>1
          <5>2. CASE ~done.allowlisted /\ done.status = "failed"
            BY <2>1, <4>1, <5>2
          <5>3. CASE ~done.allowlisted /\ done.status # "failed"
            BY <2>1, <4>1, <5>3
          <5> QED
            BY <1>3, <5>1, <5>2, <5>3
        <4> QED
          BY <1>1, <2>1, <4>2, <4>3, <4>4 DEF PublishedIsExplained, answer
      <3> QED
        BY <2>1, <3>1, <3>2 DEF ResultIsExplained
    <2> QED
      BY <2>1, <2>2 DEF ResultIsExplained
  <1> QED
    BY <1>4, <1>5, <1>7, <1>8, <1>9, DoneOfOthers DEF Decides

-----------------------------------------------------------------------------
(* The limits of the tree *)

(* No step but that into a member changes what the limits are about. *)
LEMMA GhostMoves ==
  ASSUME PathIsNested, FileTypes, CountTypes, IsFiniteSet(Pending), PipelineNext
  PROVE  \/ Extract
         \/ ghost' \in [missed : SUBSET {"entry", "content", "stage"}, stopped : BOOLEAN,
                        passes : {ghost.passes}, written : {ghost.written}]
  <1> DEFINE Same == \/ ghost' = ghost \/ ghost' = [ghost EXCEPT !.stopped = TRUE]
                     \/ \E why \in {"entry", "content", "stage"} : ghost' = Miss(why)
  <1>1. BudgetTypes /\ Current \in File
    BY CurrentFacts DEF CountTypes, BudgetTypes
  <1>2. ASSUME NEW s \in StageNames, StageSucceeds(s) PROVE Same
    BY <1>1, <1>2, StageWrote DEF StageSucceeds, Wrote, MissesMarked
  <1>3. ASSUME NEW s \in StageNames, StageRaises(s) \/ StageTimesOut(s) PROVE Same
    BY <1>3 DEF StageRaises, StageTimesOut
  <1>4. ASSUME NEW f \in File, NEW s \in StageNames, LateWrite(f, s) PROVE Same
    BY <1>1, <1>4, LateWriteMarks DEF Wrote, MissesMarked
  <1>5. ASSUME NEW f \in File, LateSpend(f) PROVE Same
    BY <1>5 DEF LateSpend
  <1>6. ASSUME Arrives \/ GivesUp \/ LeaveMember \/ Decides \/ RebuildFails \/ Deadline
        PROVE  Same
    BY <1>6 DEF Arrives, Expand, NothingToExpand, AllMembers, StopMembers, GivesUp,
        OutOfTime, Overflow, Unreadable, LeaveMember,
        Decides, Decide, Allowlist, Rebuild, Publish, RebuildFails, Deadline
  <1>7. ASSUME Same
        PROVE  ghost' \in [missed : SUBSET {"entry", "content", "stage"}, stopped : BOOLEAN,
                           passes : {ghost.passes}, written : {ghost.written}]
    <2>1. ghost \in [missed : SUBSET {"entry", "content", "stage"}, stopped : BOOLEAN,
                     passes : {ghost.passes}, written : {ghost.written}]
      BY DEF CountTypes
    <2>2. CASE ghost' = ghost
      BY <2>1, <2>2
    <2>3. CASE ghost' = [ghost EXCEPT !.stopped = TRUE]
      BY <2>1, <2>3
    <2>4. ASSUME NEW why \in {"entry", "content", "stage"}, ghost' = Miss(why)
          PROVE  ghost' \in [missed : SUBSET {"entry", "content", "stage"}, stopped : BOOLEAN,
                             passes : {ghost.passes}, written : {ghost.written}]
      <3>1. ghost' = [ghost EXCEPT !.missed = ghost.missed \cup {why}]
        BY <2>4 DEF Miss
      <3>2. ghost.missed \cup {why} \in SUBSET {"entry", "content", "stage"}
        BY <2>1
      <3> QED
        BY <2>1, <3>1, <3>2
    <2> QED
      BY <1>7, <2>2, <2>3, <2>4
  <1> HIDE DEF Same
  <1> QED
    BY <1>2, <1>3, <1>4, <1>5, <1>6, <1>7, StepKinds

LEMMA PendingShrinks ==
  ASSUME IsFiniteSet(Pending), Pending' \subseteq Pending
  PROVE  /\ IsFiniteSet(Pending') /\ Cardinality(Pending') <= Cardinality(Pending)
         /\ Cardinality(Pending) \in Nat /\ Cardinality(Pending') \in Nat
  <1>1. IsFiniteSet(Pending') /\ Cardinality(Pending') <= Cardinality(Pending)
    BY FS_Subset
  <1> QED
    BY <1>1, FS_CardinalityType

(* What becomes of the budget and of what is waiting, outside of Extract. *)
Balanced ==
  /\ BudgetTypes' /\ budget.unpacked <= budget'.unpacked
  /\ IsFiniteSet(Pending') /\ Cardinality(Pending) \in Nat /\ Cardinality(Pending') \in Nat
  /\ Cardinality(Pending') + budget.entries <= Cardinality(Pending) + budget'.entries

LEMMA BudgetFields ==
  ASSUME BudgetTypes
  PROVE  /\ budget.unpacked \in Nat /\ budget.entries \in Nat
         /\ budget.entries \in 0 .. MaxArchiveEntries /\ MaxArchiveEntries \in Nat
  BY PipelineAssumption DEF BudgetTypes

LEMMA SpentIsBalanced ==
  ASSUME BudgetTypes, IsFiniteSet(Pending), Pending' \subseteq Pending, NEW bytes \in Nat,
         budget' = [budget EXCEPT !.unpacked = @ + bytes] \/ budget' = budget
           \/ budget' = [budget EXCEPT !.expired = TRUE]
  PROVE  Balanced
  <1>1. /\ budget.unpacked \in Nat /\ budget.entries \in Nat
        /\ budget.entries \in 0 .. MaxArchiveEntries
    BY BudgetFields
  <1>2. budget.unpacked + bytes \in Nat /\ budget.unpacked <= budget.unpacked + bytes
    BY <1>1
  <1>3. /\ BudgetTypes' /\ budget'.entries = budget.entries
        /\ budget'.unpacked \in {budget.unpacked, budget.unpacked + bytes}
    BY <1>2 DEF BudgetTypes
  <1>4. budget.unpacked <= budget'.unpacked
    BY <1>1, <1>2, <1>3
  <1>5. /\ IsFiniteSet(Pending') /\ Cardinality(Pending') <= Cardinality(Pending)
        /\ Cardinality(Pending) \in Nat /\ Cardinality(Pending') \in Nat
    BY PendingShrinks
  <1>6. Cardinality(Pending') + budget.entries <= Cardinality(Pending) + budget'.entries
    BY <1>1, <1>3, <1>5
  <1> QED
    BY <1>3, <1>4, <1>5, <1>6 DEF Balanced

LEMMA LateSpendIsBalanced ==
  ASSUME BudgetTypes, IsFiniteSet(Pending), NEW f \in File, LateSpend(f)
  PROVE  Balanced
  <1>1. PICK listing \in Listings(f), taken \in SUBSET DOMAIN Entries[f] :
          /\ Takes(listing, taken)
          /\ budget' = [budget EXCEPT !.declared = Inspect(f, listing, taken).declared,
                                      !.entries = Inspect(f, listing, taken).entries]
    BY DEF LateSpend
  <1> DEFINE entries == Inspect(f, listing, taken).entries
  <1>2. /\ budget.unpacked \in Nat /\ budget.entries \in Nat
        /\ budget.entries \in 0 .. MaxArchiveEntries /\ MaxArchiveEntries \in Nat
    BY BudgetFields
  <1>3. entries = budget.entries + 0 \/ entries = budget.entries + Cardinality(taken)
    BY DEF Inspect
  <1>4. /\ Cardinality(taken) \in Nat
        /\ budget.entries + Cardinality(taken) \in 0 .. MaxArchiveEntries
    BY <1>1, <1>2, TakenFits
  <1> HIDE DEF entries
  <1>5. entries \in 0 .. MaxArchiveEntries /\ entries \in Nat /\ budget.entries <= entries
    BY <1>2, <1>3, <1>4
  <1>6. BudgetTypes' /\ budget'.entries = entries /\ budget'.unpacked = budget.unpacked
    BY <1>1, <1>5 DEF BudgetTypes, entries
  <1>7. Pending' = Pending
    BY DEF LateSpend, Pending
  <1>8. Cardinality(Pending) \in Nat
    BY FS_CardinalityType
  <1>9. Cardinality(Pending') + budget.entries <= Cardinality(Pending) + budget'.entries
    BY <1>2, <1>5, <1>6, <1>7, <1>8
  <1>10. budget.unpacked <= budget'.unpacked
    BY <1>2, <1>6
  <1> QED
    BY <1>6, <1>7, <1>8, <1>9, <1>10 DEF Balanced

LEMMA StepsAreBalanced ==
  ASSUME PathIsNested, FileTypes, CountTypes, IsFiniteSet(Pending), PipelineNext
  PROVE  Extract \/ Balanced
  <1>1. BudgetTypes /\ Current \in File /\ 0 \in Nat
    BY CurrentFacts DEF CountTypes, BudgetTypes
  <1>2. ASSUME IsBooked PROVE Balanced
    <2>1. budget.unpacked <= budget'.unpacked
      BY <1>1, <1>2, BudgetFields DEF IsBooked
    <2> QED
      BY <1>2, <2>1 DEF IsBooked, Balanced
  <1>3. ASSUME NEW s \in StageNames, StageSucceeds(s) PROVE Balanced
    BY <1>1, <1>2, <1>3, StageWrote DEF StageSucceeds, Wrote
  <1>4. ASSUME NEW f \in File, NEW s \in StageNames, LateWrite(f, s) PROVE Balanced
    BY <1>1, <1>2, <1>4, LateWriteMarks DEF Wrote
  <1>5. ASSUME NEW f \in File, LateSpend(f) PROVE Balanced
    BY <1>1, <1>5, LateSpendIsBalanced
  <1>6. CASE budget' = budget /\ todo' = todo
    <2>1. Pending' \subseteq Pending
      BY <1>6 DEF Pending
    <2> QED
      BY <1>1, <1>6, <2>1, SpentIsBalanced
  <1>7. ASSUME NEW s \in StageNames, StageRaises(s) \/ StageTimesOut(s)
        PROVE  budget' = budget /\ todo' = todo
    BY <1>7 DEF StageRaises, StageTimesOut
  <1>8. Arrives \/ OutOfTime \/ Decides \/ RebuildFails => budget' = budget /\ todo' = todo
    BY DEF Arrives, Expand, NothingToExpand, AllMembers, StopMembers, OutOfTime,
      Decides, Decide, Allowlist, Rebuild, Publish, RebuildFails
  <1>9. CASE Deadline
    <2>1. budget' = [budget EXCEPT !.expired = TRUE] /\ Pending' \subseteq Pending
      BY <1>9 DEF Deadline, Pending
    <2> QED
      BY <1>1, <2>1, SpentIsBalanced
  <1>10. CASE LeaveMember
    <2>1. budget' = budget /\ todo' = [todo EXCEPT ![Current] = {}]
      BY <1>10 DEF LeaveMember
    <2>2. Pending' \subseteq Pending
      BY <2>1 DEF Pending, FileTypes
    <2> QED
      BY <1>1, <2>1, <2>2, SpentIsBalanced
  <1>11. CASE Overflow
    <2>1. PICK bytes \in 1 .. MaxMember + 1 : budget' = [budget EXCEPT !.unpacked = @ + bytes]
      BY <1>11 DEF Overflow
    <2>2. bytes \in Nat
      BY PipelineAssumption
    <2>3. Pending' \subseteq Pending
      BY <1>11 DEF Overflow, Pending
    <2> QED
      BY <1>1, <2>1, <2>2, <2>3, SpentIsBalanced
  <1>12. CASE Unreadable
    <2>1. PICK bytes \in 0 .. Entry.size : budget' = [budget EXCEPT !.unpacked = @ + bytes]
      BY <1>12 DEF Unreadable
    <2>2. bytes \in Nat
      <3>1. Entry \in Items
        BY <1>12, EntryFacts DEF Unreadable, Unpacking
      <3>2. Entry.size \in Nat
        BY <3>1 DEF Items
      <3> QED
        BY <3>2
    <2>3. Pending' \subseteq Pending
      <3>1. todo' = [todo EXCEPT ![Current] = todo[Current] \ {Entry}]
        BY <1>12 DEF Unreadable
      <3> QED
        BY <3>1 DEF Pending, FileTypes
    <2> QED
      BY <1>1, <2>1, <2>2, <2>3, SpentIsBalanced
  <1> QED
    BY <1>3, <1>4, <1>5, <1>6, <1>7, <1>8, <1>9, <1>10, <1>11, <1>12, StepKinds DEF GivesUp

(* The step into a member takes an entry off what is waiting, and writes what
   the tree has room for. *)
LEMMA ExtractIsCounted ==
  ASSUME PathIsNested, FileTypes, CountTypes, IsFiniteSet(Pending), BytesAreCounted, Extract
  PROVE  /\ CountTypes' /\ BytesAreCounted'
         /\ budget'.entries = budget.entries /\ ghost'.passes = ghost.passes + 1
         /\ IsFiniteSet(Pending') /\ Cardinality(Pending) \in Nat
         /\ Cardinality(Pending') \in Nat
         /\ Cardinality(Pending') + 1 <= Cardinality(Pending)
  <1>1. /\ Entry \in todo[Current] /\ Entry \in Items /\ Current \in File
        /\ Member # Current /\ Member \in File
    BY CurrentFacts, EntryFacts DEF Extract, Unpacking
  <1>2. /\ budget' = [budget EXCEPT !.unpacked = @ + Entry.size]
        /\ ghost' = [ghost EXCEPT !.passes = @ + 1, !.written = @ + Entry.size]
        /\ todo' = [todo EXCEPT ![Current] = todo[Current] \ {Entry}, ![Member] = {}]
        /\ ~Overruns(Entry.size)
    BY DEF Extract
  <1>3. Entry.size \in Nat /\ budget.unpacked \in Nat /\ MaxUnpacked \in Nat
        /\ ghost.written \in Nat /\ ghost.passes \in Nat
    BY <1>1, PipelineAssumption DEF Items, CountTypes
  <1>4. budget.unpacked + Entry.size <= MaxUnpacked
    BY <1>2, <1>3 DEF Overruns
  <1>5. ghost.written + Entry.size <= budget.unpacked + Entry.size
    BY <1>3 DEF BytesAreCounted
  <1> DEFINE size == Entry.size
  <1>6. size \in Nat /\ ghost.written + size \in 0 .. MaxUnpacked
        /\ budget.unpacked + size \in Nat /\ ghost.passes + 1 \in Nat
    BY <1>3, <1>4, <1>5
  <1>7. /\ CountTypes' /\ budget'.entries = budget.entries
        /\ ghost'.passes = ghost.passes + 1 /\ ghost'.written = ghost.written + size
        /\ budget'.unpacked = budget.unpacked + size
    <2>1. /\ budget' = [budget EXCEPT !.unpacked = budget.unpacked + size]
          /\ ghost' = [ghost EXCEPT !.passes = ghost.passes + 1,
                                    !.written = ghost.written + size]
      BY <1>2
    <2> HIDE DEF size
    <2> QED
      BY <1>6, <2>1 DEF CountTypes
  <1>8. BytesAreCounted'
    BY <1>5, <1>7 DEF BytesAreCounted
  <1> DEFINE item == <<Current, Entry>>
  <1>9. item \in Pending /\ Pending' \subseteq Pending \ {item}
    <2>1. todo \in [File -> SUBSET Items]
      BY DEF FileTypes
    <2> HIDE DEF Current, Entry, Member
    <2> QED
      BY <1>1, <1>2, <2>1 DEF Pending
  <1> HIDE DEF item
  <1>10. /\ IsFiniteSet(Pending \ {item})
         /\ Cardinality(Pending \ {item}) = Cardinality(Pending) - 1
    BY <1>9, FS_RemoveElement
  <1>11. /\ IsFiniteSet(Pending')
         /\ Cardinality(Pending') <= Cardinality(Pending \ {item})
    BY <1>9, <1>10, FS_Subset
  <1>12. Cardinality(Pending) \in Nat /\ Cardinality(Pending') \in Nat
    BY <1>11, FS_CardinalityType
  <1>13. Cardinality(Pending') + 1 <= Cardinality(Pending)
    BY <1>10, <1>11, <1>12
  <1> QED
    BY <1>7, <1>8, <1>11, <1>12, <1>13

LEMMA CountsNext ==
  ASSUME PathIsNested, FileTypes, CountTypes, EntriesAreCounted, BytesAreCounted, PipelineNext
  PROVE  CountTypes' /\ EntriesAreCounted' /\ BytesAreCounted'
  <1>1. IsFiniteSet(Pending) /\ ghost.passes + Cardinality(Pending) <= 1 + budget.entries
    BY DEF EntriesAreCounted
  <1>2. /\ ghost.passes \in Nat /\ ghost.written \in 0 .. MaxUnpacked
        /\ ghost.written \in Nat /\ budget.entries \in Nat /\ budget.unpacked \in Nat
    BY PipelineAssumption DEF CountTypes
  <1>3. CASE Extract
    <2>1. /\ CountTypes' /\ BytesAreCounted'
          /\ budget'.entries = budget.entries /\ ghost'.passes = ghost.passes + 1
          /\ IsFiniteSet(Pending') /\ Cardinality(Pending) \in Nat
          /\ Cardinality(Pending') \in Nat
          /\ Cardinality(Pending') + 1 <= Cardinality(Pending)
      BY <1>1, <1>3, ExtractIsCounted
    <2>2. ghost'.passes + Cardinality(Pending') <= 1 + budget'.entries
      BY <1>1, <1>2, <2>1
    <2> QED
      BY <2>1, <2>2 DEF EntriesAreCounted
  <1>4. CASE ~Extract
    <2>1. /\ Balanced
          /\ ghost' \in [missed : SUBSET {"entry", "content", "stage"}, stopped : BOOLEAN,
                         passes : {ghost.passes}, written : {ghost.written}]
      BY <1>1, <1>4, StepsAreBalanced, GhostMoves
    <2>2. CountTypes' /\ ghost'.passes = ghost.passes /\ ghost'.written = ghost.written
      BY <1>2, <2>1 DEF Balanced, BudgetTypes, CountTypes
    <2>3. budget'.entries \in Nat /\ budget'.unpacked \in Nat
      BY <2>2, PipelineAssumption DEF CountTypes
    <2>4. BytesAreCounted'
      BY <1>2, <2>1, <2>2, <2>3 DEF BytesAreCounted, Balanced
    <2>5. ghost'.passes + Cardinality(Pending') <= 1 + budget'.entries
      BY <1>1, <1>2, <2>1, <2>2, <2>3 DEF Balanced
    <2> QED
      BY <2>1, <2>2, <2>4, <2>5 DEF EntriesAreCounted, Balanced
  <1> QED
    BY <1>3, <1>4

-----------------------------------------------------------------------------
(* The invariant *)

LEMMA PipelineInitHolds ==
  PipelineInit => PipelineIInv
  <1> SUFFICES ASSUME PipelineInit PROVE PipelineIInv
    OBVIOUS
  <1>1. path = <<Upload>> /\ Upload \in File /\ Depth[Upload] = 0
    BY PipelineAssumption DEF PipelineInit
  <1>2. PathIsNested
    <2>1. path \in Seq(File) /\ Len(path) = 1 /\ path[1] = Upload
      BY <1>1
    <2>2. \A i \in 1 .. Len(path) : i = 1
      BY <2>1
    <2> QED
      BY <1>1, <2>1, <2>2 DEF PathIsNested
  <1>3. FileTypes
    <2>1. /\ "clamav" \in Places /\ "filetype" \in Places
      BY StageFacts DEF Places
    <2>2. at \in [File -> Places]
      BY <2>1 DEF PipelineInit
    <2>3. ctx \in [File -> Contexts]
      BY NewContextFits DEF PipelineInit
    <2>4. todo \in [File -> SUBSET Items] /\ \A f \in File : todo[f] = {}
      BY DEF PipelineInit
    <2>5. orphans = {} /\ faults \in 0 .. Faults
      BY PipelineAssumption DEF PipelineInit
    <2> QED
      BY <2>2, <2>3, <2>4, <2>5 DEF FileTypes
  <1>4. DoneTypes
    BY DEF PipelineInit, DoneTypes, NoResult, NoArtifact, Steps, Verdicts
  <1>5. CountTypes
    BY PipelineAssumption DEF PipelineInit, NoBudget, CountTypes
  <1>6. MissLeavesAMark /\ LateIsMarked
    BY DEF PipelineInit, MissLeavesAMark, LateIsMarked
  <1>7. DecidedOnMarks /\ ArtifactIsLate
    BY DEF PipelineInit, NoResult, NoArtifact, DecidedOnMarks, ArtifactIsLate
  <1>8. MembersAreNotDeep
    <2>1. \A f \in File : at[f] # "members"
      BY DEF PipelineInit
    <2>2. Len(path) <= 2 + MaxArchiveDepth
      BY <1>1, PipelineAssumption
    <2> QED
      BY <2>1, <2>2 DEF MembersAreNotDeep
  <1>9. EntriesAreCounted
    <2>1. Pending = {}
      BY DEF PipelineInit, Pending
    <2>2. ghost.passes = 1 /\ budget.entries = 0
      BY DEF PipelineInit, NoBudget
    <2> QED
      BY <2>1, <2>2, FS_EmptySet DEF EntriesAreCounted
  <1>10. BytesAreCounted
    BY DEF PipelineInit, NoBudget, BytesAreCounted
  <1>11. CachedIsNotUnpacked /\ StopIsBlocked /\ LateIsTold
    BY <1>1 DEF PipelineInit, CachedIsNotUnpacked, StopIsBlocked, LateIsTold
  <1>12. ResultIsExplained
    BY DEF PipelineInit, NoResult, ResultIsExplained, PublishedIsExplained, Published
  <1> QED
    BY <1>2, <1>3, <1>4, <1>5, <1>6, <1>7, <1>8, <1>9, <1>10, <1>11, <1>12 DEF PipelineIInv

LEMMA PipelineNextKeeps ==
  PipelineIInv /\ [PipelineNext]_pipelineVars => PipelineIInv'
  <1> SUFFICES ASSUME PipelineIInv, [PipelineNext]_pipelineVars PROVE PipelineIInv'
    OBVIOUS
  <1> USE DEF PipelineIInv
  <1>1. CASE PipelineNext
    <2>1. IsFiniteSet(Pending)
      BY DEF EntriesAreCounted
    <2>2. PathIsNested' /\ FileTypes' /\ DoneTypes' /\ MembersAreNotDeep'
      BY <1>1, <2>1, PathIsNestedNext, FileTypesNext, DoneTypesNext, MembersAreNotDeepNext
    <2>3. MissLeavesAMark' /\ LateIsMarked' /\ DecidedOnMarks'
      BY <1>1, <2>1, MissLeavesAMarkNext, LateIsMarkedNext, DecidedOnMarksNext
    <2>4. CountTypes' /\ EntriesAreCounted' /\ BytesAreCounted' /\ ArtifactIsLate'
      BY <1>1, CountsNext, ArtifactIsLateNext
    <2>5. CachedIsNotUnpacked' /\ StopIsBlocked' /\ LateIsTold' /\ ResultIsExplained'
      BY <1>1, <2>1, CachedIsNotUnpackedNext, StopIsBlockedNext, LateIsToldNext,
        ResultIsExplainedNext
    <2> QED
      BY <2>2, <2>3, <2>4, <2>5
  <1>2. CASE UNCHANGED pipelineVars
    <2>1. Pending' = Pending /\ OnPath' = OnPath /\ AvOnly' = AvOnly /\ Policy' = Policy
      BY <1>2 DEF pipelineVars, Pending, OnPath, AvOnly, Policy
    <2>2. PathIsNested' /\ FileTypes' /\ DoneTypes' /\ CountTypes' /\ MembersAreNotDeep'
      BY <1>2 DEF pipelineVars, PathIsNested, FileTypes, DoneTypes, CountTypes,
        MembersAreNotDeep
    <2>3. MissLeavesAMark' /\ LateIsMarked' /\ DecidedOnMarks'
      BY <1>2, <2>1 DEF pipelineVars, MissLeavesAMark, LateIsMarked, DecidedOnMarks
    <2>4. EntriesAreCounted' /\ BytesAreCounted' /\ ArtifactIsLate'
      BY <1>2, <2>1 DEF pipelineVars, EntriesAreCounted, BytesAreCounted, ArtifactIsLate
    <2>5. TimedOut' = TimedOut /\ Shown' = Shown
      BY <1>2, <2>1 DEF pipelineVars, TimedOut, Shown
    <2>6. CachedIsNotUnpacked' /\ StopIsBlocked' /\ LateIsTold'
      BY <1>2, <2>1, <2>5 DEF pipelineVars, CachedIsNotUnpacked, StopIsBlocked, LateIsTold
    <2>7. ResultIsExplained'
      <3>1. PublishedIsExplained' = PublishedIsExplained
        BY <1>2, <2>1 DEF pipelineVars, PublishedIsExplained, Published
      <3>2. Explained' = Explained
        BY <1>2, <2>1, <2>5 DEF pipelineVars, Explained, FollowsFrom
      <3> QED
        BY <1>2, <2>1, <2>5, <3>1, <3>2 DEF pipelineVars, ResultIsExplained
    <2> QED
      BY <2>2, <2>3, <2>4, <2>6, <2>7
  <1> QED
    BY <1>1, <1>2

LEMMA PipelineIInvHolds == PipelineSpec => []PipelineIInv
  BY PipelineInitHolds, PipelineNextKeeps, PTL DEF PipelineSpec

LEMMA IInvIsPipelineInv == PipelineIInv => PipelineInv
  <1> SUFFICES ASSUME PipelineIInv PROVE PipelineInv
    OBVIOUS
  <1> USE DEF PipelineIInv
  <1>1. PipelineTypeOK
    <2>1. path \in Seq(File) /\ path[1] = Upload
      BY DEF PathIsNested
    <2>2. at \in [File -> StageNames \cup {"expand", "members", "left"}] /\ faults \in 0 .. Faults
      BY DEF FileTypes, Places
    <2>3. ASSUME NEW f \in File PROVE Codes(ctx[f].findings) \subseteq DOMAIN DefaultWeights
      <3>1. ctx[f].findings \in FindingSets
        BY ContextFields DEF FileTypes
      <3> QED
        BY <3>1, FindingFacts DEF Codes, FindingSets
    <2>4. done.verdict \in Verdicts /\ done.artifact \in Profiles \cup {"none"}
      BY DEF DoneTypes
    <2> QED
      BY <2>1, <2>2, <2>3, <2>4 DEF PipelineTypeOK
  <1>2. TreeFitsBudget
    <2>1. /\ ghost.written \in 0 .. MaxUnpacked /\ ghost.passes \in Nat
          /\ budget.entries \in 0 .. MaxArchiveEntries
          /\ MaxUnpacked \in Nat /\ MaxArchiveEntries \in Nat
      BY PipelineAssumption DEF CountTypes
    <2>2. /\ ghost.passes + Cardinality(Pending) <= 1 + budget.entries
          /\ Cardinality(Pending) \in Nat
      BY FS_CardinalityType DEF EntriesAreCounted
    <2>3. ghost.written <= MaxUnpacked
      BY <2>1
    <2>4. ghost.passes <= 1 + MaxArchiveEntries
      BY <2>1, <2>2
    <2> QED
      BY <2>3, <2>4 DEF TreeFitsBudget, MembersAreNotDeep
  <1>3. ArtifactFitsVerdict
    BY DEF ArtifactFitsVerdict, ArtifactIsLate, NoArtifact
  <1> QED
    BY <1>1, <1>2, <1>3 DEF PipelineInv

LEMMA IInvIsCleanMeansChecked == PipelineIInv => CleanMeansChecked
  <1> SUFFICES ASSUME PipelineIInv, Published, done.verdict = "clean",
                      Policy.failMode # "fail-open"
               PROVE  ghost.missed = {}
    BY DEF CleanMeansChecked
  <1>1. path = <<Upload>> /\ ~Marked(ctx[Upload])
    BY DEF PipelineIInv, DecidedOnMarks, Published
  <1>2. OnPath = {Upload}
    BY <1>1 DEF OnPath
  <1> QED
    BY <1>1, <1>2 DEF PipelineIInv, MissLeavesAMark

(* The tree of archives stays within the limits of depth, entries and bytes,
   however it is nested and whenever a late inventory spends its budget, and
   what is handed out fits the verdict it is published with (pipeline.py,
   _scan_members and _should_sanitize; archive.py, UnpackBudget). *)
THEOREM PipelineInvariance == PipelineSpec => []PipelineInv
  BY PipelineIInvHolds, IInvIsPipelineInv, PTL

(* A file is called clean only if nothing of it or of its members was left out,
   whatever the stages find, fail at or write after their limit, and however
   the weights of a policy are set, unless the tenant asked to be failed open
   (scoring.py, verdict_of; pipeline.py, _scan_members and _process_full). *)
THEOREM CleanIsChecked == PipelineSpec => []CleanMeansChecked
  BY PipelineIInvHolds, IInvIsCleanMeansChecked, PTL

(* Where the check of an archive stops before its last member, the verdict is
   that of a blocked file, for every tree, every policy and whatever is found
   before or after: no finding is lost on the way up, and more findings never
   weigh less (pipeline.py, _scan_members; scoring.py, should_stop_early). *)
THEOREM StoppedIsBlocked == PipelineSpec => []StoppedMeansBlocked
  <1>1. PipelineIInv => StoppedMeansBlocked
    BY DEF PipelineIInv, StopIsBlocked, StoppedMeansBlocked
  <1> QED
    BY <1>1, PipelineIInvHolds, PTL

(* The published verdict and score are those of the published facts, changed
   only by the list of trusted files or by a rebuilding that failed, and the
   shown findings weigh no more; whoever wrote after the decision had outlived
   its limit, and the findings tell of that (pipeline.py, _process_full). *)
THEOREM AnswerIsExplained == PipelineSpec => []PublishedIsExplained
  <1>1. PipelineIInv => PublishedIsExplained
    BY DEF PipelineIInv, ResultIsExplained
  <1> QED
    BY <1>1, PipelineIInvHolds, PTL
=============================================================================
