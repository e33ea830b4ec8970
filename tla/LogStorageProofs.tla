-------------------------- MODULE LogStorageProofs --------------------------
(***************************************************************************)
(* Proofs about the logs on disk: first what the sum of sizes of a finite  *)
(* set of files is, then that Cleanup takes no log without a reason.          *)
(***************************************************************************)
EXTENDS LogStorage, FiniteSetTheorems, TLAPS
-----------------------------------------------------------------------------
(***************************************************************************)
(* Induction.  The sets on which a claim holds are given as a set: the     *)
(* provers cannot instantiate a claim that is an operator.                 *)
(***************************************************************************)

(* A set of numbers with 0 and all successors has every number.            *)
LEMMA NatInductionOnSet ==
  ASSUME NEW T, 0 \in T, \A n \in Nat : n \in T => n + 1 \in T
  PROVE  Nat \subseteq T
<1> SUFFICES ASSUME Nat \ T # {} PROVE FALSE
  OBVIOUS
<1>1. PICK x \in Nat \ T : \A y \in Nat \ T : <<y, x>> \notin OpToRel(<, Nat)
  BY NatLessThanWellFounded, WFMin, Zenon
<1>2. x # 0 /\ x - 1 \in Nat \ T
  OBVIOUS
<1>3. <<x - 1, x>> \in OpToRel(<, Nat)
  BY <1>2, SMT DEF OpToRel
<1> QED
  BY <1>1, <1>2, <1>3, Zenon

(* Among subsets of a finite set there is a smallest one.                  *)
LEMMA MinimalSubset ==
  ASSUME NEW S, IsFiniteSet(S), NEW B, B \subseteq SUBSET S, B # {}
  PROVE  \E x \in B : \A y \in B : ~(<<y, x>> \in StrictSubsetOrdering(S))
<1>1. FiniteSubsetsOf(S) = SUBSET S
  BY FS_FiniteSubsetsOfFinite, Zenon
<1>2. IsWellFoundedOn(StrictSubsetOrdering(S), FiniteSubsetsOf(S))
  BY FS_StrictSubsetOrderingWellFounded, Zenon
<1>3. IsWellFoundedOn(StrictSubsetOrdering(S), SUBSET S)
  BY <1>1, <1>2, Zenon
<1> QED
  BY <1>3, WFMin, Zenon

(* A claim that holds of a set if it holds of its smaller subsets holds of *)
(* every subset of a finite set.                                           *)
LEMMA SubsetInduction ==
  ASSUME NEW S, IsFiniteSet(S), NEW G,
         \A t \in SUBSET S :
           (\A u \in SUBSET t : u # t => u \in G) => t \in G
  PROVE  SUBSET S \subseteq G
<1> DEFINE Bad == (SUBSET S) \ G
<1> SUFFICES ASSUME Bad # {} PROVE FALSE
  OBVIOUS
<1>1. Bad \subseteq SUBSET S
  OBVIOUS
<1>2. \E x \in Bad : \A y \in Bad : ~(<<y, x>> \in StrictSubsetOrdering(S))
  <2> HIDE DEF Bad
  <2> QED BY <1>1, MinimalSubset
<1>3. PICK x \in Bad : \A y \in Bad : ~(<<y, x>> \in StrictSubsetOrdering(S))
  BY <1>2
<1>4. \A u \in SUBSET x : u # x => u \in G
  BY <1>3 DEF StrictSubsetOrdering
<1> QED
  BY <1>4
-----------------------------------------------------------------------------
(***************************************************************************)
(* SumFunctionOnSet.  The fold is a recursive function on the subsets of   *)
(* ps: it has to be shown that there is one.                               *)
(***************************************************************************)
Some(s) == CHOOSE x \in s : TRUE

Step(size, ps, h) ==
  [s \in SUBSET ps |-> IF s = {} THEN 0 ELSE size[Some(s)] + h[s \ {Some(s)}]]

Iter(size, ps) == CHOOSE h : h = Step(size, ps, h)

(* The sum is the recursive function's value for the whole set.            *)
LEMMA SumUnfolds ==
  ASSUME NEW size, NEW ps
  PROVE  SumFunctionOnSet(size, ps) = Iter(size, ps)[ps]
BY Zenon DEF SumFunctionOnSet, FoldFunctionOnSet, MapThenFoldSet, Iter, Step, Some

(* An element of a set that has one.                                       *)
LEMMA SomeInSet == ASSUME NEW s, s # {} PROVE Some(s) \in s
BY DEF Some

(* A finite set of files has such a function: it is built for sets of up   *)
(* to n files, one n after the other.                                      *)
LEMMA IterExists ==
  ASSUME NEW size, NEW ps, IsFiniteSet(ps)
  PROVE  \E h : h = Step(size, ps, h)
<1> DEFINE Level(n) == {s \in SUBSET ps : Cardinality(s) <= n}
           Value(h, s) == IF s = {} THEN 0
                          ELSE size[Some(s)] + h[s \ {Some(s)}]
           Partial(h, n) == h = [s \in Level(n) |-> Value(h, s)]
           T == {n \in Nat : \E h : Partial(h, n)}
<1>1. \A s \in SUBSET ps : IsFiniteSet(s) /\ Cardinality(s) \in Nat
  BY FS_Subset, FS_CardinalityType
<1>2. 0 \in T
  <2>1. \A s \in Level(0) : s = {}
    BY <1>1, FS_EmptySet
  <2>2. Partial([s \in Level(0) |-> 0], 0)
    BY <2>1
  <2> QED BY <2>2
<1>3. ASSUME NEW n \in Nat, n \in T PROVE n + 1 \in T
  <2>1. PICK h : Partial(h, n)
    BY <1>3
  <2> DEFINE g == [s \in Level(n + 1) |-> Value(h, s)]
  <2>2. ASSUME NEW s \in Level(n + 1), s # {}
        PROVE  s \ {Some(s)} \in Level(n)
    <3>1. Some(s) \in s
      BY <2>2, SomeInSet
    <3>2. Cardinality(s \ {Some(s)}) = Cardinality(s) - 1
      BY <1>1, <3>1, FS_RemoveElement
    <3>3. Cardinality(s) \in Nat /\ Cardinality(s) <= n + 1
      BY <1>1
    <3>4. Cardinality(s \ {Some(s)}) <= n
      BY <3>2, <3>3
    <3> QED BY <3>4
  <2>3. Level(n) \subseteq Level(n + 1)
    BY <1>1
  <2>4. ASSUME NEW t \in Level(n) PROVE g[t] = h[t]
    <3>1. g[t] = Value(h, t)
      BY <2>3
    <3>2. h[t] = Value(h, t)
      <4> HIDE DEF Level, Value
      <4> QED BY <2>1
    <3> QED BY <3>1, <3>2
  <2>5. ASSUME NEW s \in Level(n + 1) PROVE Value(h, s) = Value(g, s)
    <3> HIDE DEF g, Level
    <3> QED BY <2>2, <2>4
  <2>6. g = [s \in Level(n + 1) |-> Value(g, s)]
    <3> HIDE DEF Level, Value
    <3> QED BY <2>5
  <2>7. Partial(g, n + 1)
    BY <2>6
  <2> HIDE DEF g, Partial
  <2> QED BY <2>7
<1>4. Cardinality(ps) \in T
  <2> HIDE DEF T
  <2> QED BY <1>1, <1>2, <1>3, NatInductionOnSet
<1>5. Level(Cardinality(ps)) = SUBSET ps
  BY FS_Subset
<1>6. PICK h : Partial(h, Cardinality(ps))
  BY <1>4
<1>7. h = Step(size, ps, h)
  BY <1>5, <1>6 DEF Step
<1> QED BY <1>7

(* The function is what the definition says.                               *)
LEMMA IterIsStep ==
  ASSUME NEW size, NEW ps, IsFiniteSet(ps)
  PROVE  Iter(size, ps) = Step(size, ps, Iter(size, ps))
<1>1. \E h : h = Step(size, ps, h)
  BY IterExists
<1> QED BY <1>1, Zenon DEF Iter

(* Its value for a subset does not depend on the set it was built for.     *)
LEMMA IterOfSubset ==
  ASSUME NEW size, NEW ps, IsFiniteSet(ps), NEW t \in SUBSET ps
  PROVE  Iter(size, ps)[t] = SumFunctionOnSet(size, t)
<1> DEFINE a == Iter(size, ps)
           b == Iter(size, t)
           G == {u \in SUBSET t : a[u] = b[u]}
<1>1. IsFiniteSet(t)
  BY FS_Subset
<1>2. a = Step(size, ps, a) /\ b = Step(size, t, b)
  BY <1>1, IterIsStep
<1> HIDE DEF a, b
<1>3. ASSUME NEW u \in SUBSET t, \A v \in SUBSET u : v # u => v \in G
      PROVE  u \in G
  <2>1. CASE u = {}
    BY <1>2, <2>1 DEF Step
  <2>2. CASE u # {}
    <3>1. Some(u) \in u
      BY <2>2, SomeInSet
    <3>2. u \ {Some(u)} \in G
      BY <1>3, <3>1
    <3>3. /\ a[u] = size[Some(u)] + a[u \ {Some(u)}]
          /\ b[u] = size[Some(u)] + b[u \ {Some(u)}]
      BY <1>2, <2>2 DEF Step
    <3> QED BY <3>2, <3>3
  <2> QED BY <2>1, <2>2
<1> HIDE DEF G
<1>4. t \in G
  BY <1>1, <1>3, SubsetInduction
<1> QED BY <1>4, SumUnfolds DEF G, a, b

(* The sum over no file, and over a file and the others.                   *)
LEMMA SumSteps ==
  ASSUME NEW size, NEW ps, IsFiniteSet(ps)
  PROVE  SumFunctionOnSet(size, ps) =
           IF ps = {} THEN 0
           ELSE size[Some(ps)] + SumFunctionOnSet(size, ps \ {Some(ps)})
<1> DEFINE a == Iter(size, ps)
<1>1. a = Step(size, ps, a)
  BY IterIsStep
<1>2. \A t \in SUBSET ps : a[t] = SumFunctionOnSet(size, t)
  BY IterOfSubset
<1> HIDE DEF a
<1>3. a[ps] = IF ps = {} THEN 0 ELSE size[Some(ps)] + a[ps \ {Some(ps)}]
  BY <1>1 DEF Step
<1>4. a[ps] = SumFunctionOnSet(size, ps)
  BY <1>2
<1>5. a[ps \ {Some(ps)}] = SumFunctionOnSet(size, ps \ {Some(ps)})
  BY <1>2
<1> QED BY <1>3, <1>4, <1>5

(* Sizes add up to a size.                                                 *)
LEMMA SumIsNat ==
  ASSUME NEW D, NEW size \in [D -> Nat], NEW ps \in SUBSET D, IsFiniteSet(ps)
  PROVE  SumFunctionOnSet(size, ps) \in Nat
<1> DEFINE G == {t \in SUBSET ps : SumFunctionOnSet(size, t) \in Nat}
<1>1. ASSUME NEW t \in SUBSET ps, \A u \in SUBSET t : u # t => u \in G
      PROVE  t \in G
  <2>1. SumFunctionOnSet(size, t) =
           IF t = {} THEN 0
           ELSE size[Some(t)] + SumFunctionOnSet(size, t \ {Some(t)})
    BY SumSteps, FS_Subset
  <2>2. CASE t = {}
    BY <2>1, <2>2
  <2>3. CASE t # {}
    <3>1. Some(t) \in t
      BY <2>3, SomeInSet
    <3>2. t \ {Some(t)} \in G
      BY <1>1, <3>1
    <3>3. size[Some(t)] \in Nat
      BY <3>1
    <3> QED BY <2>1, <2>3, <3>2, <3>3
  <2> QED BY <2>2, <2>3
<1> HIDE DEF G
<1>2. ps \in G
  BY <1>1, SubsetInduction
<1> QED BY <1>2 DEF G

(* Any file can be the first one.                                          *)
LEMMA SumPick ==
  ASSUME NEW D, NEW size \in [D -> Nat], NEW ps \in SUBSET D, IsFiniteSet(ps),
         NEW x \in ps
  PROVE  SumFunctionOnSet(size, ps) = size[x] + SumFunctionOnSet(size, ps \ {x})
<1> DEFINE Sum(t) == SumFunctionOnSet(size, t)
           G == {t \in SUBSET ps : \A y \in t : Sum(t) = size[y] + Sum(t \ {y})}
<1>1. \A t \in SUBSET ps : IsFiniteSet(t)
  BY FS_Subset
<1>2. \A t \in SUBSET ps : Sum(t) \in Nat
  BY <1>1, SumIsNat
<1>3. \A t \in SUBSET ps : t # {} => Sum(t) = size[Some(t)] + Sum(t \ {Some(t)})
  BY <1>1, SumSteps
<1> HIDE DEF Sum
<1>4. ASSUME NEW t \in SUBSET ps, \A u \in SUBSET t : u # t => u \in G
      PROVE  t \in G
  <2> SUFFICES ASSUME NEW y \in t PROVE Sum(t) = size[y] + Sum(t \ {y})
    OBVIOUS
  <2> DEFINE c == Some(t)
  <2>1. c \in t
    BY SomeInSet
  <2>2. Sum(t) = size[c] + Sum(t \ {c})
    BY <1>3
  <2> HIDE DEF c
  <2>3. CASE y = c
    BY <2>2, <2>3
  <2>4. CASE y # c
    <3>1. t \ {c} \in G /\ t \ {y} \in G
      BY <1>4, <2>1
    <3>2. Sum(t \ {c}) = size[y] + Sum((t \ {c}) \ {y})
      BY <3>1, <2>4
    <3>3. Sum(t \ {y}) = size[c] + Sum((t \ {y}) \ {c})
      BY <3>1, <2>1, <2>4
    <3>4. (t \ {c}) \ {y} = (t \ {y}) \ {c}
      OBVIOUS
    <3>5. /\ size[c] \in Nat /\ size[y] \in Nat
          /\ Sum((t \ {c}) \ {y}) \in Nat
      BY <1>2, <2>1
    <3> QED BY <2>2, <3>2, <3>3, <3>4, <3>5
  <2> QED BY <2>3, <2>4
<1> HIDE DEF G
<1>5. ps \in G
  BY <1>4, SubsetInduction
<1> QED BY <1>5 DEF G, Sum

(* More files, each of them at least as large, take at least as much.      *)
LEMMA SumMonotone ==
  ASSUME NEW D, NEW f \in [D -> Nat], NEW g \in [D -> Nat],
         NEW ps \in SUBSET D, IsFiniteSet(ps), NEW qs \in SUBSET ps,
         \A p \in qs : f[p] <= g[p]
  PROVE  SumFunctionOnSet(f, qs) <= SumFunctionOnSet(g, ps)
<1> DEFINE F(s) == SumFunctionOnSet(f, s \cap qs)
           H(s) == SumFunctionOnSet(g, s)
           G == {t \in SUBSET ps : F(t) <= H(t)}
<1>1. \A t \in SUBSET ps : IsFiniteSet(t) /\ IsFiniteSet(t \cap qs)
  BY FS_Subset
<1>2. \A t \in SUBSET ps : F(t) \in Nat /\ H(t) \in Nat
  BY <1>1, SumIsNat
<1>3. ASSUME NEW t \in SUBSET ps, \A u \in SUBSET t : u # t => u \in G
      PROVE  t \in G
  <2>1. CASE t = {}
    <3>1. t \cap qs = {}
      BY <2>1
    <3>2. F(t) = 0 /\ H(t) = 0
      BY <1>1, <2>1, <3>1, SumSteps
    <3> QED BY <3>2
  <2>2. CASE t # {}
    <3>1. PICK x \in t : TRUE
      BY <2>2
    <3>2. t \ {x} \in G
      BY <1>3
    <3>3. H(t) = g[x] + H(t \ {x})
      <4>1. t \in SUBSET D /\ IsFiniteSet(t)
        BY <1>1
      <4> QED BY <4>1, SumPick
    <3>4. g[x] \in Nat /\ f[x] \in Nat
      OBVIOUS
    <3>5. CASE x \in qs
      <4>1. (t \ {x}) \cap qs = (t \cap qs) \ {x} /\ x \in t \cap qs
        BY <3>5
      <4>2. F(t) = f[x] + F(t \ {x})
        BY <1>1, <4>1, SumPick
      <4>3. f[x] <= g[x] /\ F(t \ {x}) <= H(t \ {x})
        BY <3>2, <3>5
      <4>4. F(t \ {x}) \in Nat /\ H(t \ {x}) \in Nat
        BY <1>2
      <4> HIDE DEF F, H
      <4> QED BY <3>3, <3>4, <4>2, <4>3, <4>4
    <3>6. CASE x \notin qs
      <4>1. (t \ {x}) \cap qs = t \cap qs
        BY <3>6
      <4>2. F(t) = F(t \ {x}) /\ F(t \ {x}) <= H(t \ {x})
        BY <3>2, <4>1
      <4>3. F(t \ {x}) \in Nat /\ H(t \ {x}) \in Nat
        BY <1>2
      <4> HIDE DEF F, H
      <4> QED BY <3>3, <3>4, <4>2, <4>3
    <3> QED BY <3>5, <3>6
  <2> QED BY <2>1, <2>2
<1>4. ps \in G
  <2> HIDE DEF G
  <2> QED BY <1>3, SubsetInduction
<1>5. ps \cap qs = qs
  OBVIOUS
<1> QED BY <1>4, <1>5
-----------------------------------------------------------------------------
(***************************************************************************)
(* The inductive invariant.                                                *)
(***************************************************************************)

(* Ids are given in order.                                                 *)
IdsInOrder == \A n \in Pods : invs[n].id <= ids

(* A file that is being written, or was given up, is not longer than the   *)
(* complete one.                                                           *)
SizesFit == \A p \in Files : disk[p].size <= SizeOf(p)

(* A usage beyond the limit that is about to cost files is not too old:    *)
(* until Cleanup deletes the next one, files only come and grow.           *)
StillFull ==
  cl \in {"oldest", "space"} /\ usage > maxBytes => FullSize > maxBytes

StorageInv == TypeOK /\ IdsInOrder /\ SizesFit /\ StillFull

(* There are finitely many paths.                                          *)
LEMMA PathsFinite == IsFiniteSet(Paths)
<1> DEFINE Nested == (Pods \X Containers) \X Times
           f == [q \in Nested |-> <<q[1][1], q[1][2], q[2]>>]
<1>1. IsFiniteSet(Nested)
  <2>1. IsFiniteSet(Times)
    BY FS_Interval, LogStorageAssumption DEF Times
  <2>2. IsFiniteSet(Pods \X Containers)
    BY FS_Product, LogStorageAssumption
  <2> QED BY <2>1, <2>2, FS_Product
<1>2. f \in [Nested -> Paths]
  BY DEF Paths
<1>3. ASSUME NEW p \in Paths PROVE \E q \in Nested : f[q] = p
  <2>1. <<<<p[1], p[2]>>, p[3]>> \in Nested
    BY DEF Paths
  <2>2. f[<<<<p[1], p[2]>>, p[3]>>] = p
    BY <2>1 DEF Paths
  <2> QED BY <2>1, <2>2
<1>4. f \in Surjection(Nested, Paths)
  <2> HIDE DEF f, Nested
  <2> QED BY <1>2, <1>3 DEF Surjection
<1> HIDE DEF f, Nested
<1> QED BY <1>1, <1>4, FS_Surjection

Stored == [size : Nat, mtime : Times]
DiskOK == disk \in [Paths -> Stored \cup {NoFile}]

(* A file is there unless its path has NoFile.                             *)
LEMMA FileFields ==
  ASSUME DiskOK, NEW p \in Paths
  PROVE  /\ disk[p].size \in Nat
         /\ p \in Files => disk[p] \in Stored
         /\ p \in Files <=> disk[p] # NoFile
BY DEF DiskOK, Stored, NoFile, Files

(* NoFile is no file.                                                      *)
LEMMA NoFileNotStored == \A r \in Stored : r # NoFile
BY DEF Stored, NoFile, Times

(* The two sums are numbers, and the usage is at most what the files would *)
(* take up if they were complete.                                          *)
LEMMA UsageBelowFullSize ==
  ASSUME DiskOK
  PROVE  /\ UsageBytes \in Nat /\ FullSize \in Nat
         /\ SizesFit => UsageBytes <= FullSize
<1> DEFINE f == [p \in Paths |-> disk[p].size]
           g == [p \in Paths |-> SizeOf(p)]
<1>1. f \in [Paths -> Nat]
  BY FileFields
<1>2. g \in [Paths -> Nat]
  BY LogStorageAssumption DEF Paths, SizeOf
<1>3. Files \in SUBSET Paths /\ IsFiniteSet(Files)
  BY PathsFinite, FS_Subset DEF Files
<1>4. SizesFit => \A p \in Files : f[p] <= g[p]
  BY <1>3 DEF SizesFit
<1>5. UsageBytes = SumFunctionOnSet(f, Files)
  BY DEF UsageBytes
<1>6. FullSize = SumFunctionOnSet(g, Files)
  BY DEF FullSize
<1> HIDE DEF f, g
<1>7. UsageBytes \in Nat /\ FullSize \in Nat
  BY <1>1, <1>2, <1>3, <1>5, <1>6, SumIsNat
<1>8. SizesFit => UsageBytes <= FullSize
  BY <1>1, <1>2, <1>3, <1>4, <1>5, <1>6, SumMonotone
<1> QED BY <1>7, <1>8

(* Where no file is deleted the complete size does not shrink.             *)
LEMMA FullSizeGrows ==
  ASSUME Files \subseteq Files'
  PROVE  FullSize <= FullSize' /\ FullSize' \in Nat
<1> DEFINE g == [p \in Paths |-> SizeOf(p)]
<1>1. g \in [Paths -> Nat]
  BY LogStorageAssumption DEF Paths, SizeOf
<1>2. Files' \in SUBSET Paths /\ IsFiniteSet(Files')
  BY PathsFinite, FS_Subset DEF Files
<1>3. FullSize = SumFunctionOnSet(g, Files) /\ FullSize' = SumFunctionOnSet(g, Files')
  BY DEF FullSize
<1>4. \A p \in Files : g[p] <= g[p]
  BY <1>1 DEF Files
<1> HIDE DEF g
<1> QED BY <1>1, <1>2, <1>3, <1>4, SumMonotone, SumIsNat
-----------------------------------------------------------------------------
(***************************************************************************)
(* Type correctness.                                                       *)
(***************************************************************************)
TypeInv == TypeOK /\ IdsInOrder

(* The first state has the type.                                           *)
LEMMA TypeInit == Init => TypeInv
<1> SUFFICES ASSUME Init PROVE TypeInv
  OBVIOUS
<1> USE LogStorageAssumption
<1>1. \A n \in Pods : invs[n] \in Invs /\ invs[n].id = 0
  BY DEF Init, NoInv, Invs
<1> QED
  BY <1>1 DEF Init, TypeInv, TypeOK, IdsInOrder, Times, NoInv, Invs

(* Every step keeps the type.  That Expire finds an id that was given, and *)
(* Cleanup an id that expired, needs the ids to be in order.               *)
LEMMA TypeStep == TypeInv /\ [Next]_vars => TypeInv'
<1> SUFFICES ASSUME TypeInv, [Next]_vars PROVE TypeInv'
  OBVIOUS
<1> USE LogStorageAssumption DEF TypeInv, TypeOK, IdsInOrder, cluster, writer, cleaner
<1>1. CASE CollectStart
  BY <1>1 DEF CollectStart
<1>2. CASE StreamFails
  BY <1>2 DEF StreamFails
<1>3. CASE WriteStart
  <2>1. PICK k \in containers : path' = <<pod, k, stamp>>
    BY <1>3 DEF WriteStart
  <2>2. path' \in Paths /\ path' # NoPath
    BY <1>3, <2>1 DEF WriteStart, Paths, NoPath, None
  <2>3. [size |-> 0, mtime |-> now] \in [size : Nat, mtime : Times]
    OBVIOUS
  <2>4. disk' \in [Paths -> [size : Nat, mtime : Times] \cup {NoFile}]
    BY <1>3, <2>2, <2>3 DEF WriteStart
  <2>5. containers' \subseteq Containers
    BY <1>3 DEF WriteStart
  <2> QED BY <1>3, <2>2, <2>4, <2>5 DEF WriteStart
<1>4. CASE WriteSome
  <2>1. path \in Paths
    BY <1>4 DEF WriteSome
  <2>2. PICK n \in disk[path].size + 1 .. SizeOf(path) :
          disk' = [disk EXCEPT ![path] = [size |-> n, mtime |-> now]]
    BY <1>4 DEF WriteSome
  <2>3. disk[path].size \in Nat /\ SizeOf(path) \in Nat
    BY <2>1 DEF SizeOf, Paths, NoFile
  <2>4. [size |-> n, mtime |-> now] \in [size : Nat, mtime : Times]
    BY <2>3
  <2>5. disk' \in [Paths -> [size : Nat, mtime : Times] \cup {NoFile}]
    BY <2>2, <2>4
  <2> QED BY <1>4, <2>5 DEF WriteSome
<1>21. CASE WriteDone
  BY <1>21 DEF WriteDone
<1>5. CASE WriteFails
  BY <1>5 DEF WriteFails
<1>6. CASE EnsureInvestigation
  <2>1. pod \in Pods /\ path = NoPath
    BY <1>6 DEF EnsureInvestigation
  <2>2. /\ invs' \in [Pods -> Invs] /\ ids' \in 0..MaxInvs /\ ids <= ids'
        /\ \A n \in Pods : invs'[n].id <= ids'
    <3>1. CASE /\ ids < MaxInvs /\ ids' = ids + 1
               /\ invs' = [invs EXCEPT ![pod] = [id |-> ids', logPaths |-> logPaths]]
      <4>1. [id |-> ids', logPaths |-> logPaths] \in Invs
        BY <3>1 DEF Invs
      <4>2. \A n \in Pods : invs'[n] = IF n = pod THEN [id |-> ids', logPaths |-> logPaths]
                                                ELSE invs[n]
        BY <2>1, <3>1
      <4>3. \A n \in Pods : invs[n] \in Invs /\ invs[n].id \in Int
        BY DEF Invs
      <4>4. ids' \in 0..MaxInvs /\ ids <= ids'
        BY <3>1
      <4>5. \A n \in Pods : invs'[n].id <= ids'
        BY <3>1, <4>2, <4>3
      <4>6. invs' \in [Pods -> Invs]
        BY <3>1, <4>1
      <4> QED BY <4>4, <4>5, <4>6
    <3>2. CASE /\ invs' = [invs EXCEPT ![pod].logPaths = @ \cup logPaths]
               /\ UNCHANGED ids
      <4>1. \A n \in Pods : invs'[n] \in Invs /\ invs'[n].id = invs[n].id
        BY <2>1, <3>2 DEF Invs
      <4>2. invs' \in [Pods -> Invs]
        BY <3>2, <4>1
      <4> QED BY <3>2, <4>1, <4>2
    <3> QED BY <1>6, <3>1, <3>2 DEF EnsureInvestigation
  <2>3. expired' \subseteq 1..ids'
    BY <1>6, <2>2 DEF EnsureInvestigation
  <2> QED BY <1>6, <2>1, <2>2, <2>3 DEF EnsureInvestigation, CollectReturn, Times
<1>7. CASE EnsureNothing
  BY <1>7 DEF EnsureNothing, CollectReturn, Times
<1>8. CASE ListExpired
  <2>1. items' \subseteq [name : Pods, inv : Invs] /\ \A i \in items' : i.inv.id \in expired
    BY <1>8 DEF ListExpired
  <2> QED BY <1>8, <2>1 DEF ListExpired
<1>9. CASE DeleteLogs
  <2>1. disk' \in [Paths -> [size : Nat, mtime : Times] \cup {NoFile}]
    BY <1>9 DEF DeleteLogs, Removed
  <2>2. item' \in items /\ items' \subseteq items
    BY <1>9 DEF DeleteLogs
  <2>3. item'.name \in Pods /\ item'.inv.id \in expired
    BY <2>2
  <2> QED BY <1>9, <2>1, <2>2, <2>3 DEF DeleteLogs
<1>10. CASE DeleteInvestigation
  <2>1. NoInv \in Invs /\ NoInv.id <= ids
    BY DEF NoInv, Invs
  <2>2. item.name \in Pods
    BY <1>10 DEF DeleteInvestigation
  <2>3. /\ invs' \in [Pods -> Invs]
        /\ \A n \in Pods : invs'[n] \in {invs[n], NoInv}
    BY <1>10, <2>1, <2>2 DEF DeleteInvestigation
  <2> QED BY <1>10, <2>1, <2>3 DEF DeleteInvestigation
<1>11. CASE MeasureUsage
  <2>1. UsageBytes \in Nat
    BY UsageBelowFullSize DEF DiskOK, Stored
  <2> QED BY <1>11, <2>1 DEF MeasureUsage
<1>12. CASE OldestFiles
  <2>1. \A p \in Files : p \in Paths /\ disk[p].mtime \in Times
    BY DEF Files
  <2>2. oldest' \subseteq [path : Paths, mtime : Times]
    BY <1>12, <2>1 DEF OldestFiles
  <2> QED BY <1>12, <2>2 DEF OldestFiles
<1>13. CASE DeleteFails
  BY <1>13 DEF DeleteFails
<1>14. CASE DeleteOldest
  <2>1. disk' \in [Paths -> [size : Nat, mtime : Times] \cup {NoFile}]
    BY <1>14 DEF DeleteOldest, Removed
  <2> QED BY <1>14, <2>1 DEF DeleteOldest
<1>15. CASE RecheckUsage
  <2>1. UsageBytes \in Nat
    BY UsageBelowFullSize DEF DiskOK, Stored
  <2> QED BY <1>15, <2>1 DEF RecheckUsage
<1>16. CASE SpaceDone
  BY <1>16 DEF SpaceDone
<1>17. CASE Restart
  BY <1>17 DEF Restart, Times
<1>18. CASE Tick
  BY <1>18 DEF Tick, Times
<1>19. CASE Expire
  <2>1. PICK n \in Pods : /\ invs[n].id \notin expired \cup {NoInv.id}
                          /\ expired' = expired \cup {invs[n].id}
    BY <1>19 DEF Expire
  <2>2. invs[n].id \in 1..ids
    BY <2>1 DEF Invs, NoInv
  <2>3. expired' \subseteq 1..ids /\ expired \subseteq expired'
    BY <2>1, <2>2
  <2> QED BY <1>19, <2>3 DEF Expire
<1>20. CASE UNCHANGED vars
  BY <1>20 DEF vars
<1> QED
  BY <1>1, <1>2, <1>3, <1>4, <1>5, <1>6, <1>7, <1>8, <1>9, <1>10, <1>11,
     <1>12, <1>13, <1>14, <1>15, <1>16, <1>17, <1>18, <1>19, <1>20, <1>21
     DEF Next, Collect, Clean

(* The state keeps its shape while PodWatcher and Cleanup run against each *)
(* other and the process restarts: in particular, the Investigation that   *)
(* runCleanup is pruning, and every one still on its list, has expired.    *)
THEOREM TypeCorrect == Spec => []TypeOK
<1>1. Spec => []TypeInv
  BY TypeInit, TypeStep, PTL DEF Spec
<1>2. TypeInv => TypeOK
  BY DEF TypeInv
<1> QED BY <1>1, <1>2, PTL
-----------------------------------------------------------------------------
(***************************************************************************)
(* No log goes without a reason.                                           *)
(***************************************************************************)

(* The steps of Cleanup that delete.                                       *)
Deletes == DeleteLogs \/ DeleteOldest

(* The only other steps that touch the disk are PodWatcher's, and these    *)
(* delete nothing and write no more than the log.                          *)
LEMMA OthersKeepFiles ==
  ASSUME TypeInv, TypeInv', [Next]_vars, ~Deletes
  PROVE  Files \subseteq Files' /\ (SizesFit => SizesFit')
<1> USE LogStorageAssumption
<1>1. DiskOK
  BY DEF TypeInv, TypeOK, DiskOK, Stored
<1>2. CASE UNCHANGED disk
  <2>1. Files' = Files
    BY <1>2 DEF Files
  <2> QED BY <1>2, <2>1 DEF SizesFit
<1>3. ASSUME NEW p \in Paths, NEW r \in Stored, r.size <= SizeOf(p),
             disk' = [disk EXCEPT ![p] = r]
      PROVE  Files \subseteq Files' /\ (SizesFit => SizesFit')
  <2>1. \A q \in Paths : disk'[q] = IF q = p THEN r ELSE disk[q]
    BY <1>1, <1>3 DEF DiskOK
  <2>2. r # NoFile
    BY NoFileNotStored
  <2> QED BY <1>3, <2>1, <2>2 DEF Files, SizesFit
<1>4. CASE WriteStart
  <2>1. PICK k \in containers : path' = <<pod, k, stamp>>
    BY <1>4 DEF WriteStart
  <2>2. path' \in Paths
    BY <1>4, <2>1 DEF WriteStart, TypeInv, TypeOK, Paths
  <2>3. SizeOf(path') \in Nat
    BY <2>2 DEF SizeOf, Paths
  <2>4. now \in Times
    BY DEF TypeInv, TypeOK
  <2>5. [size |-> 0, mtime |-> now] \in Stored
    BY <2>4 DEF Stored
  <2>6. [size |-> 0, mtime |-> now].size <= SizeOf(path')
    BY <2>3
  <2>7. disk' = [disk EXCEPT ![path'] = [size |-> 0, mtime |-> now]]
    BY <1>4 DEF WriteStart
  <2> QED BY <1>3, <2>2, <2>5, <2>6, <2>7
<1>5. CASE WriteSome
  <2>1. path \in Paths
    BY <1>5 DEF WriteSome, TypeInv, TypeOK
  <2>2. PICK n \in disk[path].size + 1 .. SizeOf(path) :
          disk' = [disk EXCEPT ![path] = [size |-> n, mtime |-> now]]
    BY <1>5 DEF WriteSome
  <2>3. disk[path].size \in Nat /\ SizeOf(path) \in Nat
    BY <1>1, <2>1, FileFields DEF SizeOf, Paths
  <2>4. now \in Times
    BY DEF TypeInv, TypeOK
  <2>5. n \in Nat /\ n <= SizeOf(path)
    BY <2>3
  <2>6. [size |-> n, mtime |-> now] \in Stored
    BY <2>4, <2>5 DEF Stored
  <2>7. [size |-> n, mtime |-> now].size <= SizeOf(path)
    BY <2>5
  <2> QED BY <1>3, <2>1, <2>2, <2>6, <2>7
<1>6. WriteStart \/ WriteSome \/ UNCHANGED disk
  BY DEF Deletes, Next, Collect, Clean, CollectStart, StreamFails, WriteDone, WriteFails,
         EnsureInvestigation, EnsureNothing, ListExpired, DeleteInvestigation,
         MeasureUsage, OldestFiles, DeleteFails, RecheckUsage, SpaceDone,
         Restart, Tick, Expire, vars
<1> QED BY <1>2, <1>4, <1>5, <1>6

(* Deletion leaves the other files as they are.                            *)
LEMMA DeletionKeepsSizes ==
  ASSUME TypeInv, SizesFit, Deletes
  PROVE  SizesFit'
<1>1. \A p \in Paths : disk'[p] \in {disk[p], NoFile}
  BY DEF Deletes, DeleteLogs, DeleteOldest, Removed
<1>2. Files' \subseteq Files /\ \A p \in Files' : disk'[p] = disk[p]
  BY <1>1 DEF Files
<1> QED BY <1>2 DEF SizesFit

(* The first state.                                                        *)
LEMMA StorageInit == Init => StorageInv
<1> SUFFICES ASSUME Init PROVE StorageInv
  OBVIOUS
<1>1. Files = {}
  BY DEF Init, Files
<1> QED BY <1>1, TypeInit DEF Init, StorageInv, TypeInv, SizesFit, StillFull

(* Every step keeps the invariant.  Cleanup comes to "oldest" or "space"   *)
(* with a usage beyond the limit only by measuring it; from then on the    *)
(* files only grow until DeleteOldest, after which it measures again.      *)
LEMMA StorageStep == StorageInv /\ [Next]_vars => StorageInv'
<1> SUFFICES ASSUME StorageInv, [Next]_vars PROVE StorageInv'
  OBVIOUS
<1>1. TypeInv /\ TypeInv'
  BY TypeStep DEF StorageInv, TypeInv
<1>2. DiskOK
  BY DEF StorageInv, TypeOK, DiskOK, Stored
<1>3. SizesFit'
  BY <1>1, OthersKeepFiles, DeletionKeepsSizes DEF StorageInv
<1>4. ASSUME Deletes PROVE StillFull'
  BY <1>4 DEF Deletes, DeleteLogs, DeleteOldest, StillFull
<1>5. ASSUME ~Deletes PROVE StillFull'
  <2>1. FullSize <= FullSize' /\ FullSize' \in Nat
    BY <1>1, <1>5, OthersKeepFiles, FullSizeGrows
  <2>2. /\ UsageBytes \in Nat /\ FullSize \in Nat
        /\ UsageBytes <= FullSize
    BY <1>2, UsageBelowFullSize DEF StorageInv
  <2>3. maxBytes \in Nat
    BY LogStorageAssumption
  <2>4. CASE MeasureUsage \/ RecheckUsage
    <3>1. cl' = "idle" \/ usage' = UsageBytes
      BY <2>4 DEF MeasureUsage, RecheckUsage
    <3> QED BY <2>1, <2>2, <2>3, <3>1 DEF StillFull
  <2>5. CASE ~(MeasureUsage \/ RecheckUsage)
    <3>1. cl' \in {"oldest", "space"} => cl \in {"oldest", "space"} /\ usage' = usage
      BY <1>5, <2>5
         DEF Deletes, Next, Collect, Clean, CollectStart, StreamFails, WriteStart,
             WriteSome, WriteDone, WriteFails, EnsureInvestigation, EnsureNothing,
             ListExpired, DeleteInvestigation, OldestFiles, DeleteFails,
             SpaceDone, Restart, Tick, Expire, vars, cleaner
    <3>2. cl' \in {"oldest", "space"} /\ usage' > maxBytes => FullSize > maxBytes
      BY <3>1 DEF StorageInv, StillFull
    <3> QED BY <2>1, <2>2, <2>3, <3>2 DEF StillFull
  <2> QED BY <2>4, <2>5
<1> QED BY <1>1, <1>3, <1>4, <1>5 DEF StorageInv, TypeInv

(* A file that is gone after a step of the system expired with its         *)
(* Investigation, or made room for files too large for the limit.          *)
LEMMA LossStep ==
  ASSUME StorageInv, [Next]_vars, NEW p \in Files, disk'[p] = NoFile
  PROVE  \/ p \in item'.inv.logPaths /\ item'.inv.id \in expired
         \/ FullSize > maxBytes
<1>1. p \in Paths /\ disk[p] # NoFile
  BY DEF Files
<1>2. CASE DeleteLogs
  <2>1. item' \in items
    BY <1>2 DEF DeleteLogs
  <2>2. item'.inv.id \in expired
    BY <2>1 DEF StorageInv, TypeOK
  <2>3. disk' = Removed(item'.inv.logPaths \ Undeletable)
    BY <1>2 DEF DeleteLogs
  <2>4. p \in item'.inv.logPaths
    BY <1>1, <2>3 DEF Removed
  <2> QED BY <2>2, <2>4
<1>3. CASE DeleteOldest
  BY <1>3 DEF DeleteOldest, StorageInv, StillFull
<1>4. CASE ~Deletes
  <2>1. TypeInv /\ TypeInv'
    BY TypeStep DEF StorageInv, TypeInv
  <2>2. p \in Files'
    BY <1>4, <2>1, OthersKeepFiles
  <2> QED BY <2>2 DEF Files
<1> QED BY <1>2, <1>3, <1>4 DEF Deletes

(* A log goes with an expired Investigation that lists it, or because the  *)
(* files that are there, once complete, take more than the limit, for any  *)
(* number of pods, containers and files of any size: enforceStorageLimit   *)
(* measures again before each file it deletes, and what PodWatcher does in *)
(* between can only add files.                                             *)
THEOREM NoLogLostWithoutReason == Spec => LossJustified
<1>1. Spec => []StorageInv
  BY StorageInit, StorageStep, PTL DEF Spec
<1>2. StorageInv /\ [Next]_vars =>
        [\A p \in Files : disk'[p] = NoFile =>
           \/ p \in item'.inv.logPaths /\ item'.inv.id \in expired
           \/ FullSize > maxBytes]_vars
  BY LossStep
<1> QED BY <1>1, <1>2, PTL DEF Spec, LossJustified
=============================================================================
