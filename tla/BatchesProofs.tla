---------------------------- MODULE BatchesProofs ----------------------------
(***************************************************************************)
(* Theorems about Batches for every set of contents and of key holders, and *)
(* every depth of trees.                                                    *)
(***************************************************************************)
EXTENDS Batches, SumTheorems, SequenceTheorems

-----------------------------------------------------------------------------
(* Trees are built level by level.                                          *)

\* What one more level makes of the trees below.
Above(trees) ==
  trees \cup {Joined(pair[1], pair[2]) :
                pair \in {p \in trees \X trees : p[1].contents \cap p[2].contents = {}}}

Level(levels, n) == IF n = 0 THEN {OneLeaf(c) : c \in Leaves} ELSE Above(levels[n - 1])

\* There are functions that unfold up to any height, so Trees unfolds.
LEMMA TreesUnfold == \A n \in 0 .. MaxDepth : Trees[n] = Level(Trees, n)
<1> DEFINE Good(n, levels) == levels = [k \in 0 .. n |-> Level(levels, k)]
           A == {n \in Nat : \E levels : Good(n, levels)}
<1>1. 0 \in A
  <2> DEFINE leaves == [k \in 0 .. 0 |-> {OneLeaf(c) : c \in Leaves}]
             again == [k \in 0 .. 0 |-> Level(leaves, k)]
  <2>1. \A k \in 0 .. 0 : leaves[k] = again[k]
    BY DEF Level
  <2>2. leaves = again
    BY <2>1, Zenon
  <2> HIDE DEF leaves
  <2> QED
    BY <2>2
<1>2. ASSUME NEW n \in Nat, n \in A
      PROVE  n + 1 \in A
  <2>1. PICK levels : Good(n, levels)
    BY <1>2
  <2>2. \A k \in 0 .. n : levels[k] = Level(levels, k)
    <3> DEFINE again == [k \in 0 .. n |-> Level(levels, k)]
    <3>1. \A k \in 0 .. n : again[k] = Level(levels, k)
      OBVIOUS
    <3>2. levels = again
      BY <2>1
    <3> QED
      BY <3>1, <3>2, Zenon
  <2> DEFINE more == [k \in 0 .. (n + 1) |-> IF k = n + 1 THEN Level(levels, k) ELSE levels[k]]
             again == [k \in 0 .. (n + 1) |-> Level(more, k)]
  <2>3. ASSUME NEW k \in 0 .. (n + 1)
        PROVE  more[k] = again[k]
    <3>1. more[k] = Level(levels, k)
      <4>1. k = n + 1 \/ k \in 0 .. n
        OBVIOUS
      <4> QED
        BY <2>2, <4>1
    <3>2. k # 0 => more[k - 1] = levels[k - 1]
      OBVIOUS
    <3>3. again[k] = Level(more, k)
      OBVIOUS
    <3> HIDE DEF more, again
    <3> QED
      BY <3>1, <3>2, <3>3 DEF Level
  <2>4. more = again
    BY <2>3, Zenon
  <2>5. \E f : Good(n + 1, f)
    <3> HIDE DEF more
    <3> QED
      BY <2>4
  <2> QED
    BY <2>5
<1>3. MaxDepth \in A
  <2> HIDE DEF A
  <2> QED
    BY <1>1, <1>2, NatSetInduction, BatchAssumption
<1>4. \E levels : levels = [n \in 0 .. MaxDepth |-> Level(levels, n)]
  BY <1>3
<1>5. Trees = CHOOSE levels : levels = [n \in 0 .. MaxDepth |-> Level(levels, n)]
  BY Zenon DEF Trees, Level, Above
<1>6. Trees = [n \in 0 .. MaxDepth |-> Level(Trees, n)]
  BY <1>4, <1>5, Zenon
<1> DEFINE again == [n \in 0 .. MaxDepth |-> Level(Trees, n)]
<1>7. \A n \in 0 .. MaxDepth : again[n] = Level(Trees, n)
  OBVIOUS
<1> QED
  BY <1>6, <1>7, Zenon

\* The loop over the path: the hash after each of its steps.
After(hash, path, along, i) == IF i = 0 THEN hash ELSE Node(along[i - 1], path[i])

\* There are such functions for every length of path, so HashesAlong unfolds.
LEMMA HashesUnfold ==
  ASSUME NEW hash, NEW path, NEW n \in Nat, Len(path) = n
  PROVE  \A i \in 0 .. n : HashesAlong(hash, path)[i]
                             = After(hash, path, HashesAlong(hash, path), i)
<1> DEFINE Good(m, along) == along = [i \in 0 .. m |-> After(hash, path, along, i)]
           A == {m \in Nat : \E along : Good(m, along)}
<1>1. 0 \in A
  <2> DEFINE only == [i \in 0 .. 0 |-> hash]
             again == [i \in 0 .. 0 |-> After(hash, path, only, i)]
  <2>1. \A i \in 0 .. 0 : only[i] = again[i]
    BY DEF After
  <2>2. only = again
    BY <2>1, Zenon
  <2> HIDE DEF only
  <2> QED
    BY <2>2
<1>2. ASSUME NEW m \in Nat, m \in A
      PROVE  m + 1 \in A
  <2>1. PICK along : Good(m, along)
    BY <1>2
  <2>2. \A i \in 0 .. m : along[i] = After(hash, path, along, i)
    <3> DEFINE again == [i \in 0 .. m |-> After(hash, path, along, i)]
    <3>1. \A i \in 0 .. m : again[i] = After(hash, path, along, i)
      OBVIOUS
    <3>2. along = again
      BY <2>1
    <3> QED
      BY <3>1, <3>2, Zenon
  <2> DEFINE more == [i \in 0 .. (m + 1) |->
                        IF i = m + 1 THEN After(hash, path, along, i) ELSE along[i]]
             again == [i \in 0 .. (m + 1) |-> After(hash, path, more, i)]
  <2>3. ASSUME NEW i \in 0 .. (m + 1)
        PROVE  more[i] = again[i]
    <3>1. more[i] = After(hash, path, along, i)
      <4>1. i = m + 1 \/ i \in 0 .. m
        OBVIOUS
      <4> QED
        BY <2>2, <4>1
    <3>2. i # 0 => more[i - 1] = along[i - 1]
      OBVIOUS
    <3>3. again[i] = After(hash, path, more, i)
      OBVIOUS
    <3> HIDE DEF more, again
    <3> QED
      BY <3>1, <3>2, <3>3 DEF After
  <2>4. more = again
    BY <2>3, Zenon
  <2>5. \E f : Good(m + 1, f)
    <3> HIDE DEF more
    <3> QED
      BY <2>4
  <2> QED
    BY <2>5
<1>3. n \in A
  <2> HIDE DEF A
  <2> QED
    BY <1>1, <1>2, NatSetInduction
<1> DEFINE table == CHOOSE along : Good(n, along)
<1>4. Good(n, table)
  BY <1>3, Zenon
<1>5. HashesAlong(hash, path) = table
  BY Zenon DEF HashesAlong, After
<1> HIDE DEF table
<1> DEFINE again == [i \in 0 .. n |-> After(hash, path, table, i)]
<1>6. \A i \in 0 .. n : again[i] = After(hash, path, table, i)
  OBVIOUS
<1>7. table = again
  BY <1>4
<1>8. \A i \in 0 .. n : table[i] = After(hash, path, table, i)
  BY <1>6, <1>7, Zenon
<1> QED
  BY <1>5, <1>8, Zenon

-----------------------------------------------------------------------------
(* What digests tell apart.                                                 *)

\* The hash of two hashes, of a content and of a key are three different things.
LEMMA DigestsDiffer ==
  ASSUME NEW a, NEW b, NEW c
  PROVE  Node(a, b) # Leaf(c) /\ Node(a, b) # Keccak(Key(c)) /\ \A d : Leaf(c) # Keccak(Key(d))
BY DEF Node, Leaf, Key, Keccak, Concat

\* Contents have different leaves.
LEMMA LeavesDiffer ==
  ASSUME NEW c, NEW d, Leaf(c) = Leaf(d)
  PROVE  c = d
BY DEF Leaf, Keccak

\* Nothing but a key has the digest of that key.
LEMMA KeysDiffer ==
  ASSUME NEW bytes, NEW c, Keccak(bytes) = Keccak(Key(c))
  PROVE  bytes = Key(c)
BY DEF Keccak

\* Which of two hashes comes first makes no difference, all else does.
LEMMA NodesDiffer ==
  ASSUME NEW a, NEW b, NEW c, NEW d, Node(a, b) = Node(c, d)
  PROVE  a = c \/ a = d
<1>1. {a, b} = {c, d}
  BY DEF Node, Keccak, Concat
<1> QED
  BY <1>1

\* A path need not tell on which side the sibling is.
LEMMA NodeCommutes ==
  ASSUME NEW a, NEW b
  PROVE  Node(a, b) = Node(b, a)
<1>1. {a, b} = {b, a}
  OBVIOUS
<1> QED
  BY <1>1 DEF Node, Concat

-----------------------------------------------------------------------------
(* Trees, and the paths in them.                                            *)

\* The leaves are the trees of no levels.
LEMMA TreeLevels ==
  /\ 0 \in 0 .. MaxDepth /\ Trees[0] = {OneLeaf(c) : c \in Leaves}
  /\ \A n \in Nat : n + 1 <= MaxDepth =>
       n \in 0 .. MaxDepth /\ n + 1 \in 0 .. MaxDepth /\ Trees[n + 1] = Above(Trees[n])
<1>1. 0 \in 0 .. MaxDepth
  BY BatchAssumption
<1>2. Trees[0] = {OneLeaf(c) : c \in Leaves}
  BY <1>1, TreesUnfold DEF Level
<1>3. ASSUME NEW n \in Nat, n + 1 <= MaxDepth
      PROVE  n \in 0 .. MaxDepth /\ n + 1 \in 0 .. MaxDepth /\ Trees[n + 1] = Above(Trees[n])
  <2>1. /\ n \in 0 .. MaxDepth /\ n + 1 \in 0 .. MaxDepth
        /\ n + 1 # 0 /\ (n + 1) - 1 = n
    BY <1>3, BatchAssumption
  <2>2. Trees[n + 1] = Level(Trees, n + 1)
    BY <2>1, TreesUnfold
  <2> QED
    BY <2>1, <2>2 DEF Level
<1> QED
  BY <1>1, <1>2, <1>3

\* Lower trees are trees.
LEMMA TreesGrow ==
  ASSUME NEW n \in 0 .. MaxDepth
  PROVE  Trees[n] \subseteq Trees[MaxDepth]
<1> DEFINE A == {k \in Nat : n + k <= MaxDepth => Trees[n] \subseteq Trees[n + k]}
<1>1. 0 \in A
  OBVIOUS
<1>2. ASSUME NEW k \in Nat, k \in A
      PROVE  k + 1 \in A
  <2> SUFFICES ASSUME (n + k) + 1 <= MaxDepth
               PROVE  Trees[n] \subseteq Trees[(n + k) + 1]
    OBVIOUS
  <2>1. Trees[n] \subseteq Trees[n + k]
    BY <1>2, BatchAssumption
  <2>2. n + k \in Nat
    OBVIOUS
  <2>3. Trees[(n + k) + 1] = Above(Trees[n + k])
    BY <2>2, TreeLevels
  <2> QED
    BY <2>1, <2>3 DEF Above
<1>3. Nat \subseteq A
  <2> HIDE DEF A
  <2> QED
    BY <1>1, <1>2, NatSetInduction
<1>4. MaxDepth - n \in Nat /\ n + (MaxDepth - n) = MaxDepth
  BY BatchAssumption
<1> QED
  BY <1>3, <1>4

\* What holds of single leaves and of every tree made of two holds of all trees.
LEMMA TreeInduction ==
  ASSUME NEW S, \A c \in Leaves : OneLeaf(c) \in S,
         \A t, u \in S : Joined(t, u) \in Trees[MaxDepth] => Joined(t, u) \in S
  PROVE  Trees[MaxDepth] \subseteq S
<1> DEFINE A == {n \in Nat : n <= MaxDepth => Trees[n] \subseteq S}
<1>1. 0 \in A
  BY TreeLevels
<1>2. ASSUME NEW n \in Nat, n \in A
      PROVE  n + 1 \in A
  <2> SUFFICES ASSUME n + 1 <= MaxDepth
               PROVE  Trees[n + 1] \subseteq S
    OBVIOUS
  <2>1. Trees[n] \subseteq S
    BY <1>2, BatchAssumption
  <2>2. Trees[n + 1] = Above(Trees[n]) /\ Trees[n + 1] \subseteq Trees[MaxDepth]
    BY TreeLevels, TreesGrow
  <2> QED
    BY <2>1, <2>2 DEF Above
<1>3. Nat \subseteq A
  <2> HIDE DEF A
  <2> QED
    BY <1>1, <1>2, NatSetInduction
<1> QED
  BY <1>3, BatchAssumption

\* A single content is a tree, of whatever height trees may be.
LEMMA LeavesAreTrees ==
  ASSUME NEW c \in Leaves
  PROVE  OneLeaf(c) \in Trees[MaxDepth]
BY TreeLevels, TreesGrow

\* Trees contain contents, and their roots are hashes a path may be made of.
LEMMA TreeContents ==
  ASSUME NEW t \in Trees[MaxDepth]
  PROVE  t.contents \subseteq Leaves /\ t.root \in Hashes
<1> DEFINE S == {u \in Trees[MaxDepth] : u.contents \subseteq Leaves}
<1>1. \A c \in Leaves : OneLeaf(c) \in S
  BY LeavesAreTrees DEF OneLeaf
<1>2. \A u, v \in S : Joined(u, v) \in Trees[MaxDepth] => Joined(u, v) \in S
  BY DEF Joined
<1>3. Trees[MaxDepth] \subseteq S
  <2> HIDE DEF S
  <2> QED
    BY <1>1, <1>2, TreeInduction
<1> QED
  BY <1>3 DEF Hashes

\* The root of a tree is never the digest of a key.
LEMMA RootsAreNoKeys ==
  ASSUME NEW t \in Trees[MaxDepth], NEW c
  PROVE  t.root # Keccak(Key(c))
<1> DEFINE S == {u \in Trees[MaxDepth] : u.root # Keccak(Key(c))}
<1>1. \A d \in Leaves : OneLeaf(d) \in S
  BY LeavesAreTrees, DigestsDiffer DEF OneLeaf
<1>2. \A u, v \in S : Joined(u, v) \in Trees[MaxDepth] => Joined(u, v) \in S
  BY DigestsDiffer DEF Joined
<1>3. Trees[MaxDepth] \subseteq S
  <2> HIDE DEF S
  <2> QED
    BY <1>1, <1>2, TreeInduction
<1> QED
  BY <1>3

\* A tree that is more than a leaf has two contents.
LEMMA TreeShapes ==
  ASSUME NEW t \in Trees[MaxDepth]
  PROVE  (\E c \in Leaves : t = OneLeaf(c)) \/ (\E c, d \in t.contents : c # d)
<1> DEFINE Shape(u) == (\E c \in Leaves : u = OneLeaf(c)) \/ (\E c, d \in u.contents : c # d)
           A == {n \in Nat : n <= MaxDepth => \A u \in Trees[n] : Shape(u)}
<1>1. 0 \in A
  BY TreeLevels
<1>2. ASSUME NEW n \in Nat, n \in A
      PROVE  n + 1 \in A
  <2> SUFFICES ASSUME n + 1 <= MaxDepth, NEW u \in Trees[n + 1]
               PROVE  Shape(u)
    OBVIOUS
  <2>1. Trees[n + 1] = Above(Trees[n])
    BY TreeLevels
  <2>2. \A v \in Trees[n] : Shape(v)
    BY <1>2, BatchAssumption
  <2>3. \A v \in Trees[n] : v.contents # {}
    BY <2>2 DEF OneLeaf
  <2>4. ASSUME NEW v \in Trees[n], NEW w \in Trees[n], v.contents \cap w.contents = {},
               u = Joined(v, w)
        PROVE  Shape(u)
    <3>1. PICK c \in v.contents, d \in w.contents : TRUE
      BY <2>3
    <3>2. c # d /\ c \in u.contents /\ d \in u.contents
      BY <2>4, <3>1 DEF Joined
    <3> QED
      BY <3>2
  <2> HIDE DEF Shape
  <2> QED
    BY <2>1, <2>2, <2>4 DEF Above
<1>3. Nat \subseteq A
  <2> HIDE DEF A
  <2> QED
    BY <1>1, <1>2, NatSetInduction
<1> QED
  BY <1>3, BatchAssumption

\* A path is a sequence of hashes no longer than trees are high.
LEMMA PathFields ==
  ASSUME NEW path \in Paths
  PROVE  Len(path) \in 0 .. MaxDepth /\ path \in [1 .. Len(path) -> SignedHashes]
<1>1. PICK n \in 0 .. MaxDepth : path \in [1 .. n -> SignedHashes]
  BY DEF Paths
<1>2. path \in Seq(SignedHashes) /\ Len(path) = n
  BY <1>1, BatchAssumption
<1> QED
  BY <1>1, <1>2

\* The first hash is that of the leaf, every other one is a node.
LEMMA HashesSteps ==
  ASSUME NEW hash, NEW path, NEW n \in Nat, Len(path) = n
  PROVE  /\ HashesAlong(hash, path)[0] = hash
         /\ \A i \in 1 .. n : HashesAlong(hash, path)[i]
                                = Node(HashesAlong(hash, path)[i - 1], path[i])
<1> DEFINE along == HashesAlong(hash, path)
<1>1. \A i \in 0 .. n : along[i] = After(hash, path, along, i)
  BY HashesUnfold
<1> HIDE DEF along
<1>2. along[0] = hash /\ \A i \in 1 .. n : along[i] = Node(along[i - 1], path[i])
  BY <1>1 DEF After
<1> QED
  BY <1>2 DEF along

\* A path leads from a leaf to the root of a tree only if the leaf is in it,
\* whatever hashes the path is made of.
LEMMA RootsTellContents ==
  ASSUME NEW c, NEW path, NEW n \in Nat, Len(path) = n, NEW t \in Trees[MaxDepth],
         GetMerkleRoot(Leaf(c), path) = t.root
  PROVE  c \in t.contents
<1> DEFINE along == HashesAlong(Leaf(c), path)
           Sound(u) == \A i \in 0 .. n : along[i] = u.root => c \in u.contents
           S == {u \in Trees[MaxDepth] : Sound(u)}
<1>1. along[0] = Leaf(c) /\ \A i \in 1 .. n : along[i] = Node(along[i - 1], path[i])
  BY HashesSteps
<1>2. along[n] = t.root
  BY DEF GetMerkleRoot
<1> HIDE DEF along
<1>3. \A d \in Leaves : Sound(OneLeaf(d))
  <2> SUFFICES ASSUME NEW d \in Leaves, NEW i \in 0 .. n, along[i] = Leaf(d)
               PROVE  c = d
    BY DEF OneLeaf
  <2>1. i = 0 \/ i \in 1 .. n
    OBVIOUS
  <2>2. i = 0
    BY <1>1, <2>1, DigestsDiffer
  <2> QED
    BY <1>1, <2>2, LeavesDiffer
<1>4. ASSUME NEW u, NEW v, Sound(u), Sound(v)
      PROVE  Sound(Joined(u, v))
  <2> SUFFICES ASSUME NEW i \in 0 .. n, along[i] = Node(u.root, v.root)
               PROVE  c \in u.contents \cup v.contents
    BY DEF Joined
  <2>1. i # 0
    BY <1>1, DigestsDiffer
  <2>2. i \in 1 .. n /\ i - 1 \in 0 .. n
    BY <2>1
  <2>3. along[i - 1] = u.root \/ along[i - 1] = v.root
    BY <1>1, <2>2, NodesDiffer
  <2> QED
    BY <1>4, <2>2, <2>3
<1>5. Trees[MaxDepth] \subseteq S
  <2>1. \A d \in Leaves : OneLeaf(d) \in S
    BY <1>3, LeavesAreTrees
  <2>2. \A u, v \in S : Joined(u, v) \in Trees[MaxDepth] => Joined(u, v) \in S
    BY <1>4
  <2> HIDE DEF S
  <2> QED
    BY <2>1, <2>2, TreeInduction
<1> QED
  BY <1>2, <1>5

\* A path never leads from a leaf to the digest of a key.
LEMMA RootsOfLeavesAreNoKeys ==
  ASSUME NEW c, NEW d, NEW path, NEW n \in Nat, Len(path) = n
  PROVE  GetMerkleRoot(Leaf(c), path) # Keccak(Key(d))
<1>1. n = 0 \/ n \in 1 .. n
  OBVIOUS
<1> QED
  BY <1>1, HashesSteps, DigestsDiffer DEF GetMerkleRoot

\* One more sibling at the end leaves the hashes before it as they are.
LEMMA LongerPath ==
  ASSUME NEW hash, NEW path \in Seq(Hashes), NEW sibling \in Hashes
  PROVE  GetMerkleRoot(hash, Append(path, sibling)) = Node(GetMerkleRoot(hash, path), sibling)
<1> DEFINE n == Len(path)
           longer == Append(path, sibling)
           before == HashesAlong(hash, path)
           after == HashesAlong(hash, longer)
           A == {i \in Nat : i <= n => after[i] = before[i]}
<1>1. /\ n \in Nat /\ Len(longer) = n + 1 /\ longer[n + 1] = sibling
      /\ \A i \in 1 .. n : longer[i] = path[i]
  OBVIOUS
<1>2. before[0] = hash /\ \A i \in 1 .. n : before[i] = Node(before[i - 1], path[i])
  BY <1>1, HashesSteps
<1>3. after[0] = hash /\ \A i \in 1 .. (n + 1) : after[i] = Node(after[i - 1], longer[i])
  <2>1. n + 1 \in Nat /\ Len(longer) = n + 1
    BY <1>1
  <2> HIDE DEF n, longer
  <2> QED
    BY <2>1, HashesSteps
<1>4. /\ GetMerkleRoot(hash, longer) = after[n + 1]
      /\ GetMerkleRoot(hash, path) = before[n]
  BY <1>1 DEF GetMerkleRoot
<1> HIDE DEF before, after, longer, n
<1>5. 0 \in A
  BY <1>2, <1>3
<1>6. ASSUME NEW i \in Nat, i \in A
      PROVE  i + 1 \in A
  <2> SUFFICES ASSUME i + 1 <= n
               PROVE  after[i + 1] = before[i + 1]
    OBVIOUS
  <2>1. after[i] = before[i] /\ i + 1 \in 1 .. n /\ i + 1 \in 1 .. (n + 1) /\ (i + 1) - 1 = i
    BY <1>1, <1>6
  <2> QED
    BY <1>1, <1>2, <1>3, <2>1
<1>7. n \in A
  <2> HIDE DEF A
  <2> QED
    BY <1>1, <1>5, <1>6, NatSetInduction
<1>8. after[n] = before[n] /\ n + 1 \in 1 .. (n + 1) /\ (n + 1) - 1 = n
  BY <1>1, <1>7
<1>9. after[n + 1] = Node(before[n], sibling)
  BY <1>1, <1>3, <1>8
<1> QED
  BY <1>4, <1>9 DEF longer

\* Every content of a tree has a path to its root, no longer than the tree is high.
LEMMA ContentsHavePaths ==
  ASSUME NEW t \in Trees[MaxDepth], NEW c \in t.contents
  PROVE  \E path \in Paths : GetMerkleRoot(Leaf(c), path) = t.root
<1> DEFINE Reached(d, u, n) ==
             \E path \in Seq(Hashes) : Len(path) <= n /\ GetMerkleRoot(Leaf(d), path) = u.root
           A == {n \in Nat : n <= MaxDepth =>
                   \A u \in Trees[n] : \A d \in u.contents : Reached(d, u, n)}
<1>1. 0 \in A
  <2>1. <<>> \in Seq(Hashes) /\ Len(<<>>) = 0
    OBVIOUS
  <2>2. \A d : GetMerkleRoot(Leaf(d), <<>>) = Leaf(d)
    BY <2>1, HashesSteps DEF GetMerkleRoot
  <2>3. \A d \in Leaves : OneLeaf(d).root = Leaf(d) /\ OneLeaf(d).contents = {d}
    BY DEF OneLeaf
  <2>4. ASSUME NEW u \in Trees[0], NEW d \in u.contents
        PROVE  Reached(d, u, 0)
    <3>1. GetMerkleRoot(Leaf(d), <<>>) = u.root
      BY <2>2, <2>3, TreeLevels
    <3>2. Len(<<>>) <= 0
      BY <2>1
    <3> QED
      BY <2>1, <3>1, <3>2, Zenon
  <2> HIDE DEF Reached
  <2> QED
    BY <2>4
<1>2. ASSUME NEW n \in Nat, n \in A
      PROVE  n + 1 \in A
  <2> SUFFICES ASSUME n + 1 <= MaxDepth, NEW u \in Trees[n + 1], NEW d \in u.contents
               PROVE  Reached(d, u, n + 1)
    OBVIOUS
  <2>1. /\ Trees[n + 1] = Above(Trees[n]) /\ Trees[n] \subseteq Trees[MaxDepth]
    BY TreeLevels, TreesGrow
  <2>2. \A v \in Trees[n] : \A e \in v.contents : Reached(e, v, n)
    BY <1>2, BatchAssumption
  <2>3. ASSUME NEW v \in Trees[n], NEW w \in Trees[n], d \in v.contents,
               u.root = Node(v.root, w.root)
        PROVE  Reached(d, u, n + 1)
    <3>1. PICK path \in Seq(Hashes) : Len(path) <= n /\ GetMerkleRoot(Leaf(d), path) = v.root
      BY <2>2, <2>3
    <3>2. w.root \in Hashes
      BY <2>1, TreeContents
    <3>3. /\ Append(path, w.root) \in Seq(Hashes) /\ Len(path) \in Nat
          /\ Len(Append(path, w.root)) = Len(path) + 1
      BY <3>2
    <3>4. GetMerkleRoot(Leaf(d), Append(path, w.root)) = u.root
      BY <2>3, <3>1, <3>2, LongerPath
    <3>5. Len(Append(path, w.root)) <= n + 1
      BY <3>1, <3>3
    <3> QED
      BY <3>3, <3>4, <3>5
  <2>4. CASE u \in Trees[n]
    BY <2>2, <2>4
  <2>5. ASSUME NEW v \in Trees[n], NEW w \in Trees[n], u = Joined(v, w)
        PROVE  Reached(d, u, n + 1)
    <3>1. u.root = Node(v.root, w.root) /\ u.contents = v.contents \cup w.contents
      BY <2>5 DEF Joined
    <3>2. u.root = Node(w.root, v.root)
      BY <3>1, NodeCommutes
    <3> HIDE DEF Reached
    <3> QED
      BY <2>3, <3>1, <3>2
  <2> QED
    BY <2>1, <2>4, <2>5 DEF Above
<1>3. Nat \subseteq A
  <2> HIDE DEF A
  <2> QED
    BY <1>1, <1>2, NatSetInduction
<1>4. PICK path \in Seq(Hashes) :
        Len(path) <= MaxDepth /\ GetMerkleRoot(Leaf(c), path) = t.root
  BY <1>3, BatchAssumption
<1>5. path \in [1 .. Len(path) -> Hashes] /\ Len(path) \in 0 .. MaxDepth
  BY <1>4, BatchAssumption
<1>6. path \in [1 .. Len(path) -> SignedHashes]
  BY <1>5 DEF SignedHashes
<1>7. path \in Paths
  BY <1>5, <1>6 DEF Paths
<1> QED
  BY <1>4, <1>7

-----------------------------------------------------------------------------
(* The inductive invariant.                                                 *)

\* A signed digest is the root of a tree that was batched or the digest of a key
\* that was named; the contents of a batch are in a tree whose root was signed.
DigestsMeant ==
  \A pair \in digests :
    \/ \E t \in Trees[MaxDepth] : pair[2] = t.root /\ {pair[1]} \X t.contents \subseteq batched
    \/ \E holder \in Holders :
         pair[2] = Keccak(Key(holder)) /\ <<Key(pair[1]), Key(holder)>> \in named

BatchesSigned ==
  \A pair \in batched : \E t \in Trees[MaxDepth] :
    pair[2] \in t.contents /\ <<pair[1], t.root>> \in digests

BatchInv ==
  /\ BatchTypeOK
  /\ publicKey \in held
  /\ DigestsMeant
  /\ BatchesSigned

\* Nothing is signed at the start.
LEMMA InitBatches == BatchInit => BatchInv /\ AcceptedWereBatched /\ OnlyNamedKeys
<1> SUFFICES ASSUME BatchInit
             PROVE  BatchInv /\ AcceptedWereBatched /\ OnlyNamedKeys
  OBVIOUS
<1>1. Key(InitialKey) \in KeyBytes
  BY BatchAssumption DEF KeyBytes
<1>2. BatchTypeOK
  BY <1>1 DEF BatchInit, BatchTypeOK
<1> QED
  BY <1>2 DEF BatchInit, BatchInv, DigestsMeant, BatchesSigned, AcceptedWereBatched, OnlyNamedKeys

\* A signed root is that of the batch that is noted with it.
LEMMA SignBatchStep ==
  ASSUME BatchInv, NEW holder \in Holders, NEW tree \in Trees[MaxDepth], SignBatch(holder, tree)
  PROVE  BatchInv'
<1>1. /\ digests' = digests \cup {<<holder, tree.root>>}
      /\ batched' = batched \cup ({holder} \X tree.contents)
      /\ UNCHANGED <<publicKey, held, accepted, named>>
  BY DEF SignBatch, SignDigest
<1>2. tree.contents \subseteq Leaves /\ tree.root \in Hashes
  BY TreeContents
<1>3. BatchTypeOK'
  BY <1>1, <1>2 DEF BatchInv, BatchTypeOK, SignedHashes
<1>4. DigestsMeant'
  <2> SUFFICES ASSUME NEW pair \in digests'
               PROVE  \/ \E t \in Trees[MaxDepth] :
                           pair[2] = t.root /\ {pair[1]} \X t.contents \subseteq batched'
                      \/ \E h \in Holders :
                           pair[2] = Keccak(Key(h)) /\ <<Key(pair[1]), Key(h)>> \in named'
    BY DEF DigestsMeant
  <2>1. CASE pair \in digests
    <3>1. batched \subseteq batched' /\ named' = named
      BY <1>1
    <3> QED
      BY <2>1, <3>1 DEF BatchInv, DigestsMeant
  <2>2. CASE pair = <<holder, tree.root>>
    BY <1>1, <2>2
  <2> QED
    BY <1>1, <2>1, <2>2
<1>5. BatchesSigned'
  <2> SUFFICES ASSUME NEW pair \in batched'
               PROVE  \E t \in Trees[MaxDepth] :
                        pair[2] \in t.contents /\ <<pair[1], t.root>> \in digests'
    BY DEF BatchesSigned
  <2>1. CASE pair \in batched
    BY <1>1, <2>1 DEF BatchInv, BatchesSigned
  <2>2. CASE pair \in {holder} \X tree.contents
    BY <1>1, <2>2
  <2> QED
    BY <1>1, <2>1, <2>2
<1> QED
  BY <1>1, <1>3, <1>4, <1>5 DEF BatchInv

\* A signed digest of a key is that of the successor that is noted with it.
LEMMA SignSuccessorStep ==
  ASSUME BatchInv, NEW holder \in Holders, NEW successor \in Holders,
         SignSuccessor(holder, successor)
  PROVE  BatchInv'
<1>1. /\ digests' = digests \cup {<<holder, Keccak(Key(successor))>>}
      /\ named' = named \cup {<<Key(holder), Key(successor)>>}
      /\ UNCHANGED <<publicKey, held, accepted, batched>>
  BY DEF SignSuccessor, SignDigest
<1>2. Key(holder) \in KeyBytes /\ Key(successor) \in KeyBytes
  BY DEF KeyBytes
<1>3. BatchTypeOK'
  BY <1>1, <1>2 DEF BatchInv, BatchTypeOK, SignedHashes
<1>4. DigestsMeant'
  <2> SUFFICES ASSUME NEW pair \in digests'
               PROVE  \/ \E t \in Trees[MaxDepth] :
                           pair[2] = t.root /\ {pair[1]} \X t.contents \subseteq batched'
                      \/ \E h \in Holders :
                           pair[2] = Keccak(Key(h)) /\ <<Key(pair[1]), Key(h)>> \in named'
    BY DEF DigestsMeant
  <2>1. CASE pair \in digests
    <3>1. batched' = batched /\ named \subseteq named'
      BY <1>1
    <3> QED
      BY <2>1, <3>1 DEF BatchInv, DigestsMeant
  <2>2. CASE pair = <<holder, Keccak(Key(successor))>>
    BY <1>1, <2>2
  <2> QED
    BY <1>1, <2>1, <2>2
<1>5. BatchesSigned'
  BY <1>1 DEF BatchInv, BatchesSigned
<1> QED
  BY <1>1, <1>3, <1>4, <1>5 DEF BatchInv

\* A rotation to bytes that no tree stands for is one that was named.
LEMMA RotateStep ==
  ASSUME BatchInv, NEW bytes \in KeyBytes \cup NodeBytes, Rotate(bytes)
  PROVE  /\ BatchInv'
         /\ bytes \in NodeBytes \/ <<publicKey, bytes>> \in named
<1>1. /\ publicKey' = bytes /\ held' = held \cup {bytes}
      /\ UNCHANGED <<digests, batched, named, accepted>>
  BY DEF Rotate, Stored
<1>2. BatchTypeOK'
  BY <1>1 DEF BatchInv, BatchTypeOK
<1>3. DigestsMeant' /\ BatchesSigned'
  BY <1>1 DEF BatchInv, DigestsMeant, BatchesSigned
<1>4. PICK holder \in Holders : publicKey = Key(holder) /\ <<holder, Keccak(bytes)>> \in digests
  BY DEF Rotate, VerifySignature
<1>5. (\E t \in Trees[MaxDepth] : Keccak(bytes) = t.root) => bytes \in NodeBytes
  BY RootsAreNoKeys DEF KeyBytes
<1>6. ASSUME NEW h \in Holders, Keccak(bytes) = Keccak(Key(h)), <<Key(holder), Key(h)>> \in named
      PROVE  <<publicKey, bytes>> \in named
  <2>1. bytes = Key(h)
    BY <1>6, KeysDiffer
  <2> QED
    BY <1>4, <1>6, <2>1
<1>7. bytes \in NodeBytes \/ <<publicKey, bytes>> \in named
  BY <1>4, <1>5, <1>6 DEF BatchInv, DigestsMeant
<1> QED
  BY <1>1, <1>2, <1>3, <1>7 DEF BatchInv

\* What is accepted was batched by the key in force.
LEMMA AcceptStep ==
  ASSUME BatchInv, NEW content \in Leaves, NEW path \in Paths, Accept(content, path)
  PROVE  /\ BatchInv'
         /\ \E holder \in Holders :
              publicKey = Key(holder) /\ <<holder, content>> \in batched
<1> DEFINE root == GetMerkleRoot(Leaf(content), path)
<1>1. /\ accepted' = accepted \cup {<<publicKey, content>>}
      /\ UNCHANGED <<publicKey, digests, batched, named, held>>
  BY DEF Accept
<1>2. PICK holder \in Holders : publicKey = Key(holder) /\ <<holder, root>> \in digests
  BY DEF Accept, VerifySignature
<1>3. Len(path) \in Nat
  BY PathFields, BatchAssumption
<1>4. \A h \in Holders : root # Keccak(Key(h))
  BY <1>3, RootsOfLeavesAreNoKeys
<1>5. PICK t \in Trees[MaxDepth] : root = t.root /\ {holder} \X t.contents \subseteq batched
  <2> HIDE DEF root
  <2> QED
    BY <1>2, <1>4 DEF BatchInv, DigestsMeant
<1>6. content \in t.contents
  BY <1>3, <1>5, RootsTellContents
<1>7. <<holder, content>> \in batched
  BY <1>5, <1>6
<1>8. BatchTypeOK'
  BY <1>1, <1>2 DEF BatchInv, BatchTypeOK, KeyBytes
<1>9. DigestsMeant' /\ BatchesSigned'
  BY <1>1 DEF BatchInv, DigestsMeant, BatchesSigned
<1> QED
  BY <1>1, <1>2, <1>7, <1>8, <1>9 DEF BatchInv

\* The invariant is inductive.
LEMMA BatchStep == BatchInv /\ [BatchNext]_batchVars => BatchInv'
<1> SUFFICES ASSUME BatchInv, [BatchNext]_batchVars
             PROVE  BatchInv'
  OBVIOUS
<1>1. CASE UNCHANGED batchVars
  BY <1>1 DEF batchVars, BatchInv, BatchTypeOK, DigestsMeant, BatchesSigned
<1> QED
  BY <1>1, SignBatchStep, SignSuccessorStep, RotateStep, AcceptStep DEF BatchNext

\* It holds in every reachable state.
LEMMA BatchSound == BatchSpec => []BatchInv
BY InitBatches, BatchStep, PTL DEF BatchSpec

-----------------------------------------------------------------------------
(* Theorems.                                                                *)

\* Keys, digests and histories are what they are said to be.
THEOREM BatchTypeCorrect == BatchSpec => []BatchTypeOK
<1>1. BatchInv => BatchTypeOK
  BY DEF BatchInv
<1> QED
  BY <1>1, BatchSound, PTL

\* Whatever trees and rotations the signers sign, and whatever path a caller makes up
\* of their nodes, a handler accepts nothing the key in force has not batched.
THEOREM OnlyBatchedAccepted == BatchSpec => []AcceptedWereBatched
<1>1. BatchInv /\ AcceptedWereBatched /\ [BatchNext]_batchVars => AcceptedWereBatched'
  <2> SUFFICES ASSUME BatchInv, AcceptedWereBatched, [BatchNext]_batchVars
               PROVE  AcceptedWereBatched'
    OBVIOUS
  <2>1. CASE UNCHANGED accepted /\ batched \subseteq batched'
    BY <2>1 DEF AcceptedWereBatched
  <2>2. ASSUME NEW content \in Leaves, NEW path \in Paths, Accept(content, path)
        PROVE  AcceptedWereBatched'
    <3>1. /\ accepted' = accepted \cup {<<publicKey, content>>} /\ batched' = batched
      BY <2>2 DEF Accept
    <3>2. PICK holder \in Holders : publicKey = Key(holder) /\ <<holder, content>> \in batched
      BY <2>2, AcceptStep
    <3> QED
      BY <3>1, <3>2 DEF AcceptedWereBatched
  <2> QED
    BY <2>1, <2>2 DEF BatchNext, SignBatch, SignSuccessor, SignDigest, Rotate, batchVars
<1> QED
  BY <1>1, InitBatches, BatchSound, PTL DEF BatchSpec

\* Every content of a batch is accepted under some path, whatever the shape of its tree.
THEOREM EveryBatchedAcceptable == BatchSpec => []BatchedAcceptable
<1>1. BatchInv => BatchedAcceptable
  <2> SUFFICES ASSUME BatchInv, NEW pair \in batched
               PROVE  \E path \in Paths :
                        VerifySignature(Key(pair[1]), GetMerkleRoot(Leaf(pair[2]), path))
    BY DEF BatchedAcceptable
  <2>1. PICK t \in Trees[MaxDepth] : pair[2] \in t.contents /\ <<pair[1], t.root>> \in digests
    BY DEF BatchInv, BatchesSigned
  <2>2. PICK path \in Paths : GetMerkleRoot(Leaf(pair[2]), path) = t.root
    BY <2>1, ContentsHavePaths
  <2>3. pair[1] \in Holders
    BY DEF BatchInv, BatchTypeOK
  <2> QED
    BY <2>1, <2>2, <2>3 DEF VerifySignature
<1> QED
  BY <1>1, BatchSound, PTL

\* The admin account passes only to keys named by one it had, or to bytes that are an
\* inner node's and nobody's key.
THEOREM KeysNamed == BatchSpec => []OnlyNamedKeys
<1>1. BatchInv /\ OnlyNamedKeys /\ [BatchNext]_batchVars => OnlyNamedKeys'
  <2> SUFFICES ASSUME BatchInv, OnlyNamedKeys, [BatchNext]_batchVars
               PROVE  OnlyNamedKeys'
    OBVIOUS
  <2>1. CASE UNCHANGED held /\ named \subseteq named'
    BY <2>1 DEF OnlyNamedKeys
  <2>2. ASSUME NEW bytes \in KeyBytes \cup NodeBytes, Rotate(bytes)
        PROVE  OnlyNamedKeys'
    <3>1. held' = held \cup {bytes} /\ named' = named
      BY <2>2 DEF Rotate, Stored
    <3>2. bytes \in NodeBytes \/ <<publicKey, bytes>> \in named
      BY <2>2, RotateStep
    <3>3. publicKey \in held
      BY DEF BatchInv
    <3> QED
      BY <3>1, <3>2, <3>3 DEF OnlyNamedKeys
  <2> QED
    BY <2>1, <2>2 DEF BatchNext, SignBatch, SignSuccessor, SignDigest, Accept, batchVars
<1> QED
  BY <1>1, InitBatches, BatchSound, PTL DEF BatchSpec

-----------------------------------------------------------------------------
(* Batches implements Approvals.                                            *)

\* An account starts with nothing approved.
LEMMA InitImplements == BatchInit => Abstract!ApprovalInit
BY DEF BatchInit, Abstract!ApprovalInit, ApprovedInBatches

\* Signing a root approves the contents of its tree.
LEMMA SignBatchImplements ==
  ASSUME NEW holder \in Holders, NEW tree \in Trees[MaxDepth], SignBatch(holder, tree)
  PROVE  Abstract!ApprovalNext
<1>1. /\ batched' = batched \cup ({holder} \X tree.contents)
      /\ UNCHANGED <<publicKey, named, accepted>>
  BY DEF SignBatch, SignDigest
<1>2. ApprovedInBatches' = ApprovedInBatches \cup ({Key(holder)} \X tree.contents)
  <2> DEFINE New == {<<Key(pair[1]), pair[2]>> : pair \in {holder} \X tree.contents}
  <2>1. ApprovedInBatches' = ApprovedInBatches \cup New
    BY <1>1 DEF ApprovedInBatches
  <2>2. \A pair \in {holder} \X tree.contents :
          <<Key(pair[1]), pair[2]>> \in {Key(holder)} \X tree.contents
    OBVIOUS
  <2>3. ASSUME NEW pair \in {Key(holder)} \X tree.contents
        PROVE  pair \in New
    <3>1. <<holder, pair[2]>> \in {holder} \X tree.contents /\ pair = <<Key(holder), pair[2]>>
      OBVIOUS
    <3> QED
      BY <3>1
  <2> QED
    BY <2>1, <2>2, <2>3
<1>3. Key(holder) \in KeyBytes /\ tree.contents \in SUBSET Leaves
  BY TreeContents DEF KeyBytes
<1> QED
  BY <1>1, <1>2, <1>3 DEF Abstract!ApprovalNext, Abstract!Approve

\* Signing the digest of a key names it.
LEMMA SignSuccessorImplements ==
  ASSUME NEW holder \in Holders, NEW successor \in Holders, SignSuccessor(holder, successor)
  PROVE  Abstract!ApprovalNext
<1>1. /\ named' = named \cup {<<Key(holder), Key(successor)>>}
      /\ UNCHANGED <<publicKey, batched, accepted>>
  BY DEF SignSuccessor, SignDigest
<1>2. ApprovedInBatches' = ApprovedInBatches
  BY <1>1 DEF ApprovedInBatches
<1>3. Key(holder) \in KeyBytes /\ Key(successor) \in KeyBytes
  BY DEF KeyBytes
<1> QED
  BY <1>1, <1>2, <1>3 DEF Abstract!ApprovalNext, Abstract!Name

\* A rotation was named, or the bytes hash to the root of a tree of two contents.
LEMMA RotateImplements ==
  ASSUME BatchInv, NEW bytes \in KeyBytes \cup NodeBytes, Rotate(bytes)
  PROVE  Abstract!ApprovalNext
<1>1. publicKey' = bytes /\ UNCHANGED <<batched, named, accepted>>
  BY DEF Rotate, Stored
<1>2. ApprovedInBatches' = ApprovedInBatches
  BY <1>1 DEF ApprovedInBatches
<1>3. PICK holder \in Holders : publicKey = Key(holder) /\ <<holder, Keccak(bytes)>> \in digests
  BY DEF Rotate, VerifySignature
<1>4. ASSUME NEW h \in Holders, Keccak(bytes) = Keccak(Key(h)), <<Key(holder), Key(h)>> \in named
      PROVE  Abstract!ApprovalNext
  <2>1. bytes = Key(h) /\ bytes \in KeyBytes
    BY <1>4, KeysDiffer DEF KeyBytes
  <2> QED
    BY <1>1, <1>2, <1>3, <1>4, <2>1 DEF Abstract!ApprovalNext, Abstract!PassOn
<1>5. ASSUME NEW t \in Trees[MaxDepth], Keccak(bytes) = t.root,
             {holder} \X t.contents \subseteq batched
      PROVE  Abstract!ApprovalNext
  <2>1. bytes \in NodeBytes
    BY <1>5, RootsAreNoKeys DEF KeyBytes
  <2>2. \A c : t # OneLeaf(c)
    <3>1. PICK a, b \in Hashes : bytes = Concat(a, b)
      BY <2>1 DEF NodeBytes
    <3>2. t.root = Node(a, b)
      BY <1>5, <3>1 DEF Node
    <3> QED
      BY <3>2, DigestsDiffer DEF OneLeaf
  <2>3. PICK c \in t.contents, d \in t.contents : c # d
    BY <2>2, TreeShapes
  <2>4. c \in Leaves /\ d \in Leaves
    BY TreeContents
  <2>5. <<Key(holder), c>> \in ApprovedInBatches /\ <<Key(holder), d>> \in ApprovedInBatches
    <3>1. <<holder, c>> \in batched /\ <<holder, d>> \in batched
      BY <1>5
    <3> QED
      BY <3>1 DEF ApprovedInBatches
  <2>6. {<<publicKey, c>>, <<publicKey, d>>} \subseteq ApprovedInBatches
    BY <1>3, <2>5
  <2>7. Abstract!Lose(bytes)
    BY <1>1, <1>2, <2>3, <2>4, <2>6 DEF Abstract!Lose
  <2> QED
    BY <2>1, <2>7 DEF Abstract!ApprovalNext
<1> QED
  BY <1>3, <1>4, <1>5 DEF BatchInv, DigestsMeant

\* What a handler accepts with a path has been approved.
LEMMA AcceptImplements ==
  ASSUME BatchInv, NEW content \in Leaves, NEW path \in Paths, Accept(content, path)
  PROVE  Abstract!ApprovalNext
<1>1. /\ accepted' = accepted \cup {<<publicKey, content>>}
      /\ UNCHANGED <<publicKey, batched, named>>
  BY DEF Accept
<1>2. ApprovedInBatches' = ApprovedInBatches
  BY <1>1 DEF ApprovedInBatches
<1>3. PICK holder \in Holders : publicKey = Key(holder) /\ <<holder, content>> \in batched
  BY AcceptStep
<1>4. <<publicKey, content>> \in ApprovedInBatches
  BY <1>3 DEF ApprovedInBatches
<1> QED
  BY <1>1, <1>2, <1>4 DEF Abstract!ApprovalNext, Abstract!Accept

\* Every behaviour of signers, trees, paths and handlers is one of Approvals: what the
\* other modules take a signature for is what it is.
THEOREM BatchesImplementApprovals == BatchSpec => ImplementsApprovals
<1>1. BatchInv /\ [BatchNext]_batchVars
      => [Abstract!ApprovalNext]_(Abstract!approvalVars)
  <2> SUFFICES ASSUME BatchInv, [BatchNext]_batchVars
               PROVE  Abstract!ApprovalNext \/ UNCHANGED Abstract!approvalVars
    OBVIOUS
  <2>1. CASE UNCHANGED batchVars
    BY <2>1 DEF batchVars, Abstract!approvalVars, ApprovedInBatches
  <2> QED
    BY <2>1, SignBatchImplements, SignSuccessorImplements, RotateImplements, AcceptImplements
       DEF BatchNext
<1> QED
  BY <1>1, InitImplements, BatchSound, PTL DEF BatchSpec, ImplementsApprovals,
                                               Abstract!ApprovalSpec

=============================================================================
