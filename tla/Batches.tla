------------------------------ MODULE Batches ------------------------------
(***************************************************************************)
(* What one threshold signature stands for.  The signers hash the contents *)
(* of many operations into a Merkle tree and sign its root; the programs   *)
(* compute a root from one content and a path the caller brings.  A        *)
(* rotation is signed without a tree.  Bridge, Commission and Upgrade work *)
(* with <<key, content>> pairs instead; this module is about one admin     *)
(* account of any of them and shows what these pairs come from.            *)
(*                                                                         *)
(* Keccak is free of collisions: a digest stands for what was hashed.      *)
(* An inner node and a rotation are both hashes of 64 bytes, and the bytes *)
(* of an inner node, read as a new key, are nobody's public key.           *)
(***************************************************************************)
EXTENDS Naturals, SequencesExt

CONSTANTS
  Leaves,      \* contents, all longer than 64 bytes
  Holders,     \* public keys somebody can sign with
  InitialKey,  \* the key the admin account is created with
  MaxDepth,    \* bound on the height of a tree and the length of a path
  MaxSigned    \* bound on the digests that are signed

VARIABLES
  publicKey,  \* the 64 bytes stored in the admin account
  digests,    \* <<holder, digest>> pairs signed so far
  batched,    \* history: <<holder, content>> pairs of the trees signed
  named,      \* history: <<holder, successor>> pairs of the rotations signed
  held,       \* history: what publicKey has been
  accepted    \* history: <<key, content>> pairs a handler accepted

batchVars == <<publicKey, digests, batched, named, held, accepted>>

-----------------------------------------------------------------------------
(* Digests. *)

Key(holder) == <<"key", holder>>

Keccak(bytes) == <<"keccak", bytes>>
Leaf(content) == Keccak(<<"content", content>>)

\* Faulty variant: the two hashes in the order of the path, not of their values.
FaultyConcat(a, b) == <<"pair", <<a, b>>>>

\* Two hashes one after the other, the larger first: 64 bytes, the same for (b, a).
Concat(a, b) == <<"pair", {a, b}>>

Node(a, b) == Keccak(Concat(a, b))

\* Faulty variant: the sibling replaces the hash.
FaultyGetMerkleRoot(hash, path) == IF path = <<>> THEN hash ELSE Last(path)

\* The hashes the loop goes through, from that of the leaf on.
HashesAlong(hash, path) ==
  LET along[i \in 0 .. Len(path)] == IF i = 0 THEN hash ELSE Node(along[i - 1], path[i])
  IN along

GetMerkleRoot(hash, path) == HashesAlong(hash, path)[Len(path)]

\* Faulty variant: any holder's signature is accepted.
FaultyVerifySignature(key, digest) == \E pair \in digests : pair[2] = digest

VerifySignature(key, digest) ==
  \E holder \in Holders : key = Key(holder) /\ <<holder, digest>> \in digests

OneLeaf(c) == [root |-> Leaf(c), contents |-> {c}]

Joined(t, u) == [root |-> Node(t.root, u.root), contents |-> t.contents \cup u.contents]

\* The trees the signers may build, of up to n levels, with the contents in them.
Trees[n \in 0 .. MaxDepth] ==
  IF n = 0 THEN {OneLeaf(c) : c \in Leaves}
  ELSE Trees[n - 1] \cup
       {Joined(pair[1], pair[2]) :
          pair \in {p \in Trees[n - 1] \X Trees[n - 1] : p[1].contents \cap p[2].contents = {}}}

Hashes == {t.root : t \in Trees[MaxDepth]}

\* 64 bytes that are inner nodes' inputs: no holder's key.
NodeBytes == {Concat(a, b) : a, b \in Hashes}
KeyBytes  == {Key(holder) : holder \in Holders}

\* What signers sign; a caller may put any of it in a path, whether signed or not.
SignedHashes == Hashes \cup {Keccak(k) : k \in KeyBytes}
Paths        == UNION {[1 .. n -> SignedHashes] : n \in 0 .. MaxDepth}

ASSUME BatchAssumption ==
  /\ InitialKey \in Holders
  /\ MaxDepth \in Nat /\ MaxSigned \in Nat

-----------------------------------------------------------------------------
(* The signers. *)

SignDigest(holder, digest) ==
  /\ Cardinality(digests) < MaxSigned
  /\ <<holder, digest>> \notin digests
  /\ digests' = digests \cup {<<holder, digest>>}
  /\ UNCHANGED <<publicKey, held, accepted>>

SignBatch(holder, tree) ==
  /\ SignDigest(holder, tree.root)
  /\ batched' = batched \cup ({holder} \X tree.contents)
  /\ UNCHANGED named

SignSuccessor(holder, successor) ==
  /\ SignDigest(holder, Keccak(Key(successor)))
  /\ named' = named \cup {<<Key(holder), Key(successor)>>}
  /\ UNCHANGED batched

-----------------------------------------------------------------------------
(* The handlers, for whatever the caller brings. *)

\* Faulty variant: the digest is stored instead of the key.
FaultyStored(bytes) == Keccak(bytes)

\* bridge_admin.public_key = new_public_key.
Stored(bytes) == bytes

\* A rotation: the 64 bytes of the argument are hashed and become the key.
Rotate(bytes) ==
  /\ VerifySignature(publicKey, Keccak(bytes))
  /\ publicKey' = Stored(bytes)
  /\ held' = held \cup {publicKey'}
  /\ UNCHANGED <<digests, batched, named, accepted>>

\* Any operation that is signed with a path.  Whether it may be carried out twice is
\* not a matter of the signature.
Accept(content, path) ==
  /\ VerifySignature(publicKey, GetMerkleRoot(Leaf(content), path))
  /\ accepted' = accepted \cup {<<publicKey, content>>}
  /\ UNCHANGED <<publicKey, digests, batched, named, held>>

-----------------------------------------------------------------------------
BatchInit ==
  /\ publicKey = Key(InitialKey)
  /\ digests = {} /\ batched = {} /\ named = {} /\ accepted = {}
  /\ held = {Key(InitialKey)}

BatchNext ==
  \/ \E holder \in Holders :
       \/ \E tree \in Trees[MaxDepth] : SignBatch(holder, tree)
       \/ \E successor \in Holders : SignSuccessor(holder, successor)
  \/ \E bytes \in KeyBytes \cup NodeBytes : Rotate(bytes)
  \/ \E content \in Leaves, path \in Paths : Accept(content, path)

BatchSpec == BatchInit /\ [][BatchNext]_batchVars

-----------------------------------------------------------------------------
(* Properties. *)

\* Every variable holds what its declaration says.
BatchTypeOK ==
  /\ publicKey \in KeyBytes \cup NodeBytes
  /\ digests \subseteq Holders \X SignedHashes
  /\ batched \subseteq Holders \X Leaves
  /\ named \subseteq KeyBytes \X KeyBytes
  /\ held \subseteq KeyBytes \cup NodeBytes
  /\ accepted \subseteq KeyBytes \X Leaves

\* No content gets through that was not in a batch of the key in force: not through
\* a path that starts or ends elsewhere in a tree, with the nodes of another one, or
\* with the hash of a rotation in it.
AcceptedWereBatched ==
  \A pair \in accepted : \E holder \in Holders :
    pair[1] = Key(holder) /\ <<holder, pair[2]>> \in batched

\* Each content of a batch has a path under which it is accepted, wherever in the
\* tree it is and however the signers order siblings.
BatchedAcceptable ==
  \A pair \in batched : \E path \in Paths :
    VerifySignature(Key(pair[1]), GetMerkleRoot(Leaf(pair[2]), path))

\* Control never passes to a key its predecessor has not named: what is in force is
\* named by one that was, or it is the input of an inner node, with which nobody can
\* sign.  (The second may happen: the root of a tree of two or more contents is a
\* signed rotation to these bytes, after which the admin accepts nothing.)
OnlyNamedKeys ==
  \A key \in held :
    \/ key = Key(InitialKey)
    \/ \E earlier \in held : <<earlier, key>> \in named
    \/ key \in NodeBytes

-----------------------------------------------------------------------------
(* What a batch approves is what is in it, wherever in the tree.           *)

ApprovedInBatches == {<<Key(pair[1]), pair[2]>> : pair \in batched}

Abstract == INSTANCE Approvals WITH
              Contents <- Leaves, Keys <- KeyBytes, FirstKey <- Key(InitialKey),
              Unusable <- NodeBytes, key <- publicKey, approved <- ApprovedInBatches

\* Hashes, paths and trees do nothing but carry approvals: a step of the program is
\* one of Approvals, so that a content is accepted while its key is in force, a
\* successor follows while the key that named it is, and an account is lost to an
\* inner node only after its key has batched two contents.
ImplementsApprovals == Abstract!ApprovalSpec

=============================================================================
