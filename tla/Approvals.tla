------------------------------ MODULE Approvals ------------------------------
(***************************************************************************)
(* What the programs take a signature for, without hashes, trees or paths: *)
(* an account accepts the contents its key has approved and passes to a    *)
(* key its key has named.  Bridge, Commission and Upgrade are written in   *)
(* these terms.                                                            *)
(*                                                                         *)
(* One thing more can happen: a key that has approved two contents may     *)
(* lose the account for good, to bytes nobody has the secret of.           *)
(***************************************************************************)
CONSTANTS
  Contents,
  Keys,
  FirstKey,
  Unusable  \* bytes that are no key

VARIABLES
  key,       \* the key in force, or unusable bytes
  approved,  \* <<key, content>> pairs
  named,     \* <<key, successor>> pairs
  accepted   \* <<key, content>> pairs the account has accepted

approvalVars == <<key, approved, named, accepted>>

ApprovalInit ==
  /\ key = FirstKey
  /\ approved = {} /\ named = {} /\ accepted = {}

\* Approvals and names are given at any time and for good, to whoever holds an account.
Approve(k, contents) ==
  /\ approved' = approved \cup ({k} \X contents)
  /\ UNCHANGED <<key, named, accepted>>

Name(k, successor) ==
  /\ named' = named \cup {<<k, successor>>}
  /\ UNCHANGED <<key, approved, accepted>>

Accept(content) ==
  /\ <<key, content>> \in approved
  /\ accepted' = accepted \cup {<<key, content>>}
  /\ UNCHANGED <<key, approved, named>>

PassOn(k) ==
  /\ <<key, k>> \in named
  /\ key' = k
  /\ UNCHANGED <<approved, named, accepted>>

Lose(bytes) ==
  /\ \E c, d \in Contents : c # d /\ {<<key, c>>, <<key, d>>} \subseteq approved
  /\ key' = bytes
  /\ UNCHANGED <<approved, named, accepted>>

ApprovalNext ==
  \/ \E k \in Keys : (\E contents \in SUBSET Contents : Approve(k, contents))
                     \/ (\E successor \in Keys : Name(k, successor))
  \/ \E content \in Contents : Accept(content)
  \/ \E k \in Keys : PassOn(k)
  \/ \E bytes \in Unusable : Lose(bytes)

ApprovalSpec == ApprovalInit /\ [][ApprovalNext]_approvalVars

=============================================================================
