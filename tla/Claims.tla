------------------------------- MODULE Claims -------------------------------
(***************************************************************************)
(* What the bridge promises, without accounts, mints or handlers.          *)
(*                                                                         *)
(* An origin (a deposit on another chain) entitles one receiver to one     *)
(* amount of one asset, once.  Whoever holds the key in force at an admin  *)
(* approves claims and names the next key; an approved claim is paid while *)
(* its key is in force, in full and exactly as approved, or never.         *)
(***************************************************************************)
EXTENDS Naturals

CONSTANTS Seeds, PublicKeys, Origins, Assets, None

VARIABLES
  key,         \* [Seeds -> PublicKeys \cup {None}], the key in force
  approved,    \* approvals: [key, origin, claim : [type, asset, amount, receiver]]
  successors,  \* <<old key, new key>> pairs the old key has named
  claim,       \* [Origins -> the claim paid, or None]
  received     \* [Assets -> what receivers have got in all]

vars == <<key, approved, successors, claim, received>>

Init ==
  /\ key = [s \in Seeds |-> None]
  /\ approved = {}
  /\ successors = {}
  /\ claim = [o \in Origins |-> None]
  /\ received = [a \in Assets |-> 0]

Open(s, k) ==
  /\ key[s] = None
  /\ key' = [key EXCEPT ![s] = k]
  /\ UNCHANGED <<approved, successors, claim, received>>

Rotate(s, k) ==
  /\ key[s] # None
  /\ <<key[s], k>> \in successors
  /\ key' = [key EXCEPT ![s] = k]
  /\ UNCHANGED <<approved, successors, claim, received>>

\* Approvals are public and permanent.
Approve ==
  /\ approved \subseteq approved'
  /\ successors \subseteq successors'
  /\ UNCHANGED <<key, claim, received>>

\* Paying the last of what an admin has may close it.
Pay(s, approval) ==
  /\ key[s] # None
  /\ approval.key = key[s]
  /\ claim[approval.origin] = None
  /\ claim' = [claim EXCEPT ![approval.origin] = approval.claim]
  /\ received' = [received EXCEPT ![approval.claim.asset] = @ + approval.claim.amount]
  /\ key' \in {key, [key EXCEPT ![s] = None]}
  /\ UNCHANGED <<approved, successors>>

Next ==
  \/ \E s \in Seeds, k \in PublicKeys : Open(s, k) \/ Rotate(s, k)
  \/ Approve
  \/ \E s \in Seeds, approval \in approved : Pay(s, approval)

Spec == Init /\ [][Next]_vars

=============================================================================
