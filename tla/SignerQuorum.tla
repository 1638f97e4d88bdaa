---------------------------- MODULE SignerQuorum ----------------------------
(***************************************************************************)
(* The check that the bridges' contracts and the guardian share: a call    *)
(* carries a sequence of signatures over its digest, and counts if they    *)
(* are by enough registered signers.  A signature is represented by the    *)
(* address that _recover finds for it, a natural number; 0 if _recover     *)
(* refuses it (wrong length or version, s in the upper half), and a number *)
(* of no signer if it is over another digest.                              *)
(***************************************************************************)
EXTENDS Integers, Sequences, FiniteSets

CONSTANTS
    Committee, Threshold,   \* the signers of a bridge, and its threshold
    Traitors                \* the signers that may sign anything

\* What the constructors require of the signers and of the threshold
IsCommittee(signers, threshold) ==
    /\ signers \subseteq Nat \ {0} /\ IsFiniteSet(signers)
    /\ threshold \in 1..Cardinality(signers)

ASSUME CommitteeAssumption ==
    /\ IsCommittee(Committee, Threshold)
    /\ Traitors \subseteq Committee /\ Cardinality(Traitors) < Threshold

\* The loop over the signatures: each by a registered signer, and in strictly
\* ascending order of the addresses.
Accepts(signers, threshold, sigs) ==
    /\ Len(sigs) >= threshold
    /\ \A i \in DOMAIN sigs : sigs[i] \in signers
    /\ \A i, j \in DOMAIN sigs : i < j => sigs[i] < sigs[j]

=============================================================================
