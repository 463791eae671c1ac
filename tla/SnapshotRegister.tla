-------------------------- MODULE SnapshotRegister --------------------------
(***************************************************************************)
(* What the shared memory promises a reader that is synchronised with the  *)
(* Radar, without the fields, the semaphore and the steps that module      *)
(* SharedSnapshot shows it is made with: a register that is written and    *)
(* read in one step each.  What it holds may be lost, and with it the      *)
(* promise to those who are reading, when the Radar stops or is killed.    *)
(***************************************************************************)
EXTENDS Naturals

CONSTANTS Readers,  \* the processes that read
          Slots     \* the largest number of entries in a snapshot

VARIABLES
    number,  \* the snapshots written so far, by their numbers 1..number
    latest,  \* the snapshot the register holds
    got      \* the snapshot each reader has got and not yet dropped

vars == <<number, latest, got>>

(* Snapshot k, of n entries; the number zero names none.                   *)
Image(k, n) == [timestamp |-> k, plane_data |-> [i \in 1..n |-> k]]
Nothing == Image(0, 0)
AllDropped == [r \in Readers |-> Nothing]

Init ==
    /\ number = 0
    /\ latest = Nothing
    /\ got = AllDropped

(* A new snapshot replaces the one before.                                 *)
Write ==
    /\ number' = number + 1
    /\ \E n \in 0..Slots : latest' = Image(number', n)
    /\ UNCHANGED got

(* A reader that has dropped the snapshot before gets the latest.          *)
Read(r) ==
    /\ got[r] = Nothing
    /\ got' = [got EXCEPT ![r] = latest]
    /\ UNCHANGED <<number, latest>>

Drop(r) ==
    /\ got[r] # Nothing
    /\ got' = [got EXCEPT ![r] = Nothing]
    /\ UNCHANGED <<number, latest>>

(* The register loses what it holds, perhaps with the snapshot that was    *)
(* about to be written.                                                    *)
Lose ==
    /\ number' \in {number, number + 1}
    /\ latest' = Nothing
    /\ UNCHANGED got

(* Once it has, it may be cleared for a new start.                         *)
Reset ==
    /\ latest = Nothing
    /\ got' = AllDropped
    /\ UNCHANGED <<number, latest>>

Next ==
    \/ Write \/ Lose \/ Reset
    \/ \E r \in Readers : Read(r) \/ Drop(r)

Spec == Init /\ [][Next]_vars

=============================================================================
