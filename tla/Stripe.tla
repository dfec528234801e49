------------------------------- MODULE Stripe -------------------------------
(***************************************************************************)
(* What the stripe operations of kineticio compute from the answers of the *)
(* drives: the tally of status codes, the verdict drawn from it, and the   *)
(* most frequent version of a stripe.                                      *)
(*                                                                         *)
(* A key is stored as a stripe of NumData data chunks followed by          *)
(* NumParity parity chunks, each chunk on a drive of its own.  A chunk is  *)
(* represented by the version its record carries; the bytes of the value   *)
(* are determined by the version, which is a fresh uuid per put.           *)
(***************************************************************************)
EXTENDS Integers, FiniteSets

CONSTANTS
  NumData,    \* redundancy->numData()
  NumParity,  \* redundancy->numParity()
  Empty,      \* the empty version string: the key is not on the drive
  NoVersion   \* a null version pointer: the drive did not answer

\* ClusterMap::getCluster refuses every other configuration.
ASSUME StripeAssumption ==
  /\ NumData \in Nat
  /\ NumParity \in Nat
  /\ NumData > NumParity
  /\ Empty # NoVersion

StripeSize == NumData + NumParity
Chunks == 1..StripeSize
DataChunks == 1..NumData

\* The status codes the stripe operations tell apart.  Every code other than
\* the first three is an error and is treated alike.
Status == {"OK", "NOT_FOUND", "VERSION_MISMATCH", "IO_ERROR"}

validStatusCode(s) == s \in {"OK", "NOT_FOUND", "VERSION_MISMATCH"}

-----------------------------------------------------------------------------
(***************************************************************************)
(* The tally (the map called rmap in the code) and the verdicts.           *)
(***************************************************************************)

With(st, s) == {i \in DOMAIN st : st[i] = s}
Tally(st, s) == Cardinality(With(st, s))

\* "Any status code encountered at least nData times is valid."
Quorum(st, s) == Tally(st, s) >= NumData

\* The status a put returns for the final statuses of its chunks.
Verdict(st) ==
  IF \E s \in Status : Quorum(st, s)
    THEN CHOOSE s \in Status : Quorum(st, s)
    ELSE "IO_ERROR"

\* A removal counts a chunk that is already absent as removed, once it has
\* removed at least one chunk itself.
Removed(st) ==
  IF With(st, "OK") # {}
    THEN [i \in DOMAIN st |-> IF st[i] = "NOT_FOUND" THEN "OK" ELSE st[i]]
    ELSE st

\* Whether an indicator key has to mark the stripe as needing attention.
PutNeedsIndicator(st) ==
  Quorum(st, "OK") /\ Tally(st, "OK") < StripeSize

DelNeedsIndicator(st) ==
  \E s \in Status : Quorum(Removed(st), s) /\ Tally(Removed(st), s) < StripeSize

-----------------------------------------------------------------------------
(***************************************************************************)
(* The most frequent version among the versions read from the drives.  An  *)
(* absent chunk (Empty) and an unanswered one (NoVersion) are not counted; *)
(* the version of the lowest chunk wins a tie.                             *)
(***************************************************************************)

Stored(read) == {i \in DOMAIN read : read[i] \notin {Empty, NoVersion}}

Frequency(read, v) == Cardinality({i \in DOMAIN read : read[i] = v})

MostFrequent(read, i) ==
  /\ i \in Stored(read)
  /\ \A j \in Stored(read) :
        \/ Frequency(read, read[j]) < Frequency(read, read[i])
        \/ Frequency(read, read[j]) = Frequency(read, read[i]) /\ i <= j

mostFrequentVersion(read) ==
  IF Stored(read) = {}
    THEN [version |-> NoVersion, frequency |-> 0]
    ELSE LET first == CHOOSE i \in DOMAIN read : MostFrequent(read, i)
         IN  [version |-> read[first], frequency |-> Frequency(read, read[first])]

\* The version that may repair the stripe: the most frequent one, or Empty if
\* strictly more chunks are absent ("Remote not found does not reflect in
\* most_frequent").  NoVersion if nothing was read at all.
RepairTurn(read) ==
  IF Frequency(read, Empty) > mostFrequentVersion(read).frequency
    THEN Empty
    ELSE mostFrequentVersion(read).version

\* The chunks that carry the target version.  A drive that did not answer
\* counts as absent when the target is to remove the stripe.
Positions(read, target) ==
  {i \in DOMAIN read : \/ read[i] = target
                       \/ read[i] = NoVersion /\ target = Empty}
=============================================================================
