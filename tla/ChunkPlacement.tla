--------------------------- MODULE ChunkPlacement ---------------------------
(***************************************************************************)
(* Which drives the requests of an operation go to: the two versions of    *)
(* expandOperationVector.  hash is the 32 bit hash of the key, n the       *)
(* number of drives, M the modulus of the index (2^32 in the code).        *)
(* Drives are numbered from 0, requests from 1.                            *)
(***************************************************************************)
EXTENDS Integers

\* The index before the first request, an offset past the hash.
Start(hash, offset, M) == (hash + offset) % M

\* The loop of KineticClusterStripeOperation::expandOperationVector: the index
\* after each of the requests it appends.
Walk(hash, offset, n, M) ==
  LET index[k \in Nat] == IF k = 0 THEN Start(hash, offset, M)
                                   ELSE ((index[k - 1] + 1) % M) % n
  IN  index

\* The drive of the k-th request, without the loop: once the index has been reduced
\* it is a drive and cannot overflow any more.
Drive(hash, offset, n, M, k) == (((Start(hash, offset, M) + 1) % M) + (k - 1)) % n

\* The drive of the k-th attempt of createSingleKey, which expands the vector by
\* one request at a time, after size requests that are there already.
Attempt(hash, size, n, M, k) == Drive(hash, size + (k - 1), n, M, 1)

\* KineticClusterOperation::expandOperationVector, for the requests that go to all
\* drives (flush, range, log) and the search for a drive that knows the limits.
AnyDrive(offset, n, k) == (offset + (k - 1)) % n

\* The loop goes to the drives that Drive names, for stripes up to the number of
\* drives, whether the hash overflows or not.
WalkIsDrive(hashes, sizes, M) ==
  \A n \in sizes, hash \in hashes : \A offset \in 0..n, k \in 1..n :
    Walk(hash, offset, n, M)[k] = Drive(hash, offset, n, M, k)
=============================================================================
