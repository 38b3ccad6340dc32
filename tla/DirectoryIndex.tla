--------------------------- MODULE DirectoryIndex ---------------------------
(***************************************************************************)
(* The GIGA+ index of a directory (gigaplus.cc), which maps a name to the  *)
(* partition, and so to the server, that has it.  Partition i has as child *)
(* i + 2^r for every r from the number of bits of i on.  An index is the   *)
(* set of the partitions that exist and the radix of its header.  DeltaFS  *)
(* creates all the partitions of a directory at once, at the client and at *)
(* the server, and never splits one.                                       *)
(*                                                                         *)
(* A hash is the number whose bit j is its (j+1)-th bit in the order in    *)
(* which ComputeIndexFromHash takes them (the bytes are bit-reversed).     *)
(* The bitmap's memory and its encoding are left out.  HashToIndex asserts *)
(* that the index it computes from a hash is below the number of virtual   *)
(* servers: Asserted is that assertion, HashToIndex is what a build        *)
(* without assertions goes on to do.                                       *)
(***************************************************************************)
EXTENDS Integers, FiniteSets

CONSTANTS kMaxRadix,
          num_virtual_servers, num_servers,
          zeroth_server

Pow2[r \in 0 .. kMaxRadix] == IF r = 0 THEN 1 ELSE 2 * Pow2[r - 1]

kMaxPartitions == Pow2[kMaxRadix]
Partition == 0 .. num_virtual_servers - 1

ToRadix(index) == CHOOSE r \in 0 .. kMaxRadix :
                      index < Pow2[r] /\ \A q \in 0 .. r - 1 : index >= Pow2[q]
ToParentIndex(index) == IF index = 0 THEN 0 ELSE index - Pow2[ToRadix(index) - 1]
ComputeIndexFromHash(hash, n) == hash % Pow2[n]

\* Turning on one bit after the other leaves the largest radix in the header.
SetAll == [bits |-> Partition,
           radix |-> CHOOSE r \in {ToRadix(i) : i \in Partition} :
                         \A i \in Partition : ToRadix(i) <= r]

\* Mutant: what has no partition of its own goes to the first one.
HashToIndexOrFirst(x, hash) ==
    LET i == ComputeIndexFromHash(hash, x.radix) IN IF i \in x.bits THEN i ELSE 0

\* What HashToIndex asserts before it looks for a partition.
Asserted(x, hash) == ComputeIndexFromHash(hash, x.radix) < num_virtual_servers

\* The first partition on the way from the index of the hash to 0 that exists.
HashToIndex(x, hash) ==
    LET up[i \in 0 .. Pow2[x.radix] - 1] ==
            IF i \in x.bits THEN i ELSE up[ToParentIndex(i)]
    IN  up[ComputeIndexFromHash(hash, x.radix)]

MapIndexToServer(index) == (index + zeroth_server) % num_servers

SelectServer(hash) == MapIndexToServer(HashToIndex(SetAll, hash))

\* The definition SelectServer is checked against: a name belongs to the partition with
\* the longest number that its hash begins with.
Owner(hash) ==
    LET begins == {i \in Partition : ComputeIndexFromHash(hash, ToRadix(i)) = i}
    IN  MapIndexToServer(CHOOSE i \in begins : \A j \in begins : j <= i)
=============================================================================
