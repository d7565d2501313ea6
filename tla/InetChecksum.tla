---------------------------- MODULE InetChecksum ----------------------------
(***************************************************************************)
(* checksum() and wrapsum() of apps/nmgen.c, and how build_packet() fills  *)
(* in the checksum of the IP header.  A header is a sequence of bytes in   *)
(* network order; Base, the number of values of a byte, is 256 in the      *)
(* code.                                                                   *)
(***************************************************************************)
EXTENDS Integers

CONSTANTS Base,     \* values of a byte
          HdrWords, \* 16-bit words of a header
          SumWord   \* the word that is ip_sum

ASSUME ChecksumAssumption ==
    /\ Base \in Nat \ {0, 1} /\ HdrWords \in Nat \ {0}
    /\ SumWord \in 1 .. HdrWords

Ones == Base * Base - 1     \* 0xFFFF

\* ntohs() of the i-th word.
word(data, i) == data[2 * i - 1] * Base + data[2 * i]

\* Mutant of add: the carry is lost.
add_no_carry(sum, w) == (sum + w) % (Ones + 1)

\* One turn of the loop of checksum().
add(sum, w) == IF sum + w > Ones THEN sum + w - Ones ELSE sum + w

\* The loop.  The length is even: the header is the only thing it is called for.
checksum(data, len) ==
    LET sum[i \in 0 .. len \div 2] == IF i = 0 THEN 0 ELSE add(sum[i - 1], word(data, i))
    IN  sum[len \div 2]

wrapsum(sum) == Ones - sum

\* ip->ip_sum = wrapsum(checksum(ip, sizeof(*ip), 0)), ip_sum being 0 before.
build_packet(ip) ==
    LET sum == wrapsum(checksum(ip, 2 * HdrWords))
    IN  [ip EXCEPT ![2 * SumWord - 1] = sum \div Base, ![2 * SumWord] = sum % Base]

Headers ==
    {ip \in [1 .. 2 * HdrWords -> 0 .. Base - 1] :
        ip[2 * SumWord - 1] = 0 /\ ip[2 * SumWord] = 0}

\* All words of a header added up, without carries.
Total(ip) ==
    LET sum[i \in 0 .. HdrWords] == IF i = 0 THEN 0 ELSE sum[i - 1] + word(ip, i)
    IN  sum[HdrWords]

\* What a receiver tests: the words, the checksum included, add up to zero in
\* ones' complement arithmetic, which is arithmetic modulo 0xFFFF.
Verifies(ip) == Total(ip) % Ones = 0

\* A receiver accepts every header that build_packet() makes.
AllVerify == \A ip \in Headers : Verifies(build_packet(ip))
=============================================================================
