----------------------------- MODULE Keccak_proofs -----------------------------
(***************************************************************************)
(* Proofs about the two sponges: they hold the same state after every      *)
(* step, for all blocks and every sequence of calls, and lose nothing of   *)
(* what they absorb.  First what the reference computes when it is         *)
(* initialized is followed - its shift register, its walk over the lanes - *)
(* and found in the tables of the kernel; then each step of a round and    *)
(* each conversion is shown to be the same in both; then come the steps of *)
(* the specification; last, each step of a round is shown to be injective. *)
(***************************************************************************)
EXTENDS Keccak, WellFoundedInduction, TLAPS

\* A set of natural numbers that is not empty has a least element.
LEMMA LeastOf ==
    ASSUME NEW S \in SUBSET Nat, S # {}
    PROVE  \E n \in S : \A m \in S : ~ m < n
<1>1. \E n \in S : \A m \in S : <<m, n>> \notin OpToRel(<, Nat)
  BY NatLessThanWellFounded, WFMin
<1> QED
  BY <1>1 DEF OpToRel

\* The operations on lanes are defined alike in both programs.
LEMMA SameLanes ==
    /\ Ref!Word = Word /\ Ref!Byte = Byte
    /\ \A a, b : Ref!Xor(a, b) = Xor(a, b)
    /\ \A a, k : Ref!Shl(a, k) = Shl(a, k) /\ Ref!Shr(a, k) = Shr(a, k)
    /\ \A l, x : Ref!Parity(l, x) = Parity(l, x)
BY DEF Word, Byte, Xor, Shl, Shr, Parity,
       Ref!Word, Ref!Byte, Ref!Xor, Ref!Shl, Ref!Shr, Ref!Parity

\* The register after j calls is the one after j - 1 calls, shifted once more.
LEMMA CalledRecursion ==
    ASSUME NEW l
    PROVE  /\ Ref!Called(l, 0) = l
           /\ \A j \in 1..7 : Ref!Called(l, j) = Ref!Shifted(Ref!Called(l, j - 1))
<1> DEFINE Rec(g) == g = [h \in 0..7 |-> IF h = 0 THEN l ELSE Ref!Shifted(g[h - 1])]
           S(x) == Ref!Shifted(x)
           f == [h \in 0..7 |->
                   CASE h = 0 -> l
                     [] h = 1 -> S(l)
                     [] h = 2 -> S(S(l))
                     [] h = 3 -> S(S(S(l)))
                     [] h = 4 -> S(S(S(S(l))))
                     [] h = 5 -> S(S(S(S(S(l)))))
                     [] h = 6 -> S(S(S(S(S(S(l))))))
                     [] h = 7 -> S(S(S(S(S(S(S(l)))))))]
           state == CHOOSE g : Rec(g)
<1>1. Rec(f)
  OBVIOUS
<1>2. Rec(state)
  BY <1>1, Zenon
<1>3. \A j \in 0..7 : Ref!Called(l, j) = state[j]
  BY DEF Ref!Called
<1>4. state = [h \in 0..7 |-> IF h = 0 THEN l ELSE Ref!Shifted(state[h - 1])]
  BY <1>2
<1> HIDE DEF state
<1>5. state[0] = l /\ \A j \in 1..7 : state[j] = Ref!Shifted(state[j - 1])
  BY <1>4
<1> QED
  BY <1>3, <1>5

\* The bits of a register after a call: bit 7 falls out and is added to bits 0, 4, 5
\* and 6.
LEMMA ShiftedBits ==
    ASSUME NEW l \in SUBSET Byte
    PROVE  /\ Ref!Shifted(l) \in SUBSET Byte
           /\ 0 \in Ref!Shifted(l) <=> 7 \in l
           /\ \A k \in {1, 2, 3, 7} : k \in Ref!Shifted(l) <=> k - 1 \in l
           /\ \A k \in {4, 5, 6} : k \in Ref!Shifted(l) <=> ((k - 1 \in l) # (7 \in l))
<1>1. \A k \in Int : k \in Shl(l, 1) <=> k - 1 \in l
  BY DEF Shl, Byte
<1>2. Shl(l, 1) \subseteq 1..8 /\ (8 \in Shl(l, 1) <=> 7 \in l)
  BY DEF Shl, Byte
<1>3. CASE 7 \in l
  <2>1. Ref!Shifted(l) = Xor(Shl(l, 1) \cap Byte, {0, 4, 5, 6})
    BY <1>3, SameLanes DEF Ref!Shifted
  <2> QED
    BY <1>1, <1>2, <1>3, <2>1 DEF Xor, Byte
<1>4. CASE 7 \notin l
  <2>1. Ref!Shifted(l) = Shl(l, 1)
    BY <1>4, SameLanes DEF Ref!Shifted
  <2> QED
    BY <1>1, <1>2, <1>4, <2>1 DEF Byte
<1> QED
  BY <1>3, <1>4

\* Seven calls, as sums of the bits of the register they start from: its bits after
\* the calls, and the bit each of them returned.
LEMMA SevenCalls ==
    ASSUME NEW l \in SUBSET Byte
    PROVE  LET b(k) == k \in l
               s(j) == Ref!Called(l, j)
           IN
           /\ s(7) \in SUBSET Byte
           /\ 0 \in s(7) <=> ((b(1) # b(3)) # b(4))
           /\ 1 \in s(7) <=> ((b(2) # b(4)) # b(5))
           /\ 2 \in s(7) <=> ((b(3) # b(5)) # b(6))
           /\ 3 \in s(7) <=> ((b(4) # b(6)) # b(7))
           /\ 4 \in s(7) <=> ((((b(1) # b(3)) # b(4)) # b(5)) # b(7))
           /\ 5 \in s(7) <=> ((((b(1) # b(2)) # b(3)) # b(5)) # b(6))
           /\ 6 \in s(7) <=> (((b(1) # b(2)) # b(6)) # b(7))
           /\ 7 \in s(7) <=> (((b(0) # b(2)) # b(3)) # b(7))
           /\ 0 \in s(0) <=> b(0)
           /\ 0 \in s(1) <=> b(7)
           /\ 0 \in s(2) <=> b(6)
           /\ 0 \in s(3) <=> (b(5) # b(7))
           /\ 0 \in s(4) <=> ((b(4) # b(6)) # b(7))
           /\ 0 \in s(5) <=> ((b(3) # b(5)) # b(6))
           /\ 0 \in s(6) <=> ((b(2) # b(4)) # b(5))
<1> DEFINE b(k) == k \in l
           s(j) == Ref!Called(l, j)
<1>0. s(0) = l /\ \A j \in 1..7 : s(j) = Ref!Shifted(s(j - 1))
  BY CalledRecursion
<1>1. /\ s(1) \in SUBSET Byte
      /\ 0 \in s(1) <=> b(7)
      /\ 1 \in s(1) <=> b(0)
      /\ 2 \in s(1) <=> b(1)
      /\ 3 \in s(1) <=> b(2)
      /\ 4 \in s(1) <=> (b(3) # b(7))
      /\ 5 \in s(1) <=> (b(4) # b(7))
      /\ 6 \in s(1) <=> (b(5) # b(7))
      /\ 7 \in s(1) <=> b(6)
  BY <1>0, ShiftedBits
<1>2. /\ s(2) \in SUBSET Byte
      /\ 0 \in s(2) <=> b(6)
      /\ 1 \in s(2) <=> b(7)
      /\ 2 \in s(2) <=> b(0)
      /\ 3 \in s(2) <=> b(1)
      /\ 4 \in s(2) <=> (b(2) # b(6))
      /\ 5 \in s(2) <=> ((b(3) # b(6)) # b(7))
      /\ 6 \in s(2) <=> ((b(4) # b(6)) # b(7))
      /\ 7 \in s(2) <=> (b(5) # b(7))
  <2>1. s(2) = Ref!Shifted(s(1))
    BY <1>0
  <2> QED
    BY <1>1, <2>1, ShiftedBits
<1>3. /\ s(3) \in SUBSET Byte
      /\ 0 \in s(3) <=> (b(5) # b(7))
      /\ 1 \in s(3) <=> b(6)
      /\ 2 \in s(3) <=> b(7)
      /\ 3 \in s(3) <=> b(0)
      /\ 4 \in s(3) <=> ((b(1) # b(5)) # b(7))
      /\ 5 \in s(3) <=> (((b(2) # b(5)) # b(6)) # b(7))
      /\ 6 \in s(3) <=> ((b(3) # b(5)) # b(6))
      /\ 7 \in s(3) <=> ((b(4) # b(6)) # b(7))
  <2>1. s(3) = Ref!Shifted(s(2))
    BY <1>0
  <2> QED
    BY <1>2, <2>1, ShiftedBits
<1>4. /\ s(4) \in SUBSET Byte
      /\ 0 \in s(4) <=> ((b(4) # b(6)) # b(7))
      /\ 1 \in s(4) <=> (b(5) # b(7))
      /\ 2 \in s(4) <=> b(6)
      /\ 3 \in s(4) <=> b(7)
      /\ 4 \in s(4) <=> (((b(0) # b(4)) # b(6)) # b(7))
      /\ 5 \in s(4) <=> (((b(1) # b(4)) # b(5)) # b(6))
      /\ 6 \in s(4) <=> ((b(2) # b(4)) # b(5))
      /\ 7 \in s(4) <=> ((b(3) # b(5)) # b(6))
  <2>1. s(4) = Ref!Shifted(s(3))
    BY <1>0
  <2> QED
    BY <1>3, <2>1, ShiftedBits
<1>5. /\ s(5) \in SUBSET Byte
      /\ 0 \in s(5) <=> ((b(3) # b(5)) # b(6))
      /\ 1 \in s(5) <=> ((b(4) # b(6)) # b(7))
      /\ 2 \in s(5) <=> (b(5) # b(7))
      /\ 3 \in s(5) <=> b(6)
      /\ 4 \in s(5) <=> (((b(3) # b(5)) # b(6)) # b(7))
      /\ 5 \in s(5) <=> ((((b(0) # b(3)) # b(4)) # b(5)) # b(7))
      /\ 6 \in s(5) <=> ((b(1) # b(3)) # b(4))
      /\ 7 \in s(5) <=> ((b(2) # b(4)) # b(5))
  <2>1. s(5) = Ref!Shifted(s(4))
    BY <1>0
  <2> QED
    BY <1>4, <2>1, ShiftedBits
<1>6. /\ s(6) \in SUBSET Byte
      /\ 0 \in s(6) <=> ((b(2) # b(4)) # b(5))
      /\ 1 \in s(6) <=> ((b(3) # b(5)) # b(6))
      /\ 2 \in s(6) <=> ((b(4) # b(6)) # b(7))
      /\ 3 \in s(6) <=> (b(5) # b(7))
      /\ 4 \in s(6) <=> (((b(2) # b(4)) # b(5)) # b(6))
      /\ 5 \in s(6) <=> ((((b(2) # b(3)) # b(4)) # b(6)) # b(7))
      /\ 6 \in s(6) <=> (((b(0) # b(2)) # b(3)) # b(7))
      /\ 7 \in s(6) <=> ((b(1) # b(3)) # b(4))
  <2>1. s(6) = Ref!Shifted(s(5))
    BY <1>0
  <2> QED
    BY <1>5, <2>1, ShiftedBits
<1>7. /\ s(7) \in SUBSET Byte
      /\ 0 \in s(7) <=> ((b(1) # b(3)) # b(4))
      /\ 1 \in s(7) <=> ((b(2) # b(4)) # b(5))
      /\ 2 \in s(7) <=> ((b(3) # b(5)) # b(6))
      /\ 3 \in s(7) <=> ((b(4) # b(6)) # b(7))
      /\ 4 \in s(7) <=> ((((b(1) # b(3)) # b(4)) # b(5)) # b(7))
      /\ 5 \in s(7) <=> ((((b(1) # b(2)) # b(3)) # b(5)) # b(6))
      /\ 6 \in s(7) <=> (((b(1) # b(2)) # b(6)) # b(7))
      /\ 7 \in s(7) <=> (((b(0) # b(2)) # b(3)) # b(7))
  <2>1. s(7) = Ref!Shifted(s(6))
    BY <1>0
  <2> QED
    BY <1>6, <2>1, ShiftedBits
<1> QED
  BY <1>0, <1>1, <1>2, <1>3, <1>4, <1>5, <1>6, <1>7

\* The bits 2^j - 1 that a round constant can have.
Bits == <<0, 1, 3, 7, 15, 31, 63>>

\* Bits lists the bits that the seven calls of one round can set.
LEMMA Powers == \A j \in 0..6 : 2^j - 1 = Bits[j + 1]
<1> TAKE j \in 0..6
<1>0. CASE j = 0  BY <1>0 DEF Bits
<1>1. CASE j = 1  BY <1>1 DEF Bits
<1>2. CASE j = 2  BY <1>2 DEF Bits
<1>3. CASE j = 3  BY <1>3 DEF Bits
<1>4. CASE j = 4  BY <1>4 DEF Bits
<1>5. CASE j = 5  BY <1>5 DEF Bits
<1>6. CASE j = 6  BY <1>6 DEF Bits
<1> QED
  BY <1>0, <1>1, <1>2, <1>3, <1>4, <1>5, <1>6

\* The register when the constant of round i is computed.
Register == <<
    {0}, {7}, {3, 4, 6, 7}, {1, 3, 4}, {0, 1, 2, 3, 4, 6, 7},
    {0, 3}, {0, 2, 4, 5}, {0, 1, 2, 3, 6}, {1, 3, 6, 7}, {4, 5, 6},
    {0, 6}, {2, 3, 5, 6, 7}, {0, 2, 4, 6, 7}, {0, 2, 3, 6, 7}, {0, 1, 5, 6},
    {0, 1, 3, 5, 7}, {1, 3, 5, 7}, {1, 3, 5}, {1, 4, 5, 6, 7}, {3, 5, 6, 7},
    {0, 1, 2, 4, 5}, {1, 2, 3, 4, 5}, {0, 1, 3}, {2, 6}, {1, 2, 3, 7}>>

\* From the register l the round constant c is computed, and m is left.
Follows(l, c, m) ==
    /\ l \in SUBSET Byte /\ m \in SUBSET Byte
    /\ c \in SUBSET {0, 1, 3, 7, 15, 31, 63}
    /\ LET b(k) == k \in l IN
       /\ 0 \in m <=> ((b(1) # b(3)) # b(4))
       /\ 1 \in m <=> ((b(2) # b(4)) # b(5))
       /\ 2 \in m <=> ((b(3) # b(5)) # b(6))
       /\ 3 \in m <=> ((b(4) # b(6)) # b(7))
       /\ 4 \in m <=> ((((b(1) # b(3)) # b(4)) # b(5)) # b(7))
       /\ 5 \in m <=> ((((b(1) # b(2)) # b(3)) # b(5)) # b(6))
       /\ 6 \in m <=> (((b(1) # b(2)) # b(6)) # b(7))
       /\ 7 \in m <=> (((b(0) # b(2)) # b(3)) # b(7))
       /\ 0 \in c <=> b(0)
       /\ 1 \in c <=> b(7)
       /\ 3 \in c <=> b(6)
       /\ 7 \in c <=> (b(5) # b(7))
       /\ 15 \in c <=> ((b(4) # b(6)) # b(7))
       /\ 31 \in c <=> ((b(3) # b(5)) # b(6))
       /\ 63 \in c <=> ((b(2) # b(4)) # b(5))

\* A register that Follows another is the one the calls of a round compute.
LEMMA FollowsIsComputed ==
    ASSUME NEW l, NEW c, NEW m, Follows(l, c, m)
    PROVE  Ref!RoundConstant(l) = c /\ Ref!Called(l, 7) = m
<1>1. l \in SUBSET Byte /\ m \in SUBSET Byte /\ c \in SUBSET {0, 1, 3, 7, 15, 31, 63}
  BY DEF Follows
<1>2. Ref!Called(l, 7) \in SUBSET Byte /\ \A k \in Byte : k \in Ref!Called(l, 7) <=> k \in m
  BY <1>1, SevenCalls DEF Follows, Byte
<1>3. Ref!Called(l, 7) = m
  BY <1>1, <1>2
<1>4. \A j \in 0..6 : 0 \in Ref!Called(l, j) <=> Bits[j + 1] \in c
  BY <1>1, SevenCalls DEF Follows, Bits
<1>5. \A j \in 0..6 : 2^j \in Int
  OBVIOUS
<1>6. Ref!RoundConstant(l) = {Bits[j + 1] : j \in {h \in 0..6 : Bits[h + 1] \in c}}
  BY <1>4, <1>5, Powers DEF Ref!RoundConstant
<1>7. \A x \in c : \E j \in 0..6 : x = Bits[j + 1]
  BY <1>1 DEF Bits
<1> QED
  BY <1>3, <1>6, <1>7

\* The table of the kernel holds what the register computes.
LEMMA RoundConstants ==
    \A i \in 0..23 :
        /\ Ref!RoundConstant(Register[i + 1]) = keccak_round_constants[i + 1]
        /\ Ref!Called(Register[i + 1], 7) = Register[i + 2]
<1> DEFINE Entry(i) == Follows(Register[i], keccak_round_constants[i], Register[i + 1])
<1>1. Entry(1)
  <2>1. Follows({0}, {0}, {7})
    BY DEF Follows, Byte
  <2> QED
    BY <2>1 DEF Register, keccak_round_constants
<1>2. Entry(2)
  <2>1. Follows({7}, {1, 7, 15}, {3, 4, 6, 7})
    BY DEF Follows, Byte
  <2> QED
    BY <2>1 DEF Register, keccak_round_constants
<1>3. Entry(3)
  <2>1. Follows({3, 4, 6, 7}, {1, 3, 7, 15, 63}, {1, 3, 4})
    BY DEF Follows, Byte
  <2> QED
    BY <2>1 DEF Register, keccak_round_constants
<1>4. Entry(4)
  <2>1. Follows({1, 3, 4}, {15, 31, 63}, {0, 1, 2, 3, 4, 6, 7})
    BY DEF Follows, Byte
  <2> QED
    BY <2>1 DEF Register, keccak_round_constants
<1>5. Entry(5)
  <2>1. Follows({0, 1, 2, 3, 4, 6, 7}, {0, 1, 3, 7, 15}, {0, 3})
    BY DEF Follows, Byte
  <2> QED
    BY <2>1 DEF Register, keccak_round_constants
<1>6. Entry(6)
  <2>1. Follows({0, 3}, {0, 31}, {0, 2, 4, 5})
    BY DEF Follows, Byte
  <2> QED
    BY <2>1 DEF Register, keccak_round_constants
<1>7. Entry(7)
  <2>1. Follows({0, 2, 4, 5}, {0, 7, 15, 31, 63}, {0, 1, 2, 3, 6})
    BY DEF Follows, Byte
  <2> QED
    BY <2>1 DEF Register, keccak_round_constants
<1>8. Entry(8)
  <2>1. Follows({0, 1, 2, 3, 6}, {0, 3, 15, 63}, {1, 3, 6, 7})
    BY DEF Follows, Byte
  <2> QED
    BY <2>1 DEF Register, keccak_round_constants
<1>9. Entry(9)
  <2>1. Follows({1, 3, 6, 7}, {1, 3, 7}, {4, 5, 6})
    BY DEF Follows, Byte
  <2> QED
    BY <2>1 DEF Register, keccak_round_constants
<1>10. Entry(10)
  <2>1. Follows({4, 5, 6}, {3, 7}, {0, 6})
    BY DEF Follows, Byte
  <2> QED
    BY <2>1 DEF Register, keccak_round_constants
<1>11. Entry(11)
  <2>1. Follows({0, 6}, {0, 3, 15, 31}, {2, 3, 5, 6, 7})
    BY DEF Follows, Byte
  <2> QED
    BY <2>1 DEF Register, keccak_round_constants
<1>12. Entry(12)
  <2>1. Follows({2, 3, 5, 6, 7}, {1, 3, 31}, {0, 2, 4, 6, 7})
    BY DEF Follows, Byte
  <2> QED
    BY <2>1 DEF Register, keccak_round_constants
<1>13. Entry(13)
  <2>1. Follows({0, 2, 4, 6, 7}, {0, 1, 3, 7, 15, 31}, {0, 2, 3, 6, 7})
    BY DEF Follows, Byte
  <2> QED
    BY <2>1 DEF Register, keccak_round_constants
<1>14. Entry(14)
  <2>1. Follows({0, 2, 3, 6, 7}, {0, 1, 3, 7, 63}, {0, 1, 5, 6})
    BY DEF Follows, Byte
  <2> QED
    BY <2>1 DEF Register, keccak_round_constants
<1>15. Entry(15)
  <2>1. Follows({0, 1, 5, 6}, {0, 3, 7, 15, 63}, {0, 1, 3, 5, 7})
    BY DEF Follows, Byte
  <2> QED
    BY <2>1 DEF Register, keccak_round_constants
<1>16. Entry(16)
  <2>1. Follows({0, 1, 3, 5, 7}, {0, 1, 15, 63}, {1, 3, 5, 7})
    BY DEF Follows, Byte
  <2> QED
    BY <2>1 DEF Register, keccak_round_constants
<1>17. Entry(17)
  <2>1. Follows({1, 3, 5, 7}, {1, 15, 63}, {1, 3, 5})
    BY DEF Follows, Byte
  <2> QED
    BY <2>1 DEF Register, keccak_round_constants
<1>18. Entry(18)
  <2>1. Follows({1, 3, 5}, {7, 63}, {1, 4, 5, 6, 7})
    BY DEF Follows, Byte
  <2> QED
    BY <2>1 DEF Register, keccak_round_constants
<1>19. Entry(19)
  <2>1. Follows({1, 4, 5, 6, 7}, {1, 3, 15}, {3, 5, 6, 7})
    BY DEF Follows, Byte
  <2> QED
    BY <2>1 DEF Register, keccak_round_constants
<1>20. Entry(20)
  <2>1. Follows({3, 5, 6, 7}, {1, 3, 31, 63}, {0, 1, 2, 4, 5})
    BY DEF Follows, Byte
  <2> QED
    BY <2>1 DEF Register, keccak_round_constants
<1>21. Entry(21)
  <2>1. Follows({0, 1, 2, 4, 5}, {0, 7, 15, 31, 63}, {1, 2, 3, 4, 5})
    BY DEF Follows, Byte
  <2> QED
    BY <2>1 DEF Register, keccak_round_constants
<1>22. Entry(22)
  <2>1. Follows({1, 2, 3, 4, 5}, {7, 15, 63}, {0, 1, 3})
    BY DEF Follows, Byte
  <2> QED
    BY <2>1 DEF Register, keccak_round_constants
<1>23. Entry(23)
  <2>1. Follows({0, 1, 3}, {0, 31}, {2, 6})
    BY DEF Follows, Byte
  <2> QED
    BY <2>1 DEF Register, keccak_round_constants
<1>24. Entry(24)
  <2>1. Follows({2, 6}, {3, 15, 31, 63}, {1, 2, 3, 7})
    BY DEF Follows, Byte
  <2> QED
    BY <2>1 DEF Register, keccak_round_constants
<1>25. \A i \in 1..24 : Entry(i)
  BY <1>1, <1>2, <1>3, <1>4, <1>5, <1>6, <1>7, <1>8, <1>9, <1>10,
     <1>11, <1>12, <1>13, <1>14, <1>15, <1>16, <1>17, <1>18, <1>19, <1>20,
     <1>21, <1>22, <1>23, <1>24
<1> QED
  BY <1>25, FollowsIsComputed

-----------------------------------------------------------------------------
\* The offsets of rho, table against walk.
Path == <<
    <<1, 0>>, <<0, 2>>, <<2, 1>>, <<1, 2>>, <<2, 3>>, <<3, 3>>,
    <<3, 0>>, <<0, 1>>, <<1, 3>>, <<3, 1>>, <<1, 4>>, <<4, 4>>,
    <<4, 0>>, <<0, 3>>, <<3, 4>>, <<4, 3>>, <<3, 2>>, <<2, 2>>,
    <<2, 0>>, <<0, 4>>, <<4, 2>>, <<2, 4>>, <<4, 1>>, <<1, 1>>>>
Visited == <<
    1, 10, 7, 11, 17, 18, 3, 5, 16, 8, 21, 24,
    4, 15, 23, 19, 13, 12, 2, 20, 14, 22, 9, 6>>

\* The walk over the lanes, step by step.
LEMMA WalkIsPath == \A t \in 0..23 : Ref!Walk[t] = Path[t + 1]
<1> DEFINE Rec(g) == g = [t \in 0..23 |-> IF t = 0 THEN <<1, 0>> ELSE Ref!Onward(g[t - 1])]
           f == [t \in 0..23 |-> Path[t + 1]]
<1>1. Ref!Onward(Path[1]) = Path[2]  BY DEF Ref!Onward, Path
<1>2. Ref!Onward(Path[2]) = Path[3]  BY DEF Ref!Onward, Path
<1>3. Ref!Onward(Path[3]) = Path[4]  BY DEF Ref!Onward, Path
<1>4. Ref!Onward(Path[4]) = Path[5]  BY DEF Ref!Onward, Path
<1>5. Ref!Onward(Path[5]) = Path[6]  BY DEF Ref!Onward, Path
<1>6. Ref!Onward(Path[6]) = Path[7]  BY DEF Ref!Onward, Path
<1>7. Ref!Onward(Path[7]) = Path[8]  BY DEF Ref!Onward, Path
<1>8. Ref!Onward(Path[8]) = Path[9]  BY DEF Ref!Onward, Path
<1>9. Ref!Onward(Path[9]) = Path[10]  BY DEF Ref!Onward, Path
<1>10. Ref!Onward(Path[10]) = Path[11]  BY DEF Ref!Onward, Path
<1>11. Ref!Onward(Path[11]) = Path[12]  BY DEF Ref!Onward, Path
<1>12. Ref!Onward(Path[12]) = Path[13]  BY DEF Ref!Onward, Path
<1>13. Ref!Onward(Path[13]) = Path[14]  BY DEF Ref!Onward, Path
<1>14. Ref!Onward(Path[14]) = Path[15]  BY DEF Ref!Onward, Path
<1>15. Ref!Onward(Path[15]) = Path[16]  BY DEF Ref!Onward, Path
<1>16. Ref!Onward(Path[16]) = Path[17]  BY DEF Ref!Onward, Path
<1>17. Ref!Onward(Path[17]) = Path[18]  BY DEF Ref!Onward, Path
<1>18. Ref!Onward(Path[18]) = Path[19]  BY DEF Ref!Onward, Path
<1>19. Ref!Onward(Path[19]) = Path[20]  BY DEF Ref!Onward, Path
<1>20. Ref!Onward(Path[20]) = Path[21]  BY DEF Ref!Onward, Path
<1>21. Ref!Onward(Path[21]) = Path[22]  BY DEF Ref!Onward, Path
<1>22. Ref!Onward(Path[22]) = Path[23]  BY DEF Ref!Onward, Path
<1>23. Ref!Onward(Path[23]) = Path[24]  BY DEF Ref!Onward, Path
<1>24. \A t \in 1..23 : Ref!Onward(Path[t]) = Path[t + 1]
  BY <1>1, <1>2, <1>3, <1>4, <1>5, <1>6, <1>7, <1>8, <1>9, <1>10, <1>11, <1>12,
     <1>13, <1>14, <1>15, <1>16, <1>17, <1>18, <1>19, <1>20, <1>21, <1>22, <1>23
<1>25. Path[1] = <<1, 0>>
  BY DEF Path
<1>26. Rec(f)
  BY <1>24, <1>25
<1>27. Rec(Ref!Walk)
  <2>1. Ref!Walk = CHOOSE g : Rec(g)
    BY DEF Ref!Walk
  <2> QED
    BY <1>26, <2>1, Zenon
<1> HIDE DEF Rec
<1> DEFINE Wrong == {t \in 0..23 : Ref!Walk[t] # Path[t + 1]}
<1>28. ASSUME NEW t \in Wrong, \A u \in Wrong : ~ u < t
       PROVE  FALSE
  <2>1. Ref!Walk[t] = (IF t = 0 THEN <<1, 0>> ELSE Ref!Onward(Ref!Walk[t - 1]))
    BY <1>27 DEF Rec
  <2>2. CASE t = 0
    BY <1>25, <2>1, <2>2
  <2>3. CASE t # 0
    <3>1. t - 1 \in 0..23 /\ t - 1 \notin Wrong
      BY <1>28, <2>3
    <3> QED
      BY <1>24, <2>1, <2>3, <3>1
  <2> QED
    BY <2>2, <2>3
<1>29. Wrong = {}
  <2>1. Wrong \in SUBSET Nat
    OBVIOUS
  <2> HIDE DEF Wrong
  <2> QED
    BY <1>28, <2>1, LeastOf
<1> QED
  BY <1>29

\* The walk comes to every lane but the first, and what it computes there is what
\* the kernel's table holds.
LEMMA VisitedLanes ==
    \A t \in 0..23, i \in Lane : Ref!Visits(t, i) <=> Visited[t + 1] = i
<1> DEFINE Place(t) == Ref!index(Path[t][1], Path[t][2]) = Visited[t]
<1> USE DEF Path, Visited, Ref!index
<1>1. Place(1)  OBVIOUS
<1>2. Place(2)  OBVIOUS
<1>3. Place(3)  OBVIOUS
<1>4. Place(4)  OBVIOUS
<1>5. Place(5)  OBVIOUS
<1>6. Place(6)  OBVIOUS
<1>7. Place(7)  OBVIOUS
<1>8. Place(8)  OBVIOUS
<1>9. Place(9)  OBVIOUS
<1>10. Place(10)  OBVIOUS
<1>11. Place(11)  OBVIOUS
<1>12. Place(12)  OBVIOUS
<1>13. Place(13)  OBVIOUS
<1>14. Place(14)  OBVIOUS
<1>15. Place(15)  OBVIOUS
<1>16. Place(16)  OBVIOUS
<1>17. Place(17)  OBVIOUS
<1>18. Place(18)  OBVIOUS
<1>19. Place(19)  OBVIOUS
<1>20. Place(20)  OBVIOUS
<1>21. Place(21)  OBVIOUS
<1>22. Place(22)  OBVIOUS
<1>23. Place(23)  OBVIOUS
<1>24. Place(24)  OBVIOUS
<1> HIDE DEF Path, Visited, Ref!index
<1>25. \A t \in 1..24 : Place(t)
  BY <1>1, <1>2, <1>3, <1>4, <1>5, <1>6, <1>7, <1>8, <1>9, <1>10, <1>11, <1>12,
     <1>13, <1>14, <1>15, <1>16, <1>17, <1>18, <1>19, <1>20, <1>21, <1>22, <1>23, <1>24
<1> QED
  BY <1>25, WalkIsPath DEF Ref!Visits

\* The walk comes to every lane but the first.
LEMMA EveryLaneVisited == \A i \in Lane \ {0} : \E t \in 0..23 : Visited[t + 1] = i
<1> TAKE i \in Lane \ {0}
<1> USE DEF Visited
<1>1. CASE i = 1
  <2> WITNESS 0 \in 0..23
  <2> QED  BY <1>1
<1>2. CASE i = 2
  <2> WITNESS 18 \in 0..23
  <2> QED  BY <1>2
<1>3. CASE i = 3
  <2> WITNESS 6 \in 0..23
  <2> QED  BY <1>3
<1>4. CASE i = 4
  <2> WITNESS 12 \in 0..23
  <2> QED  BY <1>4
<1>5. CASE i = 5
  <2> WITNESS 7 \in 0..23
  <2> QED  BY <1>5
<1>6. CASE i = 6
  <2> WITNESS 23 \in 0..23
  <2> QED  BY <1>6
<1>7. CASE i = 7
  <2> WITNESS 2 \in 0..23
  <2> QED  BY <1>7
<1>8. CASE i = 8
  <2> WITNESS 9 \in 0..23
  <2> QED  BY <1>8
<1>9. CASE i = 9
  <2> WITNESS 22 \in 0..23
  <2> QED  BY <1>9
<1>10. CASE i = 10
  <2> WITNESS 1 \in 0..23
  <2> QED  BY <1>10
<1>11. CASE i = 11
  <2> WITNESS 3 \in 0..23
  <2> QED  BY <1>11
<1>12. CASE i = 12
  <2> WITNESS 17 \in 0..23
  <2> QED  BY <1>12
<1>13. CASE i = 13
  <2> WITNESS 16 \in 0..23
  <2> QED  BY <1>13
<1>14. CASE i = 14
  <2> WITNESS 20 \in 0..23
  <2> QED  BY <1>14
<1>15. CASE i = 15
  <2> WITNESS 13 \in 0..23
  <2> QED  BY <1>15
<1>16. CASE i = 16
  <2> WITNESS 8 \in 0..23
  <2> QED  BY <1>16
<1>17. CASE i = 17
  <2> WITNESS 4 \in 0..23
  <2> QED  BY <1>17
<1>18. CASE i = 18
  <2> WITNESS 5 \in 0..23
  <2> QED  BY <1>18
<1>19. CASE i = 19
  <2> WITNESS 15 \in 0..23
  <2> QED  BY <1>19
<1>20. CASE i = 20
  <2> WITNESS 19 \in 0..23
  <2> QED  BY <1>20
<1>21. CASE i = 21
  <2> WITNESS 10 \in 0..23
  <2> QED  BY <1>21
<1>22. CASE i = 22
  <2> WITNESS 21 \in 0..23
  <2> QED  BY <1>22
<1>23. CASE i = 23
  <2> WITNESS 14 \in 0..23
  <2> QED  BY <1>23
<1>24. CASE i = 24
  <2> WITNESS 11 \in 0..23
  <2> QED  BY <1>24
<1> HIDE DEF Visited
<1> QED
  BY <1>1, <1>2, <1>3, <1>4, <1>5, <1>6, <1>7, <1>8, <1>9, <1>10, <1>11, <1>12,
     <1>13, <1>14, <1>15, <1>16, <1>17, <1>18, <1>19, <1>20, <1>21, <1>22, <1>23, <1>24 DEF Lane

\* The offset of step t is the kernel's offset of the lane the walk is at.
LEMMA VisitedOffsets ==
    \A t \in 0..23 :
        (((t + 1) * (t + 2)) \div 2) % 64 = keccak_rho_offsets[Visited[t + 1] + 1]
<1> DEFINE Entry(t) == ((t * (t + 1)) \div 2) % 64 = keccak_rho_offsets[Visited[t] + 1]
<1> USE DEF Visited, keccak_rho_offsets
<1>1. Entry(1)  OBVIOUS
<1>2. Entry(2)  OBVIOUS
<1>3. Entry(3)  OBVIOUS
<1>4. Entry(4)  OBVIOUS
<1>5. Entry(5)  OBVIOUS
<1>6. Entry(6)  OBVIOUS
<1>7. Entry(7)  OBVIOUS
<1>8. Entry(8)  OBVIOUS
<1>9. Entry(9)  OBVIOUS
<1>10. Entry(10)  OBVIOUS
<1>11. Entry(11)  OBVIOUS
<1>12. Entry(12)  OBVIOUS
<1>13. Entry(13)  OBVIOUS
<1>14. Entry(14)  OBVIOUS
<1>15. Entry(15)  OBVIOUS
<1>16. Entry(16)  OBVIOUS
<1>17. Entry(17)  OBVIOUS
<1>18. Entry(18)  OBVIOUS
<1>19. Entry(19)  OBVIOUS
<1>20. Entry(20)  OBVIOUS
<1>21. Entry(21)  OBVIOUS
<1>22. Entry(22)  OBVIOUS
<1>23. Entry(23)  OBVIOUS
<1>24. Entry(24)  OBVIOUS
<1> HIDE DEF Visited, keccak_rho_offsets
<1>25. \A t \in 1..24 : Entry(t)
  BY <1>1, <1>2, <1>3, <1>4, <1>5, <1>6, <1>7, <1>8, <1>9, <1>10, <1>11, <1>12,
     <1>13, <1>14, <1>15, <1>16, <1>17, <1>18, <1>19, <1>20, <1>21, <1>22, <1>23, <1>24
<1> QED
  BY <1>25

\* The offsets the reference computes on its walk are those of the kernel.
LEMMA RhoOffsets ==
    \A i \in Lane : Ref!KeccakRhoOffsets[i] = keccak_rho_offsets[i + 1]
<1> TAKE i \in Lane
<1>1. CASE i = 0
  BY <1>1 DEF Ref!KeccakRhoOffsets, Ref!nrLanes, keccak_rho_offsets
<1>2. CASE i # 0
  <2> DEFINE t == CHOOSE k \in 0..23 : Ref!Visits(k, i)
  <2>1. t \in 0..23 /\ Visited[t + 1] = i
    BY <1>2, EveryLaneVisited, VisitedLanes
  <2>2. Ref!KeccakRhoOffsets[i] = (((t + 1) * (t + 2)) \div 2) % 64
    BY <1>2 DEF Ref!KeccakRhoOffsets, Ref!nrLanes, Lane
  <2> QED
    BY <2>1, <2>2, VisitedOffsets
<1> QED
  BY <1>1, <1>2

\* The offsets of the kernel are rotations of a lane.
LEMMA OffsetRange == \A i \in Lane : keccak_rho_offsets[i + 1] \in 0..63
BY DEF Lane, keccak_rho_offsets

-----------------------------------------------------------------------------
\* The steps of a round, on lanes, and the conversions between lanes and bytes.
LaneState == [Lane -> SUBSET Word]
ByteState == [0..199 -> SUBSET Byte]

\* The sum of two lanes is a lane.
LEMMA XorRange ==
    ASSUME NEW a \in SUBSET Word, NEW b \in SUBSET Word
    PROVE  Xor(a, b) \in SUBSET Word
BY DEF Xor

\* A rotation adds the two shifted parts; a bit is in one of them at most.
LEMMA Rotation ==
    ASSUME NEW a \in SUBSET Word, NEW n \in 0..63
    PROVE  rol64(a, n) \in SUBSET Word /\ Ref!ROL64(a, n) = rol64(a, n)
<1>1. n % 64 = n
  OBVIOUS
<1>2. CASE n = 0
  BY <1>1, <1>2 DEF rol64, Ref!ROL64
<1>3. CASE n # 0
  <2>1. Shl(a, n) \subseteq n..63 /\ Shr(a, 64 - n) \subseteq 0..(n - 1)
    BY <1>3 DEF Shl, Shr, Word
  <2>2. rol64(a, n) = Shl(a, n) \cup Shr(a, 64 - n)
    BY <1>1, <1>3 DEF rol64
  <2>3. Ref!ROL64(a, n) = Xor(Shl(a, n), Shr(a, 64 - n))
    BY <1>3, SameLanes DEF Ref!ROL64
  <2>4. Shl(a, n) \cap Shr(a, 64 - n) = {}
    BY <2>1
  <2> QED
    BY <2>1, <2>2, <2>3, <2>4 DEF Xor, Word
<1> QED
  BY <1>2, <1>3

\* Coordinates and indexes of lanes, the same in both programs.
LEMMA Coordinates ==
    /\ \A i \in Lane : X(i) \in 0..4 /\ Y(i) \in 0..4
    /\ \A x, y \in Int : At(x, y) \in Lane /\ Ref!index(x, y) = At(x, y)
BY DEF Lane, X, Y, At, Ref!index

\* Theta: every lane gets the parity of two columns.
LEMMA Theta ==
    ASSUME NEW s \in LaneState
    PROVE  keccak_theta(s) \in LaneState /\ Ref!theta(s) = keccak_theta(s)
<1> DEFINE c == [x \in 0..4 |-> Parity(s, x)]
           d == [x \in 0..4 |-> Xor(rol64(c[(x + 1) % 5], 1), c[(x + 4) % 5])]
<1>1. \A x \in 0..4 : (x + 1) % 5 \in 0..4 /\ (x + 4) % 5 \in 0..4
  OBVIOUS
<1>2. \A x \in 0..4 : c[x] \in SUBSET Word
  <2> SUFFICES ASSUME NEW x \in 0..4 PROVE Parity(s, x) \in SUBSET Word
    OBVIOUS
  <2>1. /\ s[x] \in SUBSET Word /\ s[x + 5] \in SUBSET Word /\ s[x + 10] \in SUBSET Word
        /\ s[x + 15] \in SUBSET Word /\ s[x + 20] \in SUBSET Word
    BY DEF LaneState, Lane
  <2> QED
    BY <2>1, XorRange DEF Parity
<1> HIDE DEF c
<1>3. \A x \in 0..4 : /\ d[x] \in SUBSET Word
                     /\ d[x] = Ref!Xor(Ref!ROL64(c[(x + 1) % 5], 1), c[(x + 4) % 5])
  <2> TAKE x \in 0..4
  <2>1. c[(x + 1) % 5] \in SUBSET Word /\ c[(x + 4) % 5] \in SUBSET Word
    BY <1>1, <1>2
  <2>2. /\ rol64(c[(x + 1) % 5], 1) \in SUBSET Word
        /\ Ref!ROL64(c[(x + 1) % 5], 1) = rol64(c[(x + 1) % 5], 1)
    BY <2>1, Rotation
  <2>3. d[x] = Xor(rol64(c[(x + 1) % 5], 1), c[(x + 4) % 5])
    OBVIOUS
  <2>4. Xor(rol64(c[(x + 1) % 5], 1), c[(x + 4) % 5]) \in SUBSET Word
    BY <2>1, <2>2, XorRange
  <2> HIDE DEF d
  <2> QED
    BY <2>2, <2>3, <2>4, SameLanes
<1>4. keccak_theta(s) = [i \in Lane |-> Xor(s[i], d[X(i)])]
  BY DEF keccak_theta, c
<1>5. Ref!theta(s) = [i \in Lane |-> Xor(s[i], d[i % 5])]
  <2>1. DOMAIN s = Lane /\ \A i \in Lane : i % 5 \in 0..4
    BY DEF LaneState, Lane
  <2>2. c = [x \in 0..4 |-> Ref!Parity(s, x)]
    BY SameLanes DEF c
  <2>3. d = [x \in 0..4 |-> Ref!Xor(Ref!ROL64(c[(x + 1) % 5], 1), c[(x + 4) % 5])]
    BY <1>3
  <2> HIDE DEF d
  <2>4. Ref!theta(s) = [i \in DOMAIN s |-> Ref!Xor(s[i], d[i % 5])]
    BY <2>2, <2>3 DEF Ref!theta
  <2> QED
    BY <2>1, <2>4, SameLanes
<1> HIDE DEF d
<1>6. \A i \in Lane : Xor(s[i], d[X(i)]) \in SUBSET Word
  BY <1>3, Coordinates, XorRange DEF LaneState
<1> QED
  BY <1>4, <1>5, <1>6 DEF LaneState, X

\* Rho: every lane is rotated by its offset.
LEMMA Rho ==
    ASSUME NEW s \in LaneState
    PROVE  keccak_rho(s) \in LaneState /\ Ref!rho(s) = keccak_rho(s)
<1>1. \A i \in Lane : /\ rol64(s[i], keccak_rho_offsets[i + 1]) \in SUBSET Word
                     /\ Ref!ROL64(s[i], Ref!KeccakRhoOffsets[i])
                            = rol64(s[i], keccak_rho_offsets[i + 1])
  BY OffsetRange, RhoOffsets, Rotation DEF LaneState
<1>2. DOMAIN s = Lane
  BY DEF LaneState
<1> QED
  BY <1>1, <1>2 DEF LaneState, keccak_rho, Ref!rho

\* Both choose the lane that moves to lane i, and there is exactly one.
LEMMA Origin ==
    ASSUME NEW i \in Lane
    PROVE  LET x == (3 * Y(i) + X(i)) % 5
               y == X(i)
           IN  /\ x \in 0..4 /\ y \in 0..4
               /\ At(y, 2 * x + 3 * y) = i
               /\ \A u, v \in 0..4 : At(v, 2 * u + 3 * v) = i => u = x /\ v = y
BY DEF Lane, X, Y, At

\* Pi: every lane moves; the two programs choose where from.
LEMMA Pi ==
    ASSUME NEW s \in LaneState
    PROVE  keccak_pi(s) \in LaneState /\ Ref!pi(s) = keccak_pi(s)
<1> DEFINE from(i) == CHOOSE p \in (0..4) \X (0..4) : Ref!index(p[2], 2 * p[1] + 3 * p[2]) = i
           source(i) == CHOOSE j \in Lane : At(Y(j), 2 * X(j) + 3 * Y(j)) = i
<1>1. ASSUME NEW i \in Lane
      PROVE  source(i) \in Lane /\ Ref!index(from(i)[1], from(i)[2]) = source(i)
  <2> DEFINE x == (3 * Y(i) + X(i)) % 5
             y == X(i)
  <2>1. /\ x \in 0..4 /\ y \in 0..4 /\ At(y, 2 * x + 3 * y) = i
        /\ \A u, v \in 0..4 : At(v, 2 * u + 3 * v) = i => u = x /\ v = y
    BY Origin
  <2> HIDE DEF x, y
  <2>2. from(i) = <<x, y>>
    <3>1. \A p \in (0..4) \X (0..4) :
              Ref!index(p[2], 2 * p[1] + 3 * p[2]) = i <=> p = <<x, y>>
      BY <2>1, Coordinates
    <3>2. <<x, y>> \in (0..4) \X (0..4)
      BY <2>1
    <3> QED
      BY <3>1, <3>2
  <2>3. source(i) = At(x, y)
    <3>1. X(At(x, y)) = x /\ Y(At(x, y)) = y /\ At(x, y) \in Lane
      BY <2>1 DEF X, Y, At, Lane
    <3>2. \A j \in Lane : j = At(X(j), Y(j))
      BY DEF X, Y, At, Lane
    <3>3. \A j \in Lane : At(Y(j), 2 * X(j) + 3 * Y(j)) = i <=> j = At(x, y)
      BY <2>1, <3>1, <3>2, Coordinates
    <3> QED
      BY <3>1, <3>3
  <2> HIDE DEF from, source
  <2> QED
    BY <2>1, <2>2, <2>3, Coordinates
<1>2. keccak_pi(s) = [i \in Lane |-> s[source(i)]]
  BY DEF keccak_pi
<1>3. Ref!pi(s) = [i \in DOMAIN s |-> s[Ref!index(from(i)[1], from(i)[2])]]
  BY DEF Ref!pi
<1>4. DOMAIN s = Lane
  BY DEF LaneState
<1> HIDE DEF from, source
<1> QED
  BY <1>1, <1>2, <1>3, <1>4 DEF LaneState

\* Chi: every lane gets a bit of the next two in its row.
LEMMA Chi ==
    ASSUME NEW s \in LaneState
    PROVE  keccak_chi(s) \in LaneState /\ Ref!chi(s) = keccak_chi(s)
<1> DEFINE one(i) == s[At(X(i) + 1, Y(i))]
           two(i) == s[At(X(i) + 2, Y(i))]
<1>1. ASSUME NEW i \in Lane
      PROVE  /\ one(i) \in SUBSET Word /\ two(i) \in SUBSET Word /\ s[i] \in SUBSET Word
             /\ one(i) = s[Ref!index(i + 1, i \div 5)]
             /\ two(i) = s[Ref!index(i + 2, i \div 5)]
  <2>1. /\ At(X(i) + 1, Y(i)) = Ref!index(i + 1, i \div 5)
        /\ At(X(i) + 2, Y(i)) = Ref!index(i + 2, i \div 5)
    BY DEF Lane, At, X, Y, Ref!index
  <2>2. At(X(i) + 1, Y(i)) \in Lane /\ At(X(i) + 2, Y(i)) \in Lane
    BY Coordinates DEF X, Y, Lane
  <2> QED
    BY <2>1, <2>2 DEF LaneState
<1>2. keccak_chi(s) = [i \in Lane |-> Xor(s[i], two(i) \ one(i))]
  BY DEF keccak_chi
<1>3. Ref!chi(s) = [i \in DOMAIN s |->
                      Ref!Xor(s[i], (Ref!Word \ s[Ref!index(i + 1, i \div 5)])
                                      \cap s[Ref!index(i + 2, i \div 5)])]
  BY DEF Ref!chi
<1>4. DOMAIN s = Lane
  BY DEF LaneState
<1> HIDE DEF one, two
<1>5. ASSUME NEW i \in Lane
      PROVE  /\ Xor(s[i], two(i) \ one(i)) \in SUBSET Word
             /\ two(i) \ one(i) = (Word \ one(i)) \cap two(i)
  BY <1>1, XorRange
<1>6. ASSUME NEW i \in Lane
      PROVE  Ref!Xor(s[i], (Ref!Word \ s[Ref!index(i + 1, i \div 5)])
                             \cap s[Ref!index(i + 2, i \div 5)])
                = Xor(s[i], two(i) \ one(i))
  BY <1>1, <1>5, SameLanes
<1>7. Ref!chi(s) = [i \in Lane |-> Xor(s[i], two(i) \ one(i))]
  BY <1>3, <1>4, <1>6
<1> QED
  BY <1>2, <1>5, <1>7 DEF LaneState

\* The round constants are lanes.
LEMMA RoundConstantRange == \A i \in 0..23 : keccak_round_constants[i + 1] \in SUBSET Word
BY DEF keccak_round_constants, Word

\* Iota: the first lane gets the constant of the round, which both tables must hold.
LEMMA IotaStep ==
    ASSUME NEW s \in LaneState, NEW constants, NEW i \in 0..23,
           constants[i] = keccak_round_constants[i + 1]
    PROVE  /\ keccak_iota(s, i) \in LaneState
           /\ Ref!iota(s, constants, i) = keccak_iota(s, i)
<1>1. 0 \in Lane /\ s[0] \in SUBSET Word
  BY DEF LaneState, Lane
<1>2. Xor(s[0], keccak_round_constants[i + 1]) \in SUBSET Word
  BY <1>1, RoundConstantRange, XorRange
<1> QED
  BY <1>1, <1>2, SameLanes DEF LaneState, keccak_iota, Ref!iota

\* What a big-endian machine puts together from the bytes is what a little-endian one
\* has in memory, and the other way round.
LEMMA BytesToWords ==
    ASSUME NEW s \in ByteState
    PROVE  /\ keccak_bytes_to_words(s) \in LaneState
           /\ Ref!Words(s) = keccak_bytes_to_words(s)
<1> DEFINE lane(i) == UNION {Shl(s[i * 8 + j], 8 * j) : j \in 0..7}
<1>1. ASSUME NEW i \in Lane
      PROVE  /\ lane(i) \in SUBSET Word
             /\ lane(i) = UNION {{8 * j + k : k \in s[8 * i + j]} : j \in 0..7}
  <2>1. ASSUME NEW j \in 0..7
        PROVE  /\ Shl(s[i * 8 + j], 8 * j) = {8 * j + k : k \in s[8 * i + j]}
               /\ Shl(s[i * 8 + j], 8 * j) \in SUBSET Word
    <3>1. i * 8 + j = 8 * i + j /\ s[8 * i + j] \in SUBSET Byte
      BY DEF Lane, ByteState
    <3> QED
      BY <3>1 DEF Shl, Byte, Word
  <2> QED
    BY <2>1
<1> HIDE DEF lane
<1>2. keccak_bytes_to_words(s) = [i \in Lane |-> lane(i)]
  BY DEF keccak_bytes_to_words, lane
<1>3. Ref!Words(s) = [i \in Lane |->
                        UNION {{8 * j + k : k \in s[8 * i + j]} : j \in 0..7}]
  BY DEF Ref!Words, Ref!nrLanes, Lane
<1> QED
  BY <1>1, <1>2, <1>3 DEF LaneState

\* The bytes that are taken from the lanes are those that lie in memory.
LEMMA WordsToBytes ==
    ASSUME NEW s \in LaneState
    PROVE  /\ keccak_words_to_bytes(s) \in ByteState
           /\ Ref!Bytes(s) = keccak_words_to_bytes(s)
<1>1. ASSUME NEW b \in 0..199
      PROVE  Shr(s[b \div 8], 8 * (b % 8)) \cap Byte
                = {k \in Byte : 8 * (b % 8) + k \in s[b \div 8]}
  <2>1. b \div 8 \in Lane /\ b % 8 \in 0..7
    BY DEF Lane
  <2>2. s[b \div 8] \in SUBSET Word
    BY <2>1 DEF LaneState
  <2> QED
    BY <2>1, <2>2 DEF Shr, Byte, Word
<1>2. keccak_words_to_bytes(s) = [b \in 0..199 |-> Shr(s[b \div 8], 8 * (b % 8)) \cap Byte]
  BY DEF keccak_words_to_bytes, KECCAK_STATE_SIZE
<1>3. Ref!Bytes(s) = [b \in 0..199 |-> {k \in Byte : 8 * (b % 8) + k \in s[b \div 8]}]
  BY SameLanes DEF Ref!Bytes
<1>4. \A b \in 0..199 : Shr(s[b \div 8], 8 * (b % 8)) \cap Byte \in SUBSET Byte
  OBVIOUS
<1>5. Ref!Bytes(s) = keccak_words_to_bytes(s)
  BY <1>1, <1>2, <1>3
<1> QED
  BY <1>2, <1>4, <1>5 DEF ByteState

\* A block is added to the first 64 bytes of the state, and to no others.
LEMMA Absorbing ==
    ASSUME NEW s \in ByteState, NEW data \in [0..63 -> SUBSET Byte]
    PROVE  /\ absorbed(s, data, BlockLanes) \in ByteState
           /\ Ref!AfterXor(s, data, 8 * BlockLanes) = absorbed(s, data, BlockLanes)
<1>1. DOMAIN s = 0..199
  BY DEF ByteState
<1>2. ASSUME NEW b \in 0..199, b < 64
      PROVE  Xor(s[b], data[b]) \in SUBSET Byte
  BY <1>2 DEF ByteState, Xor
<1> QED
  BY <1>1, <1>2, SameLanes DEF ByteState, BlockLanes, absorbed, Ref!AfterXor

\* The bytes that are handed out are the first ones of the state.
LEMMA Extracting ==
    ASSUME NEW s \in ByteState, NEW lanes \in 0..25
    PROVE  Ref!KeccakExtract(s, lanes) = infnoise_keccak_extract(s, lanes)
<1>1. {k \in DOMAIN s : k < lanes * 8} = 0..(lanes * 8 - 1)
  BY DEF ByteState
<1> QED
  BY <1>1 DEF Ref!KeccakExtract, infnoise_keccak_extract

-----------------------------------------------------------------------------
\* The inductive invariant: the states are states, and the table of the userspace
\* program holds the constants of the kernel's, all of them once it is initialized.
TypeOK ==
    /\ kernel \in ByteState /\ words \in LaneState
    /\ pc \in {"init", "idle", "extracted", "theta", "rho", "pi", "chi", "iota"}
    /\ round \in 0..23

TableOK ==
    /\ DOMAIN KeccakRoundConstants = 0..23
    /\ pc = "init" =>
           /\ LFSRstate = Register[round + 1]
           /\ \A i \in 0..(round - 1) : KeccakRoundConstants[i] = keccak_round_constants[i + 1]
    /\ pc # "init" =>
           \A i \in 0..23 : KeccakRoundConstants[i] = keccak_round_constants[i + 1]

Inv == TypeOK /\ TableOK /\ SameSponge

\* Both sponges start empty.
LEMMA InitInv == Init => Inv
<1> SUFFICES ASSUME Init PROVE Inv
  OBVIOUS
<1>1. kernel \in ByteState /\ user = kernel
  <2>1. infnoise_keccak_init = [b \in 0..199 |-> {}]
    BY DEF infnoise_keccak_init, KECCAK_STATE_SIZE
  <2> QED
    BY <2>1 DEF Init, ByteState, Ref!KeccakInitializeState
<1>2. words \in LaneState /\ uwords = words
  BY <1>1, BytesToWords DEF Init
<1>3. out = uout
  BY <1>1, Extracting DEF Init
<1>4. TableOK
  BY DEF Init, TableOK, Register, Ref!nrRounds
<1> QED
  BY <1>1, <1>2, <1>3, <1>4 DEF Init, Inv, TypeOK, SameSponge

\* The table of the userspace program is computed one constant further.
LEMMA InitializeRoundInv ==
    ASSUME Inv, InitializeRound
    PROVE  Inv'
<1>1. /\ Ref!RoundConstant(LFSRstate) = keccak_round_constants[round + 1]
      /\ Ref!Called(LFSRstate, 7) = Register[round + 2]
  BY RoundConstants DEF Inv, TypeOK, TableOK, InitializeRound
<1>2. DOMAIN KeccakRoundConstants' = 0..23
  BY DEF Inv, TableOK, InitializeRound
<1>3. \A i \in 0..round : KeccakRoundConstants'[i] = keccak_round_constants[i + 1]
  BY <1>1 DEF Inv, TypeOK, TableOK, InitializeRound
<1>4. CASE round < 23
  BY <1>1, <1>2, <1>3, <1>4
     DEF Inv, TypeOK, TableOK, SameSponge, InitializeRound, Ref!nrRounds
<1>5. CASE round = 23
  BY <1>2, <1>3, <1>5
     DEF Inv, TypeOK, TableOK, SameSponge, InitializeRound, Ref!nrRounds
<1> QED
  BY <1>4, <1>5 DEF Inv, TypeOK

\* A step that leaves the tables alone, after they were initialized.
LEMMA TablesStay ==
    ASSUME TableOK, pc # "init", pc' # "init", UNCHANGED tables
    PROVE  TableOK'
BY DEF TableOK, tables

\* A permutation starts from the same bytes in both.
LEMMA PermuteInv ==
    ASSUME Inv, pc # "init", UNCHANGED tables, UNCHANGED <<out, uout>>,
           NEW k \in ByteState, Permute(k, k)
    PROVE  Inv'
<1>1. words' \in LaneState /\ uwords' = words'
  BY BytesToWords DEF Permute
<1>2. TableOK'
  BY TablesStay DEF Inv, Permute
<1> QED
  BY <1>1, <1>2 DEF Inv, TypeOK, SameSponge, Permute

\* A block is absorbed.
LEMMA AbsorbInv ==
    ASSUME Inv, NEW data \in Blocks, Absorb(data)
    PROVE  Inv'
<1> DEFINE k == absorbed(kernel, data, BlockLanes)
<1>1. k \in ByteState /\ Ref!AfterXor(user, data, 8 * BlockLanes) = k
  BY Absorbing, BlockAssumption DEF Inv, TypeOK, SameSponge
<1>2. Permute(k, k)
  BY <1>1 DEF Absorb
<1> HIDE DEF k
<1> QED
  BY <1>1, <1>2, PermuteInv DEF Absorb

\* Bytes are extracted.
LEMMA ExtractInv ==
    ASSUME Inv, NEW lanes \in {1, 16}, Extract(lanes)
    PROVE  Inv'
<1>1. out' = uout'
  BY Extracting DEF Inv, TypeOK, SameSponge, Extract
<1>2. TableOK'
  BY TablesStay DEF Inv, Extract
<1> QED
  BY <1>1, <1>2 DEF Inv, TypeOK, SameSponge, Extract

\* The state is permuted after bytes were extracted.
LEMMA SqueezedInv ==
    ASSUME Inv, Squeezed
    PROVE  Inv'
<1>1. kernel \in ByteState /\ user = kernel
  BY DEF Inv, TypeOK, SameSponge
<1> QED
  BY <1>1, PermuteInv DEF Squeezed

\* One of the steps theta, rho, pi and chi, which both compute alike.
LEMMA RoundInv ==
    ASSUME Inv, NEW step, NEW next \in {"rho", "pi", "chi", "iota"}, step # "init",
           NEW k \in LaneState, Round(step, next, k, k)
    PROVE  Inv'
<1>1. TableOK'
  BY TablesStay DEF Inv, Round
<1> QED
  BY <1>1 DEF Inv, TypeOK, SameSponge, Round

\* The last step of a round, and after the last round the way back to bytes.
LEMMA IotaInv ==
    ASSUME Inv, Iota
    PROVE  Inv'
<1>1. words' \in LaneState /\ uwords' = words'
  BY IotaStep DEF Inv, TypeOK, TableOK, SameSponge, Iota
<1>2. TableOK'
  BY TablesStay DEF Inv, Iota
<1>3. kernel' \in ByteState /\ user' = kernel'
  BY <1>1, WordsToBytes DEF Inv, TypeOK, SameSponge, Iota
<1> QED
  BY <1>1, <1>2, <1>3 DEF Inv, TypeOK, SameSponge, Iota, Ref!nrRounds

\* Every step keeps the two sponges equal.
LEMMA NextInv == Inv /\ [Next]_vars => Inv'
<1> SUFFICES ASSUME Inv, [Next]_vars PROVE Inv'
  OBVIOUS
<1>1. words \in LaneState /\ uwords = words
  BY DEF Inv, TypeOK, SameSponge
<1>2. CASE InitializeRound
  BY <1>2, InitializeRoundInv
<1>3. ASSUME NEW data \in Blocks, Absorb(data) PROVE Inv'
  BY <1>3, AbsorbInv
<1>4. ASSUME NEW lanes \in {1, 16}, Extract(lanes) PROVE Inv'
  BY <1>4, ExtractInv
<1>5. CASE Squeezed
  BY <1>5, SqueezedInv
<1>6. CASE Round("theta", "rho", keccak_theta(words), Ref!theta(uwords))
  BY <1>1, <1>6, Theta, RoundInv
<1>7. CASE Round("rho", "pi", keccak_rho(words), Ref!rho(uwords))
  BY <1>1, <1>7, Rho, RoundInv
<1>8. CASE Round("pi", "chi", keccak_pi(words), Ref!pi(uwords))
  BY <1>1, <1>8, Pi, RoundInv
<1>9. CASE Round("chi", "iota", keccak_chi(words), Ref!chi(uwords))
  BY <1>1, <1>9, Chi, RoundInv
<1>10. CASE Iota
  BY <1>10, IotaInv
<1>11. CASE UNCHANGED vars
  BY <1>11 DEF vars, tables, Inv, TypeOK, TableOK, SameSponge
<1>12. CASE Done
  BY <1>11, <1>12 DEF Done
<1> QED
  BY <1>2, <1>3, <1>4, <1>5, <1>6, <1>7, <1>8, <1>9, <1>10, <1>11, <1>12 DEF Next

\* Whatever blocks of 64 bytes are absorbed and however many lanes are extracted, in
\* whatever order, the sponge of the kernel on a big-endian machine and the one of the
\* userspace programs on a little-endian machine hold the same state after every step
\* of every round, and return the same bytes (infnoise_keccak.c:20-43, 99-159 and
\* KeccakF-1600-reference.c).
THEOREM SameSpongeHolds == Spec => []SameSponge
<1>1. Inv => SameSponge
  BY DEF Inv
<1> QED
  BY <1>1, InitInv, NextInv, PTL DEF Spec

\* Before the first use of the sponge the table that KeccakInitialize computes with its
\* shift register is the kernel's, constant for constant.
Initialized ==
    pc # "init" => \A i \in 0..23 : KeccakRoundConstants[i] = keccak_round_constants[i + 1]

THEOREM TypeAndTables == Spec => [](TypeOK /\ Initialized)
<1>1. Inv => TypeOK /\ Initialized
  BY DEF Inv, TableOK, Initialized
<1> QED
  BY <1>1, InitInv, NextInv, PTL DEF Spec

\* The conversions of a big-endian machine undo one another: entering and leaving the
\* permutation loses or moves no bit of the state (infnoise_keccak.c:141-159).
THEOREM ConversionsAreInverse ==
    /\ \A s \in ByteState : keccak_words_to_bytes(keccak_bytes_to_words(s)) = s
    /\ \A s \in LaneState : keccak_bytes_to_words(keccak_words_to_bytes(s)) = s
<1>1. ASSUME NEW s \in ByteState
      PROVE  keccak_words_to_bytes(keccak_bytes_to_words(s)) = s
  <2> DEFINE w == keccak_bytes_to_words(s)
  <2>1. w \in LaneState /\ w = Ref!Words(s) /\ keccak_words_to_bytes(w) = Ref!Bytes(w)
    BY BytesToWords, WordsToBytes
  <2>2. ASSUME NEW b \in 0..199
        PROVE  {k \in Byte : 8 * (b % 8) + k \in w[b \div 8]} = s[b]
    <3> DEFINE i == b \div 8
               j == b % 8
    <3>1. i \in Lane /\ j \in 0..7 /\ b = 8 * i + j
      BY DEF Lane
    <3>2. w[i] = UNION {{8 * h + k : k \in s[8 * i + h]} : h \in 0..7}
      BY <2>1, <3>1 DEF Ref!Words, Ref!nrLanes, Lane
    <3>3. \A h \in 0..7 : s[8 * i + h] \in SUBSET Byte
      BY <3>1 DEF ByteState, Lane
    <3> HIDE DEF w, i, j
    <3>4. \A h, g \in 0..7, k, m \in Byte : 8 * h + k = 8 * g + m => h = g /\ k = m
      BY DEF Byte
    <3>5. \A k \in Byte : 8 * j + k \in w[i] <=> k \in s[8 * i + j]
      <4> TAKE k \in Byte
      <4>1. 8 * j + k \in w[i]
                <=> \E h \in 0..7 : \E m \in s[8 * i + h] : 8 * j + k = 8 * h + m
        BY <3>2
      <4> QED
        BY <3>1, <3>3, <3>4, <4>1
    <3> QED
      BY <3>1, <3>3, <3>5 DEF i, j
  <2> HIDE DEF w
  <2>3. Ref!Bytes(w) = [b \in 0..199 |-> s[b]]
    BY <2>2, SameLanes DEF Ref!Bytes
  <2> QED
    BY <2>1, <2>3 DEF w, ByteState
<1>2. ASSUME NEW s \in LaneState
      PROVE  keccak_bytes_to_words(keccak_words_to_bytes(s)) = s
  <2> DEFINE u == keccak_words_to_bytes(s)
  <2>1. u \in ByteState /\ u = Ref!Bytes(s) /\ keccak_bytes_to_words(u) = Ref!Words(u)
    BY BytesToWords, WordsToBytes
  <2> HIDE DEF u
  <2>2. ASSUME NEW i \in Lane
        PROVE  UNION {{8 * h + k : k \in u[8 * i + h]} : h \in 0..7} = s[i]
    <3>1. \A h \in 0..7 : u[8 * i + h] = {k \in Byte : 8 * h + k \in s[i]}
      <4> TAKE h \in 0..7
      <4>1. 8 * i + h \in 0..199 /\ (8 * i + h) % 8 = h /\ (8 * i + h) \div 8 = i
        BY DEF Lane
      <4> QED
        BY <2>1, <4>1, SameLanes DEF Ref!Bytes
    <3>2. s[i] \in SUBSET Word
      BY DEF LaneState
    <3>3. \A n \in s[i] : \E h \in 0..7 : \E k \in u[8 * i + h] : n = 8 * h + k
      <4> TAKE n \in s[i]
      <4>1. n \in Word
        BY <3>2
      <4>2. n \div 8 \in 0..7 /\ n % 8 \in 0..7
        BY <4>1 DEF Word
      <4>3. n = 8 * (n \div 8) + (n % 8)
        BY <4>1 DEF Word
      <4>4. n % 8 \in u[8 * i + (n \div 8)]
        BY <3>1, <4>2, <4>3 DEF Byte
      <4> QED
        BY <4>2, <4>3, <4>4
    <3>4. \A h \in 0..7 : \A k \in u[8 * i + h] : 8 * h + k \in s[i]
      BY <3>1
    <3> QED
      BY <3>3, <3>4
  <2>3. Ref!Words(u) = [i \in Lane |-> s[i]]
    BY <2>2 DEF Ref!Words, Ref!nrLanes, Lane
  <2> QED
    BY <2>1, <2>3 DEF u, LaneState
<1> QED
  BY <1>1, <1>2
-----------------------------------------------------------------------------
\* A round merges no two states: each of its steps is injective.

\* Adding the same lane keeps lanes apart.
LEMMA XorCancels ==
    /\ \A a, b, c : Xor(a, c) = Xor(b, c) => a = b
    /\ \A a, b, c : Xor(c, a) = Xor(c, b) => a = b
<1>1. \A a, b, n : n \in Xor(a, b) <=> ((n \in a) # (n \in b))
  BY DEF Xor
<1>2. ASSUME NEW a, NEW b, NEW c, Xor(a, c) = Xor(b, c)
      PROVE  a = b
  BY <1>1, <1>2
<1>3. ASSUME NEW a, NEW b, NEW c, Xor(c, a) = Xor(c, b)
      PROVE  a = b
  BY <1>1, <1>3
<1> QED
  BY <1>2, <1>3

LEMMA XorMoves ==
    ASSUME NEW a, NEW b, NEW c, NEW d, Xor(a, c) = Xor(b, d), NEW n
    PROVE  ((n \in a) # (n \in b)) <=> ((n \in c) # (n \in d))
<1>1. n \in Xor(a, c) <=> n \in Xor(b, d)
  OBVIOUS
<1> QED
  BY <1>1 DEF Xor

\* A rotation moves bit b to bit b + n, modulo 64.
LEMMA RotatedBit ==
    ASSUME NEW a \in SUBSET Word, NEW n \in 0..63, NEW b \in Word
    PROVE  b \in rol64(a, n) <=> (b - n) % 64 \in a
<1>1. n % 64 = n
  OBVIOUS
<1>2. CASE n = 0
  <2>1. (b - n) % 64 = b
    BY <1>2 DEF Word
  <2> QED
    BY <1>1, <1>2, <2>1 DEF rol64
<1>3. CASE n # 0
  <2>1. rol64(a, n) = Shl(a, n) \cup Shr(a, 64 - n)
    BY <1>1, <1>3 DEF rol64
  <2>2. b \in Shl(a, n) <=> b >= n /\ b - n \in a
    BY DEF Shl, Word
  <2>3. b \in Shr(a, 64 - n) <=> b < n /\ b + 64 - n \in a
    BY DEF Shr, Word
  <2>4. (b - n) % 64 = IF b >= n THEN b - n ELSE b + 64 - n
    BY DEF Word
  <2> QED
    BY <2>1, <2>2, <2>3, <2>4 DEF Word
<1> QED
  BY <1>2, <1>3

LEMMA RotationKeeps ==
    ASSUME NEW a \in SUBSET Word, NEW b \in SUBSET Word, NEW n \in 0..63,
           rol64(a, n) = rol64(b, n)
    PROVE  a = b
<1>1. ASSUME NEW c \in Word PROVE c \in a <=> c \in b
  <2>1. (c + n) % 64 \in Word /\ (((c + n) % 64) - n) % 64 = c
    BY DEF Word
  <2>2. (c + n) % 64 \in rol64(a, n) <=> c \in a
    BY <2>1, RotatedBit
  <2>3. (c + n) % 64 \in rol64(b, n) <=> c \in b
    BY <2>1, RotatedBit
  <2> QED
    BY <2>2, <2>3
<1> QED
  BY <1>1

\* The columns of theta.  Two states that theta merges differ by a set of parities p
\* whose bit b in column x is the sum of bit b of column x - 1 and bit b - 1 of column
\* x + 1.  Such a law gives the one of twice its distance,
ColumnLaw(p, n) ==
    \A x \in 0..4, b \in Word :
        b \in p[x] <=> ((b - n) % 64 \in p[(x + n) % 5]) # (b \in p[(x + 4 * n) % 5])

LEMMA ColumnLawDoubles ==
    ASSUME NEW p, NEW n \in Nat, ColumnLaw(p, n)
    PROVE  ColumnLaw(p, 2 * n)
<1> SUFFICES ASSUME NEW x \in 0..4, NEW b \in Word
             PROVE  b \in p[x] <=> ((b - 2 * n) % 64 \in p[(x + 2 * n) % 5])
                                       # (b \in p[(x + 4 * (2 * n)) % 5])
  BY DEF ColumnLaw
<1> DEFINE y == (x + n) % 5
           z == (x + 4 * n) % 5
           c == (b - n) % 64
<1>1. y \in 0..4 /\ z \in 0..4 /\ c \in Word
  BY DEF Word
<1>2. /\ (y + n) % 5 = (x + 2 * n) % 5 /\ (y + 4 * n) % 5 = x
      /\ (z + n) % 5 = x /\ (z + 4 * n) % 5 = (x + 4 * (2 * n)) % 5
  OBVIOUS
<1>3. (c - n) % 64 = (b - 2 * n) % 64
  BY DEF Word
<1> HIDE DEF y, z, c
<1>4. b \in p[x] <=> (c \in p[y]) # (b \in p[z])
  BY DEF ColumnLaw, y, z, c
<1>5. c \in p[y] <=> ((c - n) % 64 \in p[(y + n) % 5]) # (c \in p[(y + 4 * n) % 5])
  BY <1>1 DEF ColumnLaw
<1>6. b \in p[z] <=> ((b - n) % 64 \in p[(z + n) % 5]) # (b \in p[(z + 4 * n) % 5])
  BY <1>1 DEF ColumnLaw
<1>7. c \in p[y] <=> ((b - 2 * n) % 64 \in p[(x + 2 * n) % 5]) # (c \in p[x])
  BY <1>2, <1>3, <1>5
<1>8. b \in p[z] <=> (c \in p[x]) # (b \in p[(x + 4 * (2 * n)) % 5])
  BY <1>2, <1>6 DEF c
<1> QED
  BY <1>4, <1>7, <1>8

\* so it holds at a distance of 64, a whole turn of a lane: there it says of each bit
\* alone that every column is the sum of its neighbours, which no parities but none are.
LEMMA OnlyEvenColumns ==
    ASSUME NEW p \in [0..4 -> SUBSET Word], ColumnLaw(p, 1)
    PROVE  \A x \in 0..4 : p[x] = {}
<1>1. ColumnLaw(p, 64)
  <2>1. \A n \in Nat : ColumnLaw(p, n) => ColumnLaw(p, 2 * n)
    BY ColumnLawDoubles
  <2>2. ColumnLaw(p, 2)
    BY <2>1
  <2>3. ColumnLaw(p, 4)
    BY <2>1, <2>2
  <2>4. ColumnLaw(p, 8)
    BY <2>1, <2>3
  <2>5. ColumnLaw(p, 16)
    BY <2>1, <2>4
  <2>6. ColumnLaw(p, 32)
    BY <2>1, <2>5
  <2> QED
    BY <2>1, <2>6
<1>2. ASSUME NEW b \in Word
      PROVE  b \notin p[0] /\ b \notin p[1] /\ b \notin p[2] /\ b \notin p[3] /\ b \notin p[4]
  <2>1. (b - 64) % 64 = b
    BY DEF Word
  <2>2. \A x \in 0..4 : b \in p[x] <=> (b \in p[(x + 64) % 5]) # (b \in p[(x + 256) % 5])
    BY <1>1, <2>1 DEF ColumnLaw
  <2>3. /\ b \in p[0] <=> (b \in p[4]) # (b \in p[1])
        /\ b \in p[1] <=> (b \in p[0]) # (b \in p[2])
        /\ b \in p[2] <=> (b \in p[1]) # (b \in p[3])
        /\ b \in p[3] <=> (b \in p[2]) # (b \in p[4])
        /\ b \in p[4] <=> (b \in p[3]) # (b \in p[0])
    BY <2>2
  <2> QED
    BY <2>3
<1>3. \A x \in 0..4 : x = 0 \/ x = 1 \/ x = 2 \/ x = 3 \/ x = 4
  OBVIOUS
<1> QED
  BY <1>2, <1>3

\* Theta adds to every lane of a column the sum of two parities.  When it makes two
\* states the same, the parities of their columns differ by such a law, hence not at
\* all, and it added the same to both.
LEMMA ThetaKeeps ==
    ASSUME NEW s \in LaneState, NEW t \in LaneState, keccak_theta(s) = keccak_theta(t)
    PROVE  s = t
<1> DEFINE c(u) == [x \in 0..4 |-> Parity(u, x)]
           d(u, x) == Xor(rol64(c(u)[(x + 1) % 5], 1), c(u)[(x + 4) % 5])
           p == [x \in 0..4 |-> Xor(c(s)[x], c(t)[x])]
<1>1. \A u \in LaneState : \A x \in 0..4 : c(u)[x] \in SUBSET Word
  <2> SUFFICES ASSUME NEW u \in LaneState, NEW x \in 0..4 PROVE Parity(u, x) \in SUBSET Word
    OBVIOUS
  <2>1. /\ u[x] \in SUBSET Word /\ u[x + 5] \in SUBSET Word /\ u[x + 10] \in SUBSET Word
        /\ u[x + 15] \in SUBSET Word /\ u[x + 20] \in SUBSET Word
    BY DEF LaneState, Lane
  <2> QED
    BY <2>1, XorRange DEF Parity
<1>2. \A u \in LaneState : \A i \in Lane : keccak_theta(u)[i] = Xor(u[i], d(u, X(i)))
  BY Coordinates DEF keccak_theta
<1>3. \A a, b, n : n \in Xor(a, b) <=> ((n \in a) # (n \in b))
  BY DEF Xor
<1>4. ASSUME NEW i \in Lane, NEW n
      PROVE  ((n \in s[i]) # (n \in t[i])) <=> ((n \in d(s, X(i))) # (n \in d(t, X(i))))
  <2>1. Xor(s[i], d(s, X(i))) = Xor(t[i], d(t, X(i)))
    BY <1>2
  <2> HIDE DEF d
  <2> QED
    BY <2>1, XorMoves
<1>5. ASSUME NEW x \in 0..4, NEW n
      PROVE  n \in p[x] <=> ((n \in d(s, x)) # (n \in d(t, x)))
  <2>1. \A y \in {0, 5, 10, 15, 20} : x + y \in Lane /\ X(x + y) = x
    BY DEF Lane, X
  <2>2. \A y \in {0, 5, 10, 15, 20} :
            ((n \in s[x + y]) # (n \in t[x + y])) <=> ((n \in d(s, x)) # (n \in d(t, x)))
    <3> HIDE DEF d
    <3> TAKE y \in {0, 5, 10, 15, 20}
    <3>1. x + y \in Lane /\ X(x + y) = x
      BY <2>1
    <3>2. ((n \in s[x + y]) # (n \in t[x + y]))
              <=> ((n \in d(s, X(x + y))) # (n \in d(t, X(x + y))))
      BY <1>4, <3>1
    <3> QED
      BY <3>1, <3>2
  <2>3. \A u : n \in Parity(u, x) <=>
            (((((n \in u[x]) # (n \in u[x + 5])) # (n \in u[x + 10])) # (n \in u[x + 15]))
                # (n \in u[x + 20]))
    BY <1>3 DEF Parity
  <2>4. p[x] = Xor(Parity(s, x), Parity(t, x))
    OBVIOUS
  <2> HIDE DEF p, d
  <2>5. n \in p[x] <=> ((n \in Parity(s, x)) # (n \in Parity(t, x)))
    BY <1>3, <2>4
  <2>6. x + 0 = x
    OBVIOUS
  <2> QED
    BY <2>2, <2>3, <2>5, <2>6
<1>6. ASSUME NEW u \in LaneState, NEW x \in 0..4, NEW n \in Word
      PROVE  n \in d(u, x) <=> (((n - 1) % 64 \in c(u)[(x + 1) % 5])
                                     # (n \in c(u)[(x + 4) % 5]))
  <2>1. (x + 1) % 5 \in 0..4
    OBVIOUS
  <2>2. c(u)[(x + 1) % 5] \in SUBSET Word
    BY <1>1, <2>1
  <2> HIDE DEF c
  <2>3. n \in rol64(c(u)[(x + 1) % 5], 1) <=> (n - 1) % 64 \in c(u)[(x + 1) % 5]
    BY <2>2, RotatedBit
  <2> QED
    BY <1>3, <2>3
<1>7. p \in [0..4 -> SUBSET Word] /\ \A x \in 0..4 : p[x] = Xor(c(s)[x], c(t)[x])
  BY <1>1, XorRange
<1> HIDE DEF c, d, p
<1>8. ColumnLaw(p, 1)
  <2> SUFFICES ASSUME NEW x \in 0..4, NEW b \in Word
               PROVE  b \in p[x] <=> ((b - 1) % 64 \in p[(x + 1) % 5])
                                         # (b \in p[(x + 4 * 1) % 5])
    BY Zenon DEF ColumnLaw
  <2>1. (x + 1) % 5 \in 0..4 /\ (x + 4) % 5 \in 0..4
    OBVIOUS
  <2>2. 4 * 1 = 4
    OBVIOUS
  <2>3. /\ (b - 1) % 64 \in p[(x + 1) % 5] <=>
               (((b - 1) % 64 \in c(s)[(x + 1) % 5]) # ((b - 1) % 64 \in c(t)[(x + 1) % 5]))
        /\ b \in p[(x + 4) % 5] <=>
               ((b \in c(s)[(x + 4) % 5]) # (b \in c(t)[(x + 4) % 5]))
    BY <1>3, <1>7, <2>1
  <2> QED
    BY <1>5, <1>6, <2>2, <2>3
<1>9. \A x \in 0..4 : c(s)[x] = c(t)[x]
  <2> TAKE x \in 0..4
  <2>1. Xor(c(s)[x], c(t)[x]) = {}
    BY <1>7, <1>8, OnlyEvenColumns
  <2> QED
    BY <2>1 DEF Xor
<1>10. \A i \in Lane : s[i] = t[i]
  <2> TAKE i \in Lane
  <2>1. X(i) \in 0..4 /\ (X(i) + 1) % 5 \in 0..4 /\ (X(i) + 4) % 5 \in 0..4
    BY Coordinates
  <2>2. d(s, X(i)) = d(t, X(i))
    BY <1>9, <2>1 DEF d
  <2>3. Xor(s[i], d(s, X(i))) = Xor(t[i], d(t, X(i)))
    BY <1>2
  <2> QED
    BY <2>2, <2>3, XorCancels
<1> QED
  BY <1>10 DEF LaneState

LEMMA RhoKeeps ==
    ASSUME NEW s \in LaneState, NEW t \in LaneState, keccak_rho(s) = keccak_rho(t)
    PROVE  s = t
<1>1. ASSUME NEW i \in Lane PROVE s[i] = t[i]
  <2>1. rol64(s[i], keccak_rho_offsets[i + 1]) = rol64(t[i], keccak_rho_offsets[i + 1])
    BY DEF keccak_rho
  <2>2. s[i] \in SUBSET Word /\ t[i] \in SUBSET Word /\ keccak_rho_offsets[i + 1] \in 0..63
    BY OffsetRange DEF LaneState
  <2> QED
    BY <2>1, <2>2, RotationKeeps
<1> QED
  BY <1>1 DEF LaneState

\* Pi moves no two lanes to one place, so every lane is found where it went.
LEMMA PiKeeps ==
    ASSUME NEW s \in LaneState, NEW t \in LaneState, keccak_pi(s) = keccak_pi(t)
    PROVE  s = t
<1> DEFINE to(j) == At(Y(j), 2 * X(j) + 3 * Y(j))
<1>1. ASSUME NEW j \in Lane PROVE s[j] = t[j]
  <2>1. to(j) \in Lane
    BY Coordinates
  <2>2. \A k \in Lane : to(k) = to(j) => k = j
    BY DEF Lane, X, Y, At
  <2>3. (CHOOSE k \in Lane : to(k) = to(j)) = j
    BY <2>2
  <2> HIDE DEF to
  <2>4. keccak_pi(s)[to(j)] = s[j] /\ keccak_pi(t)[to(j)] = t[j]
    BY <2>1, <2>3 DEF keccak_pi, to
  <2> QED
    BY <2>4
<1> QED
  BY <1>1 DEF LaneState

\* Chi works on rows of five lanes, and there bit by bit: of the 32 values of a row it
\* makes no two the same.
LEMMA ChiKeeps ==
    ASSUME NEW s \in LaneState, NEW t \in LaneState, keccak_chi(s) = keccak_chi(t)
    PROVE  s = t
<1> DEFINE new(n, u, i, j, k) == (n \in u[i]) # (n \in u[k] /\ n \notin u[j])
<1>1. ASSUME NEW y \in 0..4, NEW n
      PROVE  \A x \in 0..4 : n \in s[5 * y + x] <=> n \in t[5 * y + x]
  <2>1. \A x \in 0..4 :
            /\ 5 * y + x \in Lane /\ X(5 * y + x) = x /\ Y(5 * y + x) = y
            /\ At(x + 1, y) = 5 * y + ((x + 1) % 5) /\ At(x + 2, y) = 5 * y + ((x + 2) % 5)
    BY DEF Lane, X, Y, At
  <2>2. \A u, i : i \in Lane =>
            (n \in keccak_chi(u)[i] <=> new(n, u, i, At(X(i) + 1, Y(i)), At(X(i) + 2, Y(i))))
    BY DEF keccak_chi, Xor
  <2>3. \A x \in 0..4 : new(n, s, 5 * y + x, 5 * y + ((x + 1) % 5), 5 * y + ((x + 2) % 5))
                    <=> new(n, t, 5 * y + x, 5 * y + ((x + 1) % 5), 5 * y + ((x + 2) % 5))
    <3> HIDE DEF new
    <3> TAKE x \in 0..4
    <3>1. 5 * y + x \in Lane
      BY <2>1
    <3>2. /\ At(X(5 * y + x) + 1, Y(5 * y + x)) = 5 * y + ((x + 1) % 5)
          /\ At(X(5 * y + x) + 2, Y(5 * y + x)) = 5 * y + ((x + 2) % 5)
      BY <2>1
    <3> QED
      BY <2>2, <3>1, <3>2
  <2>4. /\ new(n, s, 5 * y, 5 * y + 1, 5 * y + 2) <=> new(n, t, 5 * y, 5 * y + 1, 5 * y + 2)
        /\ new(n, s, 5 * y + 1, 5 * y + 2, 5 * y + 3)
               <=> new(n, t, 5 * y + 1, 5 * y + 2, 5 * y + 3)
        /\ new(n, s, 5 * y + 2, 5 * y + 3, 5 * y + 4)
               <=> new(n, t, 5 * y + 2, 5 * y + 3, 5 * y + 4)
        /\ new(n, s, 5 * y + 3, 5 * y + 4, 5 * y) <=> new(n, t, 5 * y + 3, 5 * y + 4, 5 * y)
        /\ new(n, s, 5 * y + 4, 5 * y, 5 * y + 1) <=> new(n, t, 5 * y + 4, 5 * y, 5 * y + 1)
    <3> HIDE DEF new
    <3>1. 5 * y + 0 = 5 * y
      OBVIOUS
    <3> QED
      BY <2>3, <3>1
  <2>5. /\ n \in s[5 * y] <=> n \in t[5 * y]
        /\ n \in s[5 * y + 1] <=> n \in t[5 * y + 1]
        /\ n \in s[5 * y + 2] <=> n \in t[5 * y + 2]
        /\ n \in s[5 * y + 3] <=> n \in t[5 * y + 3]
        /\ n \in s[5 * y + 4] <=> n \in t[5 * y + 4]
    BY <2>4
  <2> QED
    BY <2>5
<1>2. ASSUME NEW i \in Lane PROVE s[i] = t[i]
  <2>1. i \div 5 \in 0..4 /\ i % 5 \in 0..4 /\ i = 5 * (i \div 5) + (i % 5)
    BY DEF Lane
  <2>2. \A n : n \in s[i] <=> n \in t[i]
    BY <1>1, <2>1
  <2> QED
    BY <2>2
<1> QED
  BY <1>2 DEF LaneState

LEMMA IotaKeeps ==
    ASSUME NEW s \in LaneState, NEW t \in LaneState, NEW r \in 0..23,
           keccak_iota(s, r) = keccak_iota(t, r)
    PROVE  s = t
<1>1. ASSUME NEW i \in Lane PROVE s[i] = t[i]
  <2>1. CASE i = 0
    <3>1. Xor(s[0], keccak_round_constants[r + 1]) = Xor(t[0], keccak_round_constants[r + 1])
      BY DEF keccak_iota, LaneState, Lane
    <3> QED
      BY <2>1, <3>1, XorCancels
  <2>2. CASE i # 0
    BY <2>2 DEF keccak_iota, LaneState
  <2> QED
    BY <2>1, <2>2
<1> QED
  BY <1>1 DEF LaneState

\* A round, step after step, and the permutation of the 200 bytes: 24 rounds between
\* two conversions (infnoise_keccak.c:126-180).
RoundOf(s, r) == keccak_iota(keccak_chi(keccak_pi(keccak_rho(keccak_theta(s)))), r)

Rounds(f, n) ==
    f \in [0..n -> LaneState] /\ \A r \in 0..(n - 1) : f[r + 1] = RoundOf(f[r], r)

Permuted(s, t) ==
    \E f : Rounds(f, 24) /\ f[0] = keccak_bytes_to_words(s) /\ t = keccak_words_to_bytes(f[24])

LEMMA RoundKeeps ==
    ASSUME NEW s \in LaneState, NEW t \in LaneState, NEW r \in 0..23
    PROVE  RoundOf(s, r) \in LaneState /\ (RoundOf(s, r) = RoundOf(t, r) => s = t)
<1> DEFINE theta(u) == keccak_theta(u)
           rho(u) == keccak_rho(theta(u))
           pi(u) == keccak_pi(rho(u))
           chi(u) == keccak_chi(pi(u))
<1>1. \A u \in LaneState : theta(u) \in LaneState /\ rho(u) \in LaneState
                               /\ pi(u) \in LaneState /\ chi(u) \in LaneState
  BY Theta, Rho, Pi, Chi
<1>2. RoundOf(s, r) \in LaneState
  <2> DEFINE table == [j \in 0..23 |-> keccak_round_constants[j + 1]]
  <2>1. table[r] = keccak_round_constants[r + 1] /\ chi(s) \in LaneState
    BY <1>1
  <2> HIDE DEF table, chi
  <2>2. keccak_iota(chi(s), r) \in LaneState
    BY <2>1, IotaStep
  <2> QED
    BY <2>2 DEF RoundOf, chi
<1>3. ASSUME RoundOf(s, r) = RoundOf(t, r) PROVE s = t
  <2>1. chi(s) = chi(t)
    BY <1>1, <1>3, IotaKeeps DEF RoundOf
  <2>2. pi(s) = pi(t)
    BY <1>1, <2>1, ChiKeeps
  <2>3. rho(s) = rho(t)
    BY <1>1, <2>2, PiKeeps
  <2>4. theta(s) = theta(t)
    BY <1>1, <2>3, RhoKeeps
  <2> QED
    BY <2>4, ThetaKeeps
<1> QED
  BY <1>2, <1>3

LEMMA OneMoreRound ==
    ASSUME NEW f, NEW n \in 0..23, Rounds(f, n)
    PROVE  \E g : /\ Rounds(g, n + 1) /\ g[0] = f[0]
                  /\ g[n] = f[n] /\ g[n + 1] = RoundOf(f[n], n)
<1> DEFINE g == [r \in 0..(n + 1) |-> IF r <= n THEN f[r] ELSE RoundOf(f[n], n)]
<1>1. f[n] \in LaneState
  BY DEF Rounds
<1>2. RoundOf(f[n], n) \in LaneState
  BY <1>1, RoundKeeps
<1>3. g[0] = f[0] /\ g[n] = f[n] /\ g[n + 1] = RoundOf(f[n], n)
  OBVIOUS
<1>4. g \in [0..(n + 1) -> LaneState]
  BY <1>2 DEF Rounds
<1>5. ASSUME NEW r \in 0..n PROVE g[r + 1] = RoundOf(g[r], r)
  <2>1. CASE r = n
    BY <1>3, <2>1
  <2>2. CASE r # n
    BY <2>2 DEF Rounds
  <2> QED
    BY <2>1, <2>2
<1> QED
  BY <1>3, <1>4, <1>5 DEF Rounds

\* From every state the rounds can be made, one after the other.
LEMMA RoundsExist ==
    ASSUME NEW s \in LaneState
    PROVE  \E f : Rounds(f, 24) /\ f[0] = s
<1> DEFINE Missing == {n \in 0..24 : ~ \E f : Rounds(f, n) /\ f[0] = s}
<1>1. SUFFICES ASSUME Missing # {} PROVE FALSE
  OBVIOUS
<1>2. PICK n \in Missing : \A m \in Missing : ~ m < n
  BY <1>1, LeastOf
<1>3. n # 0
  <2>1. Rounds([r \in 0..0 |-> s], 0)
    BY DEF Rounds
  <2> QED
    BY <2>1
<1>4. n - 1 \in 0..23 /\ (n - 1) + 1 = n
  BY <1>3
<1>5. PICK f : Rounds(f, n - 1) /\ f[0] = s
  BY <1>2, <1>4
<1>6. \E g : Rounds(g, n) /\ g[0] = s
  BY <1>4, <1>5, OneMoreRound
<1> QED
  BY <1>2, <1>6

\* Two states that end in the same were the same before each round.
LEMMA RoundsKeep ==
    ASSUME NEW f, NEW g, Rounds(f, 24), Rounds(g, 24), f[24] = g[24]
    PROVE  f[0] = g[0]
<1> DEFINE Apart == {n \in 0..24 : f[24 - n] # g[24 - n]}
<1>1. SUFFICES ASSUME Apart # {} PROVE FALSE
  <2>1. 24 \in 0..24 /\ 24 - 24 = 0
    OBVIOUS
  <2>2. ASSUME f[0] # g[0] PROVE Apart # {}
    BY <2>1, <2>2
  <2> QED
    BY <1>1, <2>2
<1>2. PICK n \in Apart : \A m \in Apart : ~ m < n
  <2>1. Apart \in SUBSET Nat
    OBVIOUS
  <2> HIDE DEF Apart
  <2> QED
    BY <1>1, <2>1, LeastOf
<1>3. n \in 1..24
  BY <1>2
<1>4. f[24 - (n - 1)] = g[24 - (n - 1)]
  BY <1>2, <1>3
<1> DEFINE r == 24 - n
<1>5. r \in 0..23 /\ 24 - (n - 1) = r + 1
  BY <1>3
<1> HIDE DEF r
<1>6. RoundOf(f[r], r) = RoundOf(g[r], r) /\ f[r] \in LaneState /\ g[r] \in LaneState
  BY <1>4, <1>5 DEF Rounds
<1>7. f[r] = g[r]
  BY <1>5, <1>6, RoundKeeps
<1> QED
  BY <1>2, <1>7 DEF r

LEMMA PermutationKeeps ==
    /\ \A s \in ByteState : \E u \in ByteState : Permuted(s, u)
    /\ \A s, t \in ByteState : \A u : Permuted(s, u) /\ Permuted(t, u) => s = t
<1>1. ASSUME NEW s \in ByteState
      PROVE  \E u \in ByteState : Permuted(s, u)
  <2>1. PICK f : Rounds(f, 24) /\ f[0] = keccak_bytes_to_words(s)
    BY BytesToWords, RoundsExist
  <2>2. f[24] \in LaneState
    BY <2>1 DEF Rounds
  <2>3. keccak_words_to_bytes(f[24]) \in ByteState
    BY <2>2, WordsToBytes
  <2> QED
    BY <2>1, <2>3 DEF Permuted
<1>2. ASSUME NEW s \in ByteState, NEW t \in ByteState, NEW u, Permuted(s, u), Permuted(t, u)
      PROVE  s = t
  <2>1. PICK f : /\ Rounds(f, 24) /\ f[0] = keccak_bytes_to_words(s)
                 /\ u = keccak_words_to_bytes(f[24])
    BY <1>2 DEF Permuted
  <2>2. PICK g : /\ Rounds(g, 24) /\ g[0] = keccak_bytes_to_words(t)
                 /\ u = keccak_words_to_bytes(g[24])
    BY <1>2 DEF Permuted
  <2>3. f[24] \in LaneState /\ g[24] \in LaneState
    BY <2>1, <2>2 DEF Rounds
  <2>4. f[24] = g[24]
    <3>1. /\ keccak_bytes_to_words(keccak_words_to_bytes(f[24])) = f[24]
          /\ keccak_bytes_to_words(keccak_words_to_bytes(g[24])) = g[24]
      BY <2>3, ConversionsAreInverse
    <3> QED
      BY <2>1, <2>2, <3>1
  <2>5. keccak_bytes_to_words(s) = keccak_bytes_to_words(t)
    BY <2>1, <2>2, <2>4, RoundsKeep
  <2> QED
    BY <2>5, ConversionsAreInverse
<1> QED
  BY <1>1, <1>2

\* What is added to the first 64 bytes of the state can be told from the sum, and so can
\* the state it was added to.
LEMMA AbsorbedKeeps ==
    /\ \A s \in ByteState : \A a, b \in [0..63 -> SUBSET Byte] :
           absorbed(s, a, BlockLanes) = absorbed(s, b, BlockLanes) => a = b
    /\ \A s, t \in ByteState : \A a \in [0..63 -> SUBSET Byte] :
           absorbed(s, a, BlockLanes) = absorbed(t, a, BlockLanes) => s = t
<1>1. ASSUME NEW s \in ByteState, NEW a \in [0..63 -> SUBSET Byte],
             NEW b \in [0..63 -> SUBSET Byte],
             absorbed(s, a, BlockLanes) = absorbed(s, b, BlockLanes)
      PROVE  a = b
  <2>1. \A i \in 0..63 : Xor(s[i], a[i]) = Xor(s[i], b[i])
    BY <1>1 DEF absorbed, BlockLanes, ByteState
  <2>2. \A i \in 0..63 : a[i] = b[i]
    BY <2>1, XorCancels
  <2> QED
    BY <2>2
<1>2. ASSUME NEW s \in ByteState, NEW t \in ByteState, NEW a \in [0..63 -> SUBSET Byte],
             absorbed(s, a, BlockLanes) = absorbed(t, a, BlockLanes)
      PROVE  s = t
  <2>1. ASSUME NEW i \in 0..199 PROVE s[i] = t[i]
    <3>1. CASE i < 64
      <4>1. Xor(s[i], a[i]) = Xor(t[i], a[i])
        BY <1>2, <3>1 DEF absorbed, BlockLanes, ByteState
      <4> QED
        BY <4>1, XorCancels
    <3>2. CASE ~ i < 64
      BY <1>2, <3>2 DEF absorbed, BlockLanes, ByteState
    <3> QED
      BY <3>1, <3>2
  <2> QED
    BY <2>1 DEF ByteState
<1> QED
  BY <1>1, <1>2

\* The permutation takes every state to one that no other is taken to, and absorbing a
\* block keeps apart what it found apart: two blocks absorbed by one state, or one block
\* by two states, leave two states.  So two sequences of blocks that differ in a single
\* one leave two states, and no permutation or extraction between loses what was
\* absorbed (infnoise_keccak.c:58-137 and 168-214, and with SameSpongeHolds the
\* programs' KeccakF-1600-reference.c).
THEOREM NothingMerged ==
    /\ \A s \in ByteState : \E u \in ByteState : Permuted(s, u)
    /\ \A s, t, u \in ByteState : Permuted(s, u) /\ Permuted(t, u) => s = t
    /\ \A s, u \in ByteState : \A a, b \in [0..63 -> SUBSET Byte] :
           /\ Permuted(absorbed(s, a, BlockLanes), u)
           /\ Permuted(absorbed(s, b, BlockLanes), u)
           => a = b
    /\ \A s, t, u \in ByteState : \A a \in [0..63 -> SUBSET Byte] :
           /\ Permuted(absorbed(s, a, BlockLanes), u)
           /\ Permuted(absorbed(t, a, BlockLanes), u)
           => s = t
<1>1. \A s \in ByteState : \A a \in [0..63 -> SUBSET Byte] :
          absorbed(s, a, BlockLanes) \in ByteState
  BY Absorbing
<1>2. ASSUME NEW s \in ByteState, NEW u \in ByteState, NEW a \in [0..63 -> SUBSET Byte],
             NEW b \in [0..63 -> SUBSET Byte],
             Permuted(absorbed(s, a, BlockLanes), u), Permuted(absorbed(s, b, BlockLanes), u)
      PROVE  a = b
  <2>1. absorbed(s, a, BlockLanes) = absorbed(s, b, BlockLanes)
    BY <1>1, <1>2, PermutationKeeps
  <2> QED
    BY <2>1, AbsorbedKeeps
<1>3. ASSUME NEW s \in ByteState, NEW t \in ByteState, NEW u \in ByteState,
             NEW a \in [0..63 -> SUBSET Byte],
             Permuted(absorbed(s, a, BlockLanes), u), Permuted(absorbed(t, a, BlockLanes), u)
      PROVE  s = t
  <2>1. absorbed(s, a, BlockLanes) = absorbed(t, a, BlockLanes)
    BY <1>1, <1>3, PermutationKeeps
  <2> QED
    BY <2>1, AbsorbedKeeps
<1> QED
  BY <1>2, <1>3, PermutationKeeps

-----------------------------------------------------------------------------
\* Within a permutation the lanes are those its first rounds give from the bytes it
\* began with, and the steps of the round that is under way.
UnderWay(f) ==
    /\ Rounds(f, round) /\ f[0] = keccak_bytes_to_words(kernel)
    /\ pc = "theta" => words = f[round]
    /\ pc = "rho"   => words = keccak_theta(f[round])
    /\ pc = "pi"    => words = keccak_rho(keccak_theta(f[round]))
    /\ pc = "chi"   => words = keccak_pi(keccak_rho(keccak_theta(f[round])))
    /\ pc = "iota"  => words = keccak_chi(keccak_pi(keccak_rho(keccak_theta(f[round]))))

RoundsInv == pc \in {"theta", "rho", "pi", "chi", "iota"} => \E f : UnderWay(f)

LEMMA PermuteBegins ==
    ASSUME NEW k, NEW u, Permute(k, u), Inv'
    PROVE  RoundsInv'
<1>1. words' \in LaneState
  BY DEF Inv, TypeOK
<1>2. PICK f : f = [r \in 0..0 |-> words']
  OBVIOUS
<1>3. Rounds(f, 0) /\ f[0] = words'
  BY <1>1, <1>2 DEF Rounds
<1>4. UnderWay(f)'
  BY <1>3 DEF UnderWay, Permute
<1> QED
  BY <1>4 DEF RoundsInv

LEMMA RoundGoesOn ==
    ASSUME NEW step, NEW next, NEW k, NEW u, Round(step, next, k, u),
           <<step, next>> \in {<<"theta", "rho">>, <<"rho", "pi">>, <<"pi", "chi">>,
                               <<"chi", "iota">>},
           step = "theta" => k = keccak_theta(words), step = "rho" => k = keccak_rho(words),
           step = "pi" => k = keccak_pi(words), step = "chi" => k = keccak_chi(words),
           RoundsInv
    PROVE  RoundsInv'
<1>1. PICK f : UnderWay(f)
  BY DEF RoundsInv, Round
<1>2. UnderWay(f)'
  BY <1>1 DEF UnderWay, Round
<1> QED
  BY <1>2 DEF RoundsInv

LEMMA RoundEnds ==
    ASSUME Inv, RoundsInv, Iota
    PROVE  \E g : /\ Rounds(g, round + 1) /\ g[0] = keccak_bytes_to_words(kernel)
                  /\ words' = g[round + 1]
<1>1. PICK f : UnderWay(f)
  BY DEF RoundsInv, Iota
<1>2. words' = RoundOf(f[round], round)
  BY <1>1 DEF UnderWay, Iota, RoundOf
<1>3. round \in 0..23 /\ Rounds(f, round) /\ f[0] = keccak_bytes_to_words(kernel)
  BY <1>1 DEF UnderWay, Inv, TypeOK
<1> QED
  BY <1>2, <1>3, OneMoreRound

LEMMA RoundsInvStep == Inv /\ Inv' /\ RoundsInv /\ [Next]_vars => RoundsInv'
<1> SUFFICES ASSUME Inv, Inv', RoundsInv, [Next]_vars PROVE RoundsInv'
  OBVIOUS
<1>1. CASE InitializeRound
  BY <1>1 DEF InitializeRound, RoundsInv
<1>2. ASSUME NEW data \in Blocks, Absorb(data) PROVE RoundsInv'
  BY <1>2, PermuteBegins DEF Absorb
<1>3. ASSUME NEW lanes \in {1, 16}, Extract(lanes) PROVE RoundsInv'
  BY <1>3 DEF Extract, RoundsInv
<1>4. CASE Squeezed
  BY <1>4, PermuteBegins DEF Squeezed
<1>5. CASE Round("theta", "rho", keccak_theta(words), Ref!theta(uwords))
  BY <1>5, RoundGoesOn
<1>6. CASE Round("rho", "pi", keccak_rho(words), Ref!rho(uwords))
  BY <1>6, RoundGoesOn
<1>7. CASE Round("pi", "chi", keccak_pi(words), Ref!pi(uwords))
  BY <1>7, RoundGoesOn
<1>8. CASE Round("chi", "iota", keccak_chi(words), Ref!chi(uwords))
  BY <1>8, RoundGoesOn
<1>9. CASE Iota
  <2>1. CASE round + 1 < Ref!nrRounds
    <3>1. pc' = "theta" /\ round' = round + 1 /\ kernel' = kernel
      BY <1>9, <2>1 DEF Iota
    <3>2. PICK g : /\ Rounds(g, round') /\ g[0] = keccak_bytes_to_words(kernel')
                   /\ words' = g[round']
      BY <1>9, <3>1, RoundEnds
    <3>3. UnderWay(g)'
      BY <3>1, <3>2 DEF UnderWay
    <3> QED
      BY <3>3 DEF RoundsInv
  <2>2. CASE ~ round + 1 < Ref!nrRounds
    BY <1>9, <2>2 DEF Iota, RoundsInv
  <2> QED
    BY <2>1, <2>2
<1>10. CASE UNCHANGED vars
  BY <1>10 DEF vars, tables, RoundsInv, UnderWay
<1>11. CASE Done
  BY <1>10, <1>11 DEF Done
<1> QED
  BY <1>1, <1>2, <1>3, <1>4, <1>5, <1>6, <1>7, <1>8, <1>9, <1>10, <1>11 DEF Next

\* The state of the kernel changes in two ways only: a block is added, or the last round
\* of a permutation leaves the permuted state that the permutation began with.  By
\* NothingMerged neither change loses what the state held (infnoise_keccak.c:126-214).
KernelPermutes ==
    [][kernel' = kernel \/ (pc = "iota" /\ Permuted(kernel, kernel'))
         \/ \E data \in Blocks : kernel' = absorbed(kernel, data, BlockLanes)]_vars

THEOREM EveryChangeKept == Spec => KernelPermutes
<1>1. ASSUME Inv, RoundsInv, [Next]_vars
      PROVE  [kernel' = kernel \/ (pc = "iota" /\ Permuted(kernel, kernel'))
                \/ \E data \in Blocks : kernel' = absorbed(kernel, data, BlockLanes)]_vars
  <2>1. CASE Iota
    <3>1. CASE round + 1 < Ref!nrRounds
      BY <2>1, <3>1 DEF Iota
    <3>2. CASE ~ round + 1 < Ref!nrRounds
      <4>1. round + 1 = 24 /\ kernel' = keccak_words_to_bytes(words') /\ pc = "iota"
        BY <1>1, <2>1, <3>2 DEF Iota, Inv, TypeOK, Ref!nrRounds
      <4>2. \E g : Rounds(g, 24) /\ g[0] = keccak_bytes_to_words(kernel) /\ words' = g[24]
        BY <1>1, <2>1, <4>1, RoundEnds
      <4> QED
        BY <4>1, <4>2 DEF Permuted
    <3> QED
      BY <3>1, <3>2
  <2>2. ASSUME NEW data \in Blocks, Absorb(data)
        PROVE  kernel' = absorbed(kernel, data, BlockLanes)
    BY <2>2 DEF Absorb, Permute
  <2>3. ASSUME NEW lanes \in {1, 16}, Extract(lanes) PROVE kernel' = kernel
    BY <2>3 DEF Extract
  <2>4. CASE InitializeRound \/ Squeezed \/ Done \/ UNCHANGED vars
    BY <2>4 DEF InitializeRound, Squeezed, Permute, Done, vars
  <2>5. ASSUME NEW step, NEW next, NEW k, NEW u, Round(step, next, k, u)
        PROVE  kernel' = kernel
    BY <2>5 DEF Round
  <2> QED
    BY <1>1, <2>1, <2>2, <2>3, <2>4, <2>5 DEF Next
<1>2. Init => RoundsInv
  BY DEF Init, RoundsInv
<1> QED
  BY <1>1, <1>2, InitInv, NextInv, RoundsInvStep, PTL DEF Spec, KernelPermutes
=============================================================================
