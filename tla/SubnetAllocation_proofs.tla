----------------------- MODULE SubnetAllocation_proofs -----------------------
(***************************************************************************)
(* The allocator of the etcd manager, for every width of an address, every *)
(* set of hosts and of configurations, and every limit of the scan.        *)
(***************************************************************************)
EXTENDS SubnetAllocation, WellFoundedInduction, TLAPS

-----------------------------------------------------------------------------
(* Arithmetic.                                                             *)

\* A set of natural numbers has a least element. It stands in for induction: the least
\* number for which a formula fails is not there.
LEMMA LeastNat == ASSUME NEW T \in SUBSET Nat, T # {} PROVE \E x \in T : \A y \in T : x <= y
  <1> DEFINE R == OpToRel(<, Nat)
  <1>1. R = {p \in Nat \X Nat : p[1] < p[2]}
    BY Zenon DEF OpToRel
  <1>2. IsWellFoundedOn(R, Nat)
    BY Zenon, NatLessThanWellFounded
  <1> HIDE DEF R
  <1>3. PICK x \in T : \A y \in T : ~ (<<y, x>> \in R)
    BY Zenon, <1>2, WFMin
  <1>4. ASSUME NEW y \in T PROVE x <= y
    <2>1. x \in Nat /\ y \in Nat /\ <<y, x>> \notin R
      BY Zenon, <1>3
    <2>2. <<y, x>> \in Nat \X Nat /\ <<y, x>>[1] = y /\ <<y, x>>[2] = x
      BY Zenon, <2>1
    <2>3. ~(y < x)
      BY Zenon, <1>1, <2>1, <2>2
    <2> QED BY <2>1, <2>3
  <1> QED BY Zenon, <1>4

\* The powers of two up to 2 ^ Width are positive.
LEMMA PowerPositive == \A n \in 0 .. Width : 2 ^ n \in Nat /\ 2 ^ n >= 1
  <1> DEFINE T == {n \in 0 .. Width : ~(2 ^ n \in Nat /\ 2 ^ n >= 1)}
  <1> SUFFICES ASSUME T # {} PROVE FALSE
    BY Zenon
  <1>0. T \in SUBSET Nat
    BY WidthAssumption
  <1>1. PICK x \in T : \A y \in T : x <= y
    BY Zenon, <1>0, LeastNat
  <1>2. 2 ^ 0 = 1
    OBVIOUS
  <1>3. x # 0
    <2> SUFFICES ASSUME x = 0 PROVE FALSE
      BY Zenon
    <2>1. 2 ^ x = 1
      BY Zenon, <1>2
    <2> QED BY <1>1, <2>1
  <1>4. x - 1 \in 0 .. Width - 1 /\ x - 1 \notin T /\ x = (x - 1) + 1
    BY <1>1, <1>3, WidthAssumption
  <1>5. 2 ^ (x - 1) \in Nat /\ 2 ^ (x - 1) >= 1 /\ 2 ^ x = 2 * 2 ^ (x - 1)
    BY <1>4, PowerAssumption, WidthAssumption
  <1> QED BY <1>1, <1>5

\* The law of exponents.
LEMMA PowerSum ==
  ASSUME NEW i \in Nat, NEW j \in Nat, i + j <= Width
  PROVE  2 ^ (i + j) = 2 ^ j * 2 ^ i
  <1> DEFINE T == {k \in 0 .. j : ~(2 ^ (i + k) = 2 ^ k * 2 ^ i)}
  <1> SUFFICES ASSUME T # {} PROVE FALSE
    OBVIOUS
  <1>0. T \in SUBSET Nat
    OBVIOUS
  <1>1. PICK x \in T : \A y \in T : x <= y
    BY Zenon, <1>0, LeastNat
  <1>2. 2 ^ 0 = 1
    OBVIOUS
  <1>a. \A n \in 0 .. Width : 2 ^ n \in Nat
    BY Zenon, PowerPositive
  <1>3. x # 0
    <2> SUFFICES ASSUME x = 0 PROVE FALSE
      BY Zenon
    <2>1. 2 ^ x = 1
      BY Zenon, <1>2
    <2>2. i + x = i
      OBVIOUS
    <2>3. 2 ^ (i + x) = 2 ^ i
      BY Zenon, <2>2
    <2> QED BY <1>1, <1>a, <2>1, <2>3, WidthAssumption
  <1>4. x - 1 \in 0 .. Width - 1 /\ x - 1 \notin T /\ x - 1 \in 0 .. j /\ x = (x - 1) + 1
        /\ i + x = (i + (x - 1)) + 1 /\ i + (x - 1) \in 0 .. Width - 1 /\ i \in 0 .. Width
    BY <1>1, <1>3, WidthAssumption
  <1>5. 2 ^ (i + (x - 1)) = 2 ^ (x - 1) * 2 ^ i
    BY Zenon, <1>4
  <1>6. 2 ^ x = 2 * 2 ^ (x - 1)
    BY Zenon, <1>4, PowerAssumption, WidthAssumption
  <1>7. 2 ^ (i + x) = 2 * 2 ^ (i + (x - 1))
    BY Zenon, <1>4, PowerAssumption, WidthAssumption
  <1>8. \A a, b \in Nat : 2 * (b * a) = (2 * b) * a
    OBVIOUS
  <1>9. 2 ^ (x - 1) \in Nat /\ 2 ^ i \in Nat
    BY <1>4, <1>a, WidthAssumption
  <1>10. 2 ^ (i + x) = 2 ^ x * 2 ^ i
    <2>1. 2 ^ (i + x) = 2 * (2 ^ (x - 1) * 2 ^ i)
      BY Zenon, <1>5, <1>7
    <2>2. 2 * (2 ^ (x - 1) * 2 ^ i) = (2 * 2 ^ (x - 1)) * 2 ^ i
      BY Zenon, <1>8, <1>9
    <2> QED BY Zenon, <1>6, <2>1, <2>2
  <1> QED BY Zenon, <1>1, <1>10

\* A prefix stands for at least one address, the empty one for the whole space.
LEMMA SizeType ==
  ASSUME NEW len \in 0 .. Width
  PROVE  Size(len) \in Nat /\ Size(len) >= 1
  <1>1. Width - len \in 0 .. Width
    BY WidthAssumption
  <1> QED BY Zenon, <1>1, PowerPositive DEF Size

\* A shorter prefix holds a whole number of longer ones: four, if it is two bits shorter.
LEMMA SizeDivides ==
  ASSUME NEW k \in 0 .. Width, NEW l \in 0 .. Width, k <= l
  PROVE  \E q \in Nat : q >= 1 /\ Size(k) = q * Size(l) /\ (k + 2 <= l => q >= 4)
  <1> DEFINE i == Width - l
             j == l - k
  <1>1. i \in Nat /\ j \in Nat /\ i + j <= Width /\ i + j = Width - k /\ j \in 0 .. Width
    BY WidthAssumption
  <1>2. 2 ^ (i + j) = 2 ^ j * 2 ^ i
    BY Zenon, <1>1, PowerSum
  <1>3. Size(k) = 2 ^ j * Size(l)
    BY Zenon, <1>1, <1>2 DEF Size
  <1>4. 2 ^ j \in Nat /\ 2 ^ j >= 1
    BY Zenon, <1>1, PowerPositive
  <1>5. ASSUME k + 2 <= l PROVE 2 ^ j >= 4
    <2>1. /\ j - 2 \in 0 .. Width - 1 /\ j - 1 \in 0 .. Width - 1
          /\ (j - 2) + 1 = j - 1 /\ (j - 1) + 1 = j
      BY <1>1, <1>5, WidthAssumption
    <2> HIDE DEF j
    <2>2. 2 ^ (j - 1) = 2 * 2 ^ (j - 2)
      BY Zenon, <2>1, PowerAssumption
    <2>3. 2 ^ j = 2 * 2 ^ (j - 1)
      BY Zenon, <2>1, PowerAssumption
    <2>4. j - 2 \in 0 .. Width
      BY <2>1, WidthAssumption
    <2>5. 2 ^ (j - 2) \in Nat /\ 2 ^ (j - 2) >= 1
      BY Zenon, <2>4, PowerPositive
    <2> QED BY <2>2, <2>3, <2>5
  <1> QED BY Zenon, <1>3, <1>4, <1>5

\* The multiple of s at or below a.
Floor(a, s) == a - (a % s)
Multiple(a, s) == \E q \in Int : a = q * s

\* An address lies in the block of s addresses that starts at its floor.
LEMMA FloorBlock ==
  ASSUME NEW a \in Int, NEW s \in Nat, s >= 1
  PROVE  /\ Floor(a, s) \in Int /\ Floor(a, s) <= a /\ a < Floor(a, s) + s
         /\ Multiple(Floor(a, s), s)
  <1>1. a = s * (a \div s) + (a % s) /\ a % s \in 0 .. s - 1 /\ a \div s \in Int
    OBVIOUS
  <1>2. Floor(a, s) = (a \div s) * s
    BY <1>1 DEF Floor
  <1>3. Floor(a, s) \in Int /\ Floor(a, s) <= a /\ a < Floor(a, s) + s
    BY <1>1 DEF Floor
  <1> QED BY Zenon, <1>1, <1>2, <1>3 DEF Multiple

\* Multiplication with a positive number is monotone.
LEMMA MultiplyMonotone ==
  ASSUME NEW p \in Int, NEW q \in Int, NEW s \in Nat, s >= 1
  PROVE  /\ p <= q => p * s <= q * s
         /\ p * s < q * s => p + 1 <= q
         /\ p * s = q * s => p = q
         /\ (p + 1) * s = p * s + s
  <1>1. (q - p) * s = q * s - p * s /\ (p + 1) * s = p * s + s
    OBVIOUS
  <1>2. p <= q => (q - p) * s >= 0
    OBVIOUS
  <1>3. q < p => (q - p) * s < 0
    OBVIOUS
  <1>4. p < q => (q - p) * s > 0
    OBVIOUS
  <1> QED BY <1>1, <1>2, <1>3, <1>4

\* It is the only block that holds the address.
LEMMA BlockUnique ==
  ASSUME NEW a \in Int, NEW b \in Int, NEW s \in Nat, s >= 1, Multiple(b, s), b <= a, a < b + s
  PROVE  Floor(a, s) = b
  <1> DEFINE c == Floor(a, s)
  <1>1. c \in Int /\ c <= a /\ a < c + s /\ Multiple(c, s)
    BY Zenon, FloorBlock
  <1> HIDE DEF c
  <1>2. PICK p \in Int : b = p * s
    BY Zenon DEF Multiple
  <1>3. PICK q \in Int : c = q * s
    BY Zenon, <1>1 DEF Multiple
  <1>4. b < c + s /\ c < b + s
    BY <1>1
  <1>5. p * s < (q + 1) * s /\ q * s < (p + 1) * s
    BY <1>2, <1>3, <1>4, MultiplyMonotone
  <1>6. p + 1 <= q + 1 /\ q + 1 <= p + 1
    BY <1>5, MultiplyMonotone
  <1>7. p = q
    BY <1>6
  <1> QED BY Zenon, <1>2, <1>3, <1>7 DEF c

\* A multiple is its own floor.
LEMMA FloorOfMultiple ==
  ASSUME NEW a \in Int, NEW s \in Nat, s >= 1
  PROVE  a = Floor(a, s) <=> Multiple(a, s)
  <1>1. ASSUME Multiple(a, s) PROVE a = Floor(a, s)
    BY <1>1, BlockUnique
  <1> QED BY Zenon, <1>1, FloorBlock

\* Two blocks of one size that are not the same are disjoint.
LEMMA BlocksApart ==
  ASSUME NEW a \in Int, NEW b \in Int, NEW s \in Nat, s >= 1, Multiple(a, s), Multiple(b, s), a # b
  PROVE  a + s <= b \/ b + s <= a
  <1>1. ASSUME ~(a + s <= b \/ b + s <= a) PROVE FALSE
    <2>1. CASE a <= b
      <3>1. Floor(b, s) = a /\ Floor(b, s) = b
        BY <1>1, <2>1, BlockUnique
      <3> QED BY Zenon, <3>1
    <2>2. CASE b <= a
      <3>1. Floor(a, s) = b /\ Floor(a, s) = a
        BY <1>1, <2>2, BlockUnique
      <3> QED BY Zenon, <3>1
    <2> QED BY <2>1, <2>2
  <1> QED BY Zenon, <1>1

\* A block lies within the block of q times its size that holds its first address.
LEMMA BlockNested ==
  ASSUME NEW a \in Int, NEW s \in Nat, NEW q \in Nat, NEW t \in Nat, s >= 1, q >= 1, t = q * s,
         Multiple(a, s)
  PROVE  /\ t >= s /\ Floor(a, t) \in Int /\ Floor(a, t) <= a /\ a + s <= Floor(a, t) + t
         /\ Multiple(Floor(a, t), t) /\ Multiple(Floor(a, t), s)
  <1> DEFINE c == Floor(a, t)
  <1>1. t >= s
    <2>1. 1 * s <= q * s
      BY MultiplyMonotone
    <2> QED BY <2>1
  <1>a. t >= 1
    BY <1>1
  <1>2. c \in Int /\ c <= a /\ a < c + t /\ Multiple(c, t)
    BY Zenon, <1>a, FloorBlock
  <1> HIDE DEF c
  <1>3. PICK p \in Int : c = p * t
    BY Zenon, <1>2 DEF Multiple
  <1>4. PICK r \in Int : a = r * s
    BY Zenon DEF Multiple
  <1>5. c = (p * q) * s /\ p * q \in Int
    BY <1>3
  <1>6. c + t = (p * q + q) * s /\ p * q + q \in Int
    BY <1>5
  <1>7. r + 1 <= p * q + q
    BY <1>2, <1>4, <1>6, MultiplyMonotone
  <1>8. (r + 1) * s <= (p * q + q) * s
    BY <1>6, <1>7, MultiplyMonotone
  <1>9. a + s <= c + t
    BY <1>4, <1>6, <1>8
  <1> QED BY Zenon, <1>1, <1>2, <1>5, <1>9 DEF c, Multiple

\* Sums, differences and multiples of multiples.
LEMMA MultipleSum ==
  ASSUME NEW a \in Int, NEW b \in Int, NEW s \in Nat, Multiple(a, s), Multiple(b, s)
  PROVE  Multiple(a + b, s) /\ Multiple(a - b, s)
  <1>1. PICK p \in Int : a = p * s
    BY Zenon DEF Multiple
  <1>2. PICK q \in Int : b = q * s
    BY Zenon DEF Multiple
  <1>3. a + b = (p + q) * s /\ a - b = (p - q) * s /\ p + q \in Int /\ p - q \in Int
    BY <1>1, <1>2
  <1> QED BY Zenon, <1>3 DEF Multiple

\* A multiple of q * s is one of s.
LEMMA MultipleOfMultiple ==
  ASSUME NEW a \in Int, NEW s \in Nat, NEW q \in Nat, Multiple(a, q * s)
  PROVE  Multiple(a, s)
  <1>1. PICK p \in Int : a = p * (q * s)
    BY Zenon DEF Multiple
  <1>2. a = (p * q) * s /\ p * q \in Int
    BY <1>1
  <1> QED BY Zenon, <1>2 DEF Multiple

\* A remainder of zero is a multiple.
LEMMA NoRemainder ==
  ASSUME NEW a \in Int, NEW s \in Nat, s >= 1
  PROVE  a % s = 0 <=> Multiple(a, s)
  <1>1. a % s = 0 <=> a = Floor(a, s)
    <2>1. a % s \in Int
      OBVIOUS
    <2> QED BY <2>1 DEF Floor
  <1> QED BY Zenon, <1>1, FloorOfMultiple

-----------------------------------------------------------------------------
(* Networks.                                                               *)

\* A network whose address is the first of its block.
Networks == {n \in [ip : Nat, len : 0 .. Width] : n.ip = Mask(n.ip, n.len)}

\* A network begins at a multiple of its size.
LEMMA NetworkBlock ==
  ASSUME NEW n \in Networks
  PROVE  /\ n.ip \in Nat /\ n.len \in 0 .. Width /\ Size(n.len) \in Nat /\ Size(n.len) >= 1
         /\ Multiple(n.ip, Size(n.len)) /\ Mask(n.ip, n.len) = n.ip
  <1>1. n.ip \in Nat /\ n.len \in 0 .. Width /\ n.ip = Mask(n.ip, n.len)
    BY Zenon DEF Networks
  <1>2. Size(n.len) \in Nat /\ Size(n.len) >= 1
    BY Zenon, <1>1, SizeType
  <1>3. n.ip \in Int /\ n.ip = Floor(n.ip, Size(n.len))
    BY <1>1 DEF Floor, Mask
  <1> QED BY Zenon, <1>1, <1>2, <1>3, FloorOfMultiple

\* Two networks share an address exactly when the longer prefix, cut to the shorter one,
\* is that one: blocks are nested or disjoint.
LEMMA Nesting ==
  ASSUME NEW m \in Networks, NEW n \in Networks, m.len <= n.len
  PROVE  m.ip = Mask(n.ip, m.len) <=> ~Disjoint(m, n)
  <1> DEFINE s == Size(n.len)
             t == Size(m.len)
             f == Floor(n.ip, t)
  <1>1. /\ m.ip \in Nat /\ m.len \in 0 .. Width /\ t \in Nat /\ t >= 1 /\ Multiple(m.ip, t)
        /\ n.ip \in Nat /\ n.len \in 0 .. Width /\ s \in Nat /\ s >= 1 /\ Multiple(n.ip, s)
    BY Zenon, NetworkBlock
  <1>2. PICK q \in Nat : q >= 1 /\ t = q * s
    BY Zenon, <1>1, SizeDivides
  <1>3. Mask(n.ip, m.len) = f
    BY Zenon DEF Mask, Floor
  <1>4. /\ Addresses(m) = m.ip .. (m.ip + t - 1)
        /\ Addresses(n) = n.ip .. (n.ip + s - 1)
    BY Zenon DEF Addresses
  <1> HIDE DEF s, t
  <1>0. n.ip \in Int /\ m.ip \in Int
    BY <1>1
  <1>5. f \in Int /\ f <= n.ip /\ n.ip + s <= f + t /\ Multiple(f, t)
    BY Zenon, <1>0, <1>1, <1>2, BlockNested
  <1> HIDE DEF f
  <1>6. ASSUME m.ip = f PROVE ~Disjoint(m, n)
    <2>1. n.ip \in Addresses(m) /\ n.ip \in Addresses(n)
      BY <1>1, <1>4, <1>5, <1>6
    <2> QED BY Zenon, <2>1 DEF Disjoint
  <1>7. ASSUME m.ip # f PROVE Disjoint(m, n)
    <2>1. m.ip + t <= f \/ f + t <= m.ip
      BY Zenon, <1>0, <1>1, <1>5, <1>7, BlocksApart
    <2>2. ASSUME NEW a \in Addresses(m), a \in Addresses(n) PROVE FALSE
      <3>1. a \in Int /\ a >= m.ip /\ a < m.ip + t /\ a >= n.ip /\ a < n.ip + s
        <4>1. a \in m.ip .. (m.ip + t - 1) /\ a \in n.ip .. (n.ip + s - 1)
          BY Zenon, <1>4, <2>2
        <4> QED BY <1>0, <1>1, <4>1
      <3> QED BY <1>1, <1>5, <2>1, <3>1
    <2> QED BY Zenon, <2>2 DEF Disjoint
  <1> QED BY Zenon, <1>3, <1>6, <1>7

\* Overlaps is what it is named for.
LEMMA OverlapsMeans ==
  ASSUME NEW m \in Networks, NEW n \in Networks
  PROVE  Overlaps(m, n) <=> ~Disjoint(m, n)
  <1>1. /\ m.len \in 0 .. Width /\ n.len \in 0 .. Width
        /\ Mask(m.ip, m.len) = m.ip /\ Mask(n.ip, n.len) = n.ip
    BY Zenon, NetworkBlock
  <1>2. CASE m.len < n.len
    <2>1. Overlaps(m, n) <=> m.ip = Mask(n.ip, m.len)
      BY Zenon, <1>1, <1>2 DEF Overlaps
    <2>2. m.len <= n.len
      BY <1>1, <1>2
    <2> QED BY Zenon, <2>1, <2>2, Nesting
  <1>3. CASE ~(m.len < n.len)
    <2>1. Overlaps(m, n) <=> n.ip = Mask(m.ip, n.len)
      BY Zenon, <1>1, <1>3 DEF Overlaps
    <2>2. n.len <= m.len
      BY <1>1, <1>3
    <2>3. Overlaps(m, n) <=> ~Disjoint(n, m)
      BY Zenon, <2>1, <2>2, Nesting
    <2> QED BY Zenon, <2>3 DEF Disjoint
  <1> QED BY Zenon, <1>2, <1>3

-----------------------------------------------------------------------------
(* CheckNetworkConfig.                                                     *)

\* Arithmetic of IP4 is modulo 2 ^ Width.
LEMMA Wrapped ==
  ASSUME NEW a \in Int
  PROVE  /\ 2 ^ Width \in Nat /\ 2 ^ Width >= 1 /\ 2 ^ Width = Size(0)
         /\ Wrap(a) \in 0 .. 2 ^ Width - 1
         /\ Multiple(a - Wrap(a), 2 ^ Width)
         /\ a \in 0 .. 2 ^ Width - 1 => Wrap(a) = a
         /\ a = 2 ^ Width => Wrap(a) = 0
         /\ a < 0 /\ a + 2 ^ Width >= 0 => Wrap(a) = a + 2 ^ Width
  <1> DEFINE t == 2 ^ Width
  <1>1. Width \in 0 .. Width /\ Width - 0 = Width
    BY WidthAssumption
  <1>2. t \in Nat /\ t >= 1 /\ t = Size(0)
    BY Zenon, <1>1, PowerPositive DEF Size
  <1>3. Wrap(a) = a % t
    BY Zenon DEF Wrap
  <1> HIDE DEF t
  <1>4. a % t \in 0 .. t - 1 /\ Floor(a, t) = a - (a % t) /\ a % t = a - Floor(a, t)
    BY <1>2 DEF Floor
  <1>5. Multiple(a - (a % t), t)
    BY Zenon, <1>2, <1>4, FloorBlock
  <1>6. Multiple(0, t) /\ Multiple(t, t) /\ Multiple(0 - t, t)
    <2>1. 0 = 0 * t /\ t = 1 * t /\ 0 - t = (0 - 1) * t /\ 0 - 1 \in Int
      BY <1>2
    <2> QED BY <2>1 DEF Multiple
  <1>7. ASSUME a \in 0 .. t - 1 PROVE a % t = a
    <2>1. Floor(a, t) = 0
      BY <1>2, <1>6, <1>7, BlockUnique
    <2> QED BY <1>4, <2>1
  <1>8. ASSUME a = t PROVE a % t = 0
    <2>1. Floor(a, t) = t
      BY <1>2, <1>6, <1>8, BlockUnique
    <2> QED BY <1>2, <1>4, <1>8, <2>1
  <1>9. ASSUME a < 0, a + t >= 0 PROVE a % t = a + t
    <2>1. Floor(a, t) = 0 - t
      <3>1. 0 - t \in Int /\ 0 - t <= a /\ a < (0 - t) + t
        BY <1>2, <1>9
      <3> QED BY Zenon, <1>2, <1>6, <3>1, BlockUnique
    <2> QED BY <1>2, <1>4, <2>1
  <1> QED BY Zenon, <1>2, <1>3, <1>4, <1>5, <1>7, <1>8, <1>9 DEF t

\* The network of a draft, a block of the address space.
LEMMA DraftNetwork ==
  ASSUME NEW c \in Drafts
  PROVE  /\ c.net \in Networks /\ c.len \in Nat
         /\ c.min \in 0 .. 2 ^ Width - 1 /\ c.max \in 0 .. 2 ^ Width - 1
         /\ c.net.ip + Size(c.net.len) <= 2 ^ Width
  <1>1. c \in [net : [ip : 0 .. 2 ^ Width - 1, len : 0 .. Width], len : Nat,
               min : 0 .. 2 ^ Width - 1, max : 0 .. 2 ^ Width - 1]
    BY Zenon, WidthAssumption
  <1>2. /\ c.net \in [ip : 0 .. 2 ^ Width - 1, len : 0 .. Width] /\ c.len \in Nat
        /\ c.min \in 0 .. 2 ^ Width - 1 /\ c.max \in 0 .. 2 ^ Width - 1
    BY Zenon, <1>1
  <1>3. c.net.ip \in 0 .. 2 ^ Width - 1 /\ c.net.len \in 0 .. Width
    BY Zenon, <1>2
  <1>4. 2 ^ Width \in Nat /\ 2 ^ Width >= 1 /\ 2 ^ Width = Size(0)
    <2>1. 0 \in Int
      OBVIOUS
    <2> QED BY Zenon, <2>1, Wrapped
  <1>5. c.net \in [ip : Nat, len : 0 .. Width]
    <2>1. \A x \in 0 .. 2 ^ Width - 1 : x \in Nat
      BY <1>4
    <2> QED BY Zenon, <1>2, <2>1
  <1>6. c.net \in Networks
    BY Zenon, <1>5, WidthAssumption DEF Networks
  <1>7. c.net.ip + Size(c.net.len) <= 2 ^ Width
    <2>1. 0 \in 0 .. Width /\ 0 <= c.net.len
      BY <1>3, WidthAssumption
    <2>2. PICK q \in Nat : q >= 1 /\ Size(0) = q * Size(c.net.len)
      BY Zenon, <1>3, <2>1, SizeDivides
    <2>3. /\ c.net.ip \in Int /\ Size(c.net.len) \in Nat /\ Size(c.net.len) >= 1
          /\ Multiple(c.net.ip, Size(c.net.len))
      BY <1>3, <1>6, NetworkBlock
    <2>4. c.net.ip + Size(c.net.len) <= Floor(c.net.ip, 2 ^ Width) + 2 ^ Width
      BY Zenon, <1>4, <2>2, <2>3, BlockNested
    <2>5. Wrap(c.net.ip) = c.net.ip
      BY Zenon, <1>3, <2>3, Wrapped
    <2>6. Floor(c.net.ip, 2 ^ Width) = 0
      BY <2>3, <2>5 DEF Floor, Wrap
    <2> QED BY <1>4, <2>3, <2>4, <2>6
  <1> QED BY Zenon, <1>2, <1>6, <1>7

\* The length of a subnet: the network holds at least four.
LEMMA AcceptedLen ==
  ASSUME NEW c \in Drafts, Accepts(c)
  PROVE  SubnetLen(c) \in 2 .. Width - 2 /\ c.net.len + 2 <= SubnetLen(c)
  <1>1. c.net.len \in 0 .. Width /\ c.len \in Nat
    BY Zenon, DraftNetwork, NetworkBlock
  <1>2. IF c.len > 0 THEN c.len <= Width - 2 /\ c.len >= c.net.len + 2 ELSE c.net.len <= Width - 4
    BY Zenon DEF Accepts
  <1> QED BY <1>1, <1>2, WidthAssumption DEF SubnetLen

\* An address the network contains, if it is the first of a subnet, has all of that
\* subnet in the network.
LEMMA ContainsSubnet ==
  ASSUME NEW n \in Networks, NEW a \in Int, NEW len \in 0 .. Width, n.len <= len,
         a = Mask(a, len), Contains(n, a)
  PROVE  n.ip <= a /\ a + Size(len) <= n.ip + Size(n.len)
  <1>1. /\ n.ip \in Nat /\ n.len \in 0 .. Width /\ Size(n.len) \in Nat /\ Size(n.len) >= 1
        /\ Mask(n.ip, n.len) = n.ip
    BY Zenon, NetworkBlock
  <1>2. Size(len) \in Nat /\ Size(len) >= 1
    BY Zenon, SizeType
  <1>3. PICK q \in Nat : q >= 1 /\ Size(n.len) = q * Size(len)
    BY Zenon, <1>1, SizeDivides
  <1>4. n.ip = Floor(a, Size(n.len))
    BY Zenon, <1>1 DEF Contains, Mask, Floor
  <1>5. Multiple(a, Size(len))
    <2>1. a = Floor(a, Size(len))
      BY Zenon DEF Mask, Floor
    <2> QED BY Zenon, <1>2, <2>1, FloorOfMultiple
  <1>6. /\ Floor(a, Size(n.len)) <= a
        /\ a + Size(len) <= Floor(a, Size(n.len)) + Size(n.len)
    BY Zenon, <1>1, <1>2, <1>3, <1>5, BlockNested
  <1> QED BY Zenon, <1>4, <1>6

\* SubnetMax by default: the last subnet of the network, also of the last network.
LEMMA DefaultMax ==
  ASSUME NEW c \in Drafts, Accepts(c)
  PROVE  /\ Wrap(Wrap(c.net.ip + Size(c.net.len)) - Size(SubnetLen(c)))
              = (c.net.ip + Size(c.net.len)) - Size(SubnetLen(c))
         /\ Size(SubnetLen(c)) <= Size(c.net.len)
  <1> DEFINE s == Size(SubnetLen(c))
             t == Size(c.net.len)
             w == 2 ^ Width
             x == c.net.ip + t
  <1> SUFFICES Wrap(Wrap(x) - s) = x - s /\ s <= t
    BY Zenon
  <1>1. SubnetLen(c) \in 0 .. Width /\ c.net.len <= SubnetLen(c)
    <2>1. c.net.len \in 0 .. Width
      BY Zenon, DraftNetwork, NetworkBlock
    <2> QED BY <2>1, AcceptedLen, WidthAssumption
  <1>2. /\ c.net.ip \in Nat /\ c.net.len \in 0 .. Width /\ t \in Nat /\ t >= 1
        /\ x <= w
    BY Zenon, DraftNetwork, NetworkBlock
  <1>3. s \in Nat /\ s >= 1
    BY Zenon, <1>1, SizeType
  <1>4. PICK q \in Nat : q >= 1 /\ t = q * s
    BY Zenon, <1>1, <1>2, SizeDivides
  <1>5. \A y \in Int : /\ w \in Nat
                       /\ y \in 0 .. w - 1 => Wrap(y) = y
                       /\ y = w => Wrap(y) = 0
                       /\ y < 0 /\ y + w >= 0 => Wrap(y) = y + w
    BY Zenon, Wrapped
  <1> HIDE DEF s, t, w
  <1>6. s <= t
    <2>1. 1 * s <= q * s
      BY <1>3, <1>4, MultiplyMonotone
    <2> QED BY <1>3, <1>4, <2>1
  <1>7. x \in Int /\ w \in Nat /\ x - s \in Int /\ 0 - s \in Int
    BY <1>2, <1>3, <1>5
  <1>8. CASE x < w
    <2>1. Wrap(x) = x
      BY <1>2, <1>5, <1>7, <1>8
    <2>2. x - s \in 0 .. w - 1
      BY <1>2, <1>3, <1>6, <1>7, <1>8
    <2>3. Wrap(x - s) = x - s
      BY Zenon, <1>5, <1>7, <2>2
    <2>4. Wrap(Wrap(x) - s) = x - s
      BY Zenon, <2>1, <2>3
    <2> QED BY Zenon, <1>6, <2>4
  <1>9. CASE x = w
    <2>1. Wrap(x) = 0
      BY Zenon, <1>5, <1>7, <1>9
    <2>2. 0 - s < 0 /\ (0 - s) + w >= 0 /\ (0 - s) + w = x - s
      BY <1>2, <1>3, <1>6, <1>7, <1>9
    <2>3. Wrap(0 - s) = x - s
      BY Zenon, <1>5, <1>7, <2>2
    <2>4. Wrap(Wrap(x) - s) = x - s
      BY Zenon, <2>1, <2>3
    <2> QED BY Zenon, <1>6, <2>4
  <1>10. x < w \/ x = w
    BY <1>2, <1>7
  <1> QED BY Zenon, <1>8, <1>9, <1>10

\* The range that is scanned begins and ends with a subnet of the network.
LEMMA AcceptedRange ==
  ASSUME NEW c \in Drafts, Accepts(c)
  PROVE  /\ SubnetMin(c) \in Nat /\ SubnetMax(c) \in Nat
         /\ Multiple(SubnetMin(c), Size(SubnetLen(c)))
         /\ c.net.ip <= SubnetMin(c)
         /\ SubnetMax(c) + Size(SubnetLen(c)) <= c.net.ip + Size(c.net.len)
         /\ c.min = 0 => SubnetMin(c) = c.net.ip + Size(SubnetLen(c))
         /\ c.max = 0 => SubnetMax(c) + Size(SubnetLen(c)) = c.net.ip + Size(c.net.len)
  <1> DEFINE s == Size(SubnetLen(c))
             t == Size(c.net.len)
  <1>1. SubnetLen(c) \in 0 .. Width /\ c.net.len <= SubnetLen(c)
    <2>1. c.net.len \in 0 .. Width
      BY Zenon, DraftNetwork, NetworkBlock
    <2> QED BY <2>1, AcceptedLen, WidthAssumption
  <1>2. /\ c.net \in Networks /\ c.net.ip \in Nat /\ t \in Nat
        /\ c.min \in 0 .. 2 ^ Width - 1 /\ c.max \in 0 .. 2 ^ Width - 1
    BY Zenon, DraftNetwork, NetworkBlock
  <1>3. s \in Nat /\ s >= 1
    BY Zenon, <1>1, SizeType
  <1>a. c.min \in Nat /\ c.max \in Nat
    <2>1. 2 ^ Width \in Nat
      BY PowerPositive, WidthAssumption
    <2> QED BY <1>2, <2>1
  <1>4. /\ SubnetMin(c) = Mask(SubnetMin(c), SubnetLen(c))
        /\ SubnetMax(c) = Mask(SubnetMax(c), SubnetLen(c))
        /\ c.min # 0 => Contains(c.net, c.min)
        /\ c.max # 0 => Contains(c.net, c.max)
    BY Zenon DEF Accepts
  <1>5. /\ c.min = 0 => SubnetMin(c) = c.net.ip + s
        /\ c.min # 0 => SubnetMin(c) = c.min
    BY Zenon DEF SubnetMin
  <1>6. /\ c.max = 0 => SubnetMax(c) = (c.net.ip + t) - s
        /\ c.max # 0 => SubnetMax(c) = c.max
        /\ s <= t
    BY Zenon, DefaultMax DEF SubnetMax
  <1>7. SubnetMin(c) \in Nat /\ SubnetMax(c) \in Nat
    <2> HIDE DEF s, t
    <2> QED BY <1>2, <1>3, <1>a, <1>5, <1>6
  <1>8. SubnetMin(c) \in Int /\ SubnetMax(c) \in Int
    BY <1>7
  <1>9. Multiple(SubnetMin(c), s)
    <2>1. SubnetMin(c) = Floor(SubnetMin(c), s)
      BY Zenon, <1>4 DEF Mask, Floor
    <2> QED BY Zenon, <1>3, <1>8, <2>1, FloorOfMultiple
  <1>10. c.net.ip <= SubnetMin(c)
    <2>1. CASE c.min = 0
      <3> HIDE DEF s
      <3> QED BY <1>2, <1>3, <1>5, <2>1
    <2>2. CASE c.min # 0
      <3>1. Contains(c.net, SubnetMin(c))
        BY Zenon, <1>4, <1>5, <2>2
      <3> QED BY Zenon, <1>1, <1>2, <1>4, <1>8, <3>1, ContainsSubnet
    <2> QED BY Zenon, <2>1, <2>2
  <1>11. c.max = 0 => SubnetMax(c) + s = c.net.ip + t
    <2> HIDE DEF s, t
    <2> QED BY <1>2, <1>3, <1>6
  <1>12. SubnetMax(c) + s <= c.net.ip + t
    <2>1. CASE c.max = 0
      <3> HIDE DEF s, t
      <3> QED BY <1>2, <1>3, <1>8, <1>11, <2>1
    <2>2. CASE c.max # 0
      <3>1. Contains(c.net, SubnetMax(c))
        BY Zenon, <1>4, <1>6, <2>2
      <3> QED BY Zenon, <1>1, <1>2, <1>4, <1>8, <3>1, ContainsSubnet
    <2> QED BY Zenon, <2>1, <2>2
  <1> QED BY Zenon, <1>5, <1>7, <1>9, <1>10, <1>11, <1>12

-----------------------------------------------------------------------------
(* The scan of allocateSubnet.                                             *)

\* The loop visits the multiples of the size of a subnet, also after it wrapped.
LEMMA ScanStep ==
  ASSUME NEW c \in Drafts, Accepts(c), NEW b \in Int
  PROVE  Wrap(b - SubnetMin(c)) % Size(SubnetLen(c)) = 0 <=> Multiple(b, Size(SubnetLen(c)))
  <1> DEFINE s == Size(SubnetLen(c))
             m == SubnetMin(c)
             x == b - m
             y == Wrap(x)
  <1>1. SubnetLen(c) \in 0 .. Width /\ 0 \in 0 .. Width /\ 0 <= SubnetLen(c)
    BY AcceptedLen, WidthAssumption
  <1>2. s \in Nat /\ s >= 1
    BY Zenon, <1>1, SizeType
  <1>3. m \in Int /\ Multiple(m, s)
    BY AcceptedRange
  <1> HIDE DEF s, m
  <1>4. x \in Int
    BY <1>3
  <1>5. y \in 0 .. 2 ^ Width - 1 /\ Multiple(x - y, 2 ^ Width) /\ 2 ^ Width = Size(0)
    BY Zenon, <1>4, Wrapped
  <1> HIDE DEF y
  <1>6. y \in Int
    BY <1>5
  <1>7. PICK q \in Nat : Size(0) = q * s
    BY Zenon, <1>1, SizeDivides DEF s
  <1>8. x - y \in Int /\ Multiple(x - y, q * s)
    BY <1>4, <1>5, <1>6, <1>7
  <1>9. Multiple(x - y, s)
    BY Zenon, <1>2, <1>8, MultipleOfMultiple
  <1>10. y % s = 0 <=> Multiple(y, s)
    BY Zenon, <1>2, <1>6, NoRemainder
  <1>11. ASSUME Multiple(y, s) PROVE Multiple(b, s)
    <2>a. Multiple((x - y) + y, s)
      BY Zenon, <1>2, <1>6, <1>8, <1>9, <1>11, MultipleSum
    <2>b. (x - y) + y = x
      BY <1>4, <1>6
    <2>1. Multiple(x, s)
      BY Zenon, <2>a, <2>b
    <2>2. Multiple(x + m, s) /\ x + m = b
      BY <1>2, <1>3, <1>4, <2>1, MultipleSum
    <2> QED BY Zenon, <2>2
  <1>12. ASSUME Multiple(b, s) PROVE Multiple(y, s)
    <2>1. Multiple(x, s)
      BY Zenon, <1>2, <1>3, <1>12, MultipleSum
    <2>2. Multiple(x - (x - y), s)
      BY Zenon, <1>2, <1>4, <1>8, <1>9, <2>1, MultipleSum
    <2>3. x - (x - y) = y
      BY <1>4, <1>6
    <2> QED BY Zenon, <2>2, <2>3
  <1> QED BY Zenon, <1>10, <1>11, <1>12 DEF s, m, y

\* What is scanned is a subnet, and unless the scan wraps one between SubnetMin and
\* SubnetMax.
LEMMA ScanSubnets ==
  ASSUME NEW c \in Drafts, Accepts(c), NEW n, n \in Scan(c, FALSE) \/ n \in Scan(c, Wraps(c))
  PROVE  /\ n \in Networks /\ n.len = SubnetLen(c)
         /\ n \in Scan(c, FALSE) \/ ~Wraps(c) => n.ip \in SubnetMin(c) .. SubnetMax(c)
  <1> DEFINE s == Size(SubnetLen(c))
  <1>1. SubnetLen(c) \in 0 .. Width
    BY AcceptedLen, WidthAssumption
  <1>2. s \in Nat /\ s >= 1
    BY Zenon, <1>1, SizeType
  <1>3. SubnetMin(c) \in Nat /\ SubnetMax(c) \in Nat /\ 2 ^ Width \in Nat
    BY AcceptedRange, PowerPositive, WidthAssumption
  <1>4. PICK b \in Nat : /\ n = Net(b, SubnetLen(c))
                         /\ Wrap(b - SubnetMin(c)) % s = 0
                         /\ n \in Scan(c, FALSE) \/ ~Wraps(c) => b \in SubnetMin(c) .. SubnetMax(c)
    <2>1. CASE n \in Scan(c, FALSE)
      BY <1>3, <2>1 DEF Scan
    <2>2. CASE n \in Scan(c, Wraps(c)) /\ Wraps(c) /\ n \notin Scan(c, FALSE)
      BY <1>3, <2>2 DEF Scan
    <2>3. CASE n \in Scan(c, Wraps(c)) /\ ~Wraps(c)
      BY <1>3, <2>3 DEF Scan
    <2> QED BY Zenon, <2>1, <2>2, <2>3
  <1>5. b \in Int /\ n.ip = b /\ n.len = SubnetLen(c) /\ n \in [ip : Nat, len : 0 .. Width]
    BY <1>1, <1>4 DEF Net
  <1>6. Multiple(b, s)
    BY Zenon, <1>4, <1>5, ScanStep
  <1>7. b = Mask(b, SubnetLen(c))
    BY Zenon, <1>2, <1>5, <1>6, FloorOfMultiple DEF Mask, Floor
  <1> QED BY Zenon, <1>4, <1>5, <1>7 DEF Networks

\* Every subnet from SubnetMin to SubnetMax is scanned.
LEMMA ScanCovers ==
  ASSUME NEW c \in Drafts, Accepts(c), NEW b \in SubnetMin(c) .. SubnetMax(c),
         b = Mask(b, SubnetLen(c))
  PROVE  Net(b, SubnetLen(c)) \in Scan(c, FALSE) /\ Net(b, SubnetLen(c)) \in Scan(c, Wraps(c))
  <1> DEFINE s == Size(SubnetLen(c))
  <1>1. SubnetLen(c) \in 0 .. Width
    BY AcceptedLen, WidthAssumption
  <1>2. s \in Nat /\ s >= 1
    BY Zenon, <1>1, SizeType
  <1>3. /\ SubnetMin(c) \in Nat /\ SubnetMax(c) \in Nat /\ 2 ^ Width \in Nat /\ b \in Int
        /\ SubnetMax(c) + s <= c.net.ip + Size(c.net.len)
        /\ c.net.ip + Size(c.net.len) <= 2 ^ Width
        /\ c.net.ip \in Nat /\ Size(c.net.len) \in Nat
    BY AcceptedRange, DraftNetwork, NetworkBlock, PowerPositive, WidthAssumption
  <1>4. Wrap(b - SubnetMin(c)) % s = 0
    <2>1. b = Floor(b, s)
      BY Zenon DEF Mask, Floor
    <2>2. Multiple(b, s)
      BY Zenon, <1>2, <1>3, <2>1, FloorOfMultiple
    <2> QED BY Zenon, <1>3, <2>2, ScanStep
  <1>5. b \in 0 .. 2 ^ Width - 1
    <2> HIDE DEF s
    <2> QED BY <1>2, <1>3
  <1>6. Net(b, SubnetLen(c)) \in Scan(c, FALSE)
    BY Zenon, <1>4 DEF Scan
  <1>7. CASE Wraps(c)
    BY Zenon, <1>4, <1>5, <1>6, <1>7 DEF Scan
  <1>8. CASE ~Wraps(c)
    BY Zenon, <1>4, <1>6, <1>8 DEF Scan
  <1> QED BY Zenon, <1>6, <1>7, <1>8

\* A subnet of the range lies in the network.
LEMMA InsideRange ==
  ASSUME NEW c \in Drafts, Accepts(c), NEW n \in Networks, n.len = SubnetLen(c),
         n.ip \in SubnetMin(c) .. SubnetMax(c)
  PROVE  Addresses(n) \subseteq Addresses(c.net)
  <1>1. /\ SubnetMin(c) \in Nat /\ SubnetMax(c) \in Nat /\ c.net.ip <= SubnetMin(c)
        /\ SubnetMax(c) + Size(n.len) <= c.net.ip + Size(c.net.len)
    BY Zenon, AcceptedRange
  <1>2. n.ip \in Nat /\ Size(n.len) \in Nat /\ c.net.ip \in Nat /\ Size(c.net.len) \in Nat
    BY Zenon, DraftNetwork, NetworkBlock
  <1> QED BY <1>1, <1>2 DEF Addresses

-----------------------------------------------------------------------------
(* The invariant.                                                          *)

Subnets == {n \in Networks : n.len \in 2 .. Width - 2}
Leased == [sn : Subnets, sn6 : Subnets \cup {Empty}]
Written == [ip : Nat, len : 0 .. Width]

\* Leases are made of subnets, shorter than what ParseSubnetKey cannot read, so that
\* getSubnets lists every one of them; and no two hosts hold the same.
AInv ==
  /\ config \in Configs
  /\ leases \in [Hosts -> Leased \cup {NoLease}]
  /\ file \in [Hosts -> [sn : Written, sn6 : Written]]
  /\ \A g, h \in Hosts :
       g # h /\ leases[g] # NoLease /\ leases[h] # NoLease => leases[g].sn # leases[h].sn

\* A lease is taken from the range of its family.
Ranged4(l) ==
  l.sn.len = SubnetLen(config.v4) /\ l.sn.ip \in SubnetMin(config.v4) .. SubnetMax(config.v4)
Ranged6(l) ==
  l.sn6 # Empty => /\ config.v6 # Off /\ l.sn6.len = SubnetLen(config.v6)
                   /\ l.sn6.ip \in SubnetMin(config.v6) .. SubnetMax(config.v6)

\* A configuration that CheckNetworkConfig let pass.
LEMMA ValidConfig ==
  ASSUME AInv, Valid(config)
  PROVE  /\ config.v4 \in Drafts /\ Accepts(config.v4)
         /\ config.v6 # Off => config.v6 \in Drafts /\ Accepts(config.v6)
  <1>1. config \in [v4 : Drafts, v6 : Drafts \cup {Off}]
    BY Zenon, WidthAssumption DEF AInv
  <1>2. config.v4 \in Drafts /\ config.v6 \in Drafts \cup {Off}
    BY Zenon, <1>1
  <1> QED BY Zenon, <1>2 DEF Valid

\* The empty network is none that a configuration allows.
LEMMA SubnetNotEmpty ==
  ASSUME NEW n \in Subnets
  PROVE  n # Empty /\ n \in Networks /\ n.len \in 2 .. Width - 2
  <1>1. n \in Networks /\ n.len \in 2 .. Width - 2
    BY Zenon DEF Subnets
  <1>2. n.len # 0
    BY <1>1, WidthAssumption
  <1> QED BY <1>1, <1>2 DEF Empty, Net

\* A lease has a subnet, so it is not the absent one.
LEMMA LeaseFields ==
  ASSUME NEW l \in Leased
  PROVE  /\ l.sn \in Subnets /\ l.sn6 \in Subnets \cup {Empty}
         /\ l = Lease(l.sn, l.sn6) /\ l # NoLease
  <1>1. /\ l.sn \in Subnets /\ l.sn6 \in Subnets \cup {Empty}
        /\ l = Lease(l.sn, l.sn6)
    BY Zenon DEF Leased, Lease
  <1>2. l.sn # Empty
    BY Zenon, <1>1, SubnetNotEmpty
  <1>3. NoLease.sn = Empty
    BY Zenon DEF NoLease, Lease
  <1> QED BY Zenon, <1>1, <1>2, <1>3

\* getSubnets lists every lease there is.
LEMMA ListsAll ==
  ASSUME AInv
  PROVE  /\ Listed \subseteq Leased
         /\ \A g \in Hosts : leases[g] # NoLease => leases[g] \in Listed
  <1>1. \A g \in Hosts : leases[g] \in Leased \cup {NoLease}
    BY Zenon DEF AInv
  <1>2. ASSUME NEW l \in Leased PROVE ParseSubnetKey(l)
    <2>1. l.sn.len \in 2 .. Width - 2
      BY Zenon, LeaseFields, SubnetNotEmpty
    <2>2. l.sn6.len \in 2 .. Width - 2 \/ l.sn6.len = 0
      <3>1. Empty.len = 0
        BY Zenon DEF Empty, Net
      <3> QED BY Zenon, <3>1, LeaseFields, SubnetNotEmpty
    <2> QED BY <2>1, <2>2, WidthAssumption DEF ParseSubnetKey
  <1>3. \A g \in Hosts : leases[g] # NoLease => leases[g] \in Listed
    BY Zenon, <1>1, <1>2 DEF Listed
  <1>4. ASSUME NEW t \in Listed PROVE t \in Leased
    BY Zenon, <1>1 DEF Listed
  <1> QED BY Zenon, <1>3, <1>4

\* What ParseCIDR reads is a network.
LEMMA ReadNetwork ==
  ASSUME NEW n \in Written
  PROVE  Net(Mask(n.ip, n.len), n.len) \in Networks
  <1> DEFINE s == Size(n.len)
             f == Floor(n.ip, s)
  <1>1. n.ip \in Nat /\ n.len \in 0 .. Width
    BY Zenon DEF Written
  <1>2. s \in Nat /\ s >= 1
    BY Zenon, <1>1, SizeType
  <1> HIDE DEF s
  <1>3. f \in Int /\ f <= n.ip /\ n.ip < f + s /\ Multiple(f, s)
    BY <1>1, <1>2, FloorBlock
  <1>4. f = Floor(f, s)
    BY Zenon, <1>2, <1>3, FloorOfMultiple
  <1>5. f \in Nat
    <2> HIDE DEF f
    <2>1. PICK p \in Int : f = p * s
      BY Zenon, <1>3 DEF Multiple
    <2>2. 0 * s < (p + 1) * s
      BY <1>1, <1>2, <1>3, <2>1, MultiplyMonotone
    <2>3. 0 + 1 <= p + 1
      BY <1>2, <2>2, MultiplyMonotone
    <2>4. 0 * s <= p * s
      BY <1>2, <2>3, MultiplyMonotone
    <2> QED BY <1>2, <1>3, <2>1, <2>4
  <1>6. Mask(n.ip, n.len) = f /\ Mask(f, n.len) = Floor(f, s)
    BY Zenon DEF Mask, Floor, s
  <1> HIDE DEF f
  <1>7. /\ Net(f, n.len) \in [ip : Nat, len : 0 .. Width]
        /\ Net(f, n.len).ip = f /\ Net(f, n.len).len = n.len
    BY Zenon, <1>1, <1>5 DEF Net
  <1> QED BY Zenon, <1>4, <1>6, <1>7 DEF Networks

\* A network of the configured length, in the range, is a subnet.
LEMMA RangedSubnet ==
  ASSUME NEW c \in Drafts, Accepts(c), NEW n \in Networks, InRange(c, n)
  PROVE  /\ n \in Subnets /\ n.len = SubnetLen(c)
         /\ n.ip \in SubnetMin(c) .. SubnetMax(c)
  <1>1. /\ n.ip >= SubnetMin(c) /\ n.ip <= SubnetMax(c) /\ n.len = SubnetLen(c)
    BY Zenon DEF InRange
  <1>2. SubnetLen(c) \in 2 .. Width - 2
    BY Zenon, AcceptedLen
  <1>3. SubnetMin(c) \in Nat /\ SubnetMax(c) \in Nat /\ n.ip \in Nat
    BY Zenon, AcceptedRange, NetworkBlock
  <1>4. n.ip \in SubnetMin(c) .. SubnetMax(c)
    BY <1>1, <1>3
  <1> QED BY Zenon, <1>1, <1>2, <1>4 DEF Subnets

\* The subnet of the last run is taken if it is in the range and nobody holds it.
LEMMA Previous ==
  ASSUME AInv, Valid(config), NEW h \in Hosts, NEW l \in PreviousSubnet(h)
  PROVE  /\ l \in Leased /\ Ranged4(l) /\ Ranged6(l)
         /\ l = ReadSubnetFile(file[h])
         /\ \A t \in Listed : l.sn # t.sn
  <1>1. /\ l = ReadSubnetFile(file[h]) /\ \A t \in Listed : l.sn # t.sn
        /\ Compatible(config, l)
    BY Zenon DEF PreviousSubnet
  <1>2. file[h].sn \in Written /\ file[h].sn6 \in Written
    <2>1. file[h] \in [sn : Written, sn6 : Written]
      BY Zenon DEF AInv
    <2> QED BY Zenon, <2>1
  <1>3. l = Lease(l.sn, l.sn6) /\ l.sn \in Networks /\ l.sn6 \in Networks
    <2>1. /\ l.sn = Net(Mask(file[h].sn.ip, file[h].sn.len), file[h].sn.len)
          /\ l.sn6 = Net(Mask(file[h].sn6.ip, file[h].sn6.len), file[h].sn6.len)
          /\ l = Lease(l.sn, l.sn6)
      BY Zenon, <1>1 DEF ReadSubnetFile, Lease
    <2> QED BY Zenon, <1>2, <2>1, ReadNetwork
  <1>4. l.sn \in Subnets /\ Ranged4(l)
    <2>1. InRange(config.v4, l.sn)
      BY Zenon, <1>1 DEF Compatible
    <2> QED BY Zenon, <1>3, <2>1, ValidConfig, RangedSubnet DEF Ranged4
  <1>5. l.sn6 \in Subnets \cup {Empty} /\ Ranged6(l)
    <2>1. CASE config.v6 = Off
      <3>1. l.sn6 = Empty
        BY Zenon, <1>1, <2>1 DEF Compatible
      <3> QED BY Zenon, <3>1 DEF Ranged6
    <2>2. CASE config.v6 # Off
      <3>1. InRange(config.v6, l.sn6)
        BY Zenon, <1>1, <2>2 DEF Compatible
      <3>2. /\ l.sn6 \in Subnets /\ l.sn6.len = SubnetLen(config.v6)
            /\ l.sn6.ip \in SubnetMin(config.v6) .. SubnetMax(config.v6)
        BY Zenon, <1>3, <2>2, <3>1, ValidConfig, RangedSubnet
      <3> QED BY Zenon, <2>2, <3>2 DEF Ranged6
    <2> QED BY Zenon, <2>1, <2>2
  <1>6. l \in Leased
    BY Zenon, <1>3, <1>4, <1>5 DEF Leased, Lease
  <1> QED BY Zenon, <1>1, <1>4, <1>5, <1>6

\* What the scan offers is a subnet clear of all that is taken.
LEMMA AvailableClear ==
  ASSUME NEW c \in Drafts, Accepts(c), NEW taken, NEW n,
         n \in Available(c, taken, FALSE) \/ n \in Available(c, taken, Wraps(c))
  PROVE  /\ n \in Subnets /\ n.len = SubnetLen(c)
         /\ n \in Available(c, taken, FALSE) \/ ~Wraps(c) => n.ip \in SubnetMin(c) .. SubnetMax(c)
         /\ \A t \in taken : t \in Networks => Disjoint(n, t)
  <1>1. /\ n \in Available(c, taken, FALSE) => n \in Scan(c, FALSE)
        /\ n \in Available(c, taken, Wraps(c)) => n \in Scan(c, Wraps(c))
        /\ \A t \in taken : ~Overlaps(n, t)
    BY Zenon DEF Available
  <1>2. /\ n \in Networks /\ n.len = SubnetLen(c)
        /\ n \in Scan(c, FALSE) \/ ~Wraps(c) => n.ip \in SubnetMin(c) .. SubnetMax(c)
    BY Zenon, <1>1, ScanSubnets
  <1>3. SubnetLen(c) \in 2 .. Width - 2
    BY Zenon, AcceptedLen
  <1>4. n \in Subnets
    BY Zenon, <1>2, <1>3 DEF Subnets
  <1>5. \A t \in taken : t \in Networks => Disjoint(n, t)
    BY Zenon, <1>1, <1>2, OverlapsMeans
  <1> QED BY Zenon, <1>1, <1>2, <1>4, <1>5

\* allocateSubnet picks subnets that share no address with any lease in etcd.
LEMMA Allocated ==
  ASSUME AInv, Valid(config), NEW l \in AllocateSubnet
  PROVE  /\ l \in Leased /\ (~Wraps(config.v4) => Ranged4(l)) /\ Ranged6(l)
         /\ \A t \in Listed : /\ Disjoint(l.sn, t.sn)
                              /\ t.sn6 # Empty /\ l.sn6 # Empty => Disjoint(l.sn6, t.sn6)
  <1> DEFINE taken4 == {t.sn : t \in Listed}
             taken6 == {t.sn6 : t \in Listed}
             four == Available(config.v4, taken4, Wraps(config.v4))
             six == IF config.v6 = Off THEN {Empty} ELSE Available(config.v6, taken6, FALSE)
             n == l.sn
             m == l.sn6
  <1>1. l \in [sn : four, sn6 : six]
    BY Zenon DEF AllocateSubnet
  <1>2. n \in four /\ m \in six /\ l = Lease(n, m)
    <2> HIDE DEF four, six
    <2> QED BY Zenon, <1>1 DEF Lease
  <1>3. \A t \in Listed : t \in Leased
    BY Zenon, ListsAll
  <1>4. /\ n \in Subnets /\ n.len = SubnetLen(config.v4)
        /\ ~Wraps(config.v4) => n.ip \in SubnetMin(config.v4) .. SubnetMax(config.v4)
        /\ \A t \in taken4 : t \in Networks => Disjoint(n, t)
    BY Zenon, <1>2, ValidConfig, AvailableClear
  <1>6. ASSUME NEW t \in Listed PROVE Disjoint(l.sn, t.sn)
    <2>1. t.sn \in taken4 /\ t.sn \in Networks
      BY Zenon, <1>3, LeaseFields, SubnetNotEmpty
    <2> QED BY Zenon, <1>4, <2>1
  <1>7. /\ m \in Subnets \cup {Empty} /\ Ranged6(l)
        /\ \A t \in Listed : t.sn6 # Empty /\ m # Empty => Disjoint(m, t.sn6)
    <2>1. CASE config.v6 = Off
      <3>1. m = Empty
        BY Zenon, <1>2, <2>1
      <3> QED BY Zenon, <3>1 DEF Ranged6
    <2>2. CASE config.v6 # Off
      <3>1. m \in Available(config.v6, taken6, FALSE)
        BY Zenon, <1>2, <2>2
      <3>2. /\ m \in Subnets /\ m.len = SubnetLen(config.v6)
            /\ m.ip \in SubnetMin(config.v6) .. SubnetMax(config.v6)
            /\ \A t \in taken6 : t \in Networks => Disjoint(m, t)
        BY Zenon, <2>2, <3>1, ValidConfig, AvailableClear
      <3>3. ASSUME NEW t \in Listed, t.sn6 # Empty PROVE Disjoint(m, t.sn6)
        <4>1. t.sn6 \in taken6 /\ t.sn6 \in Networks
          BY Zenon, <1>3, <3>3, LeaseFields, SubnetNotEmpty
        <4> QED BY Zenon, <3>2, <4>1
      <3> QED BY Zenon, <2>2, <3>2, <3>3 DEF Ranged6
    <2> QED BY Zenon, <2>1, <2>2
  <1>8. l \in Leased
    BY Zenon, <1>2, <1>4, <1>7 DEF Leased, Lease
  <1> QED BY Zenon, <1>4, <1>6, <1>7, <1>8 DEF Ranged4

\* Networks without a common address are different.
LEMMA DisjointDiffer ==
  ASSUME NEW m \in Networks, NEW n, Disjoint(m, n)
  PROVE  m # n
  <1>1. m.ip \in Nat /\ Size(m.len) \in Nat /\ Size(m.len) >= 1
    BY Zenon, NetworkBlock
  <1>2. m.ip \in Addresses(m)
    BY <1>1 DEF Addresses
  <1> QED BY Zenon, <1>2 DEF Disjoint

\* What a host takes is nobody else's.
LEMMA Chosen ==
  ASSUME AInv, Valid(config), NEW h \in Hosts, NEW l \in Choices(h)
  PROVE  /\ l \in Leased /\ (~Wraps(config.v4) => Ranged4(l)) /\ Ranged6(l)
         /\ \A t \in Listed : l.sn # t.sn
         /\ l # ReadSubnetFile(file[h]) => l \in AllocateSubnet
  <1>1. CASE l \in PreviousSubnet(h)
    BY Zenon, <1>1, Previous
  <1>2. CASE l \in AllocateSubnet
    <2>1. l.sn \in Networks
      BY Zenon, <1>2, Allocated, LeaseFields, SubnetNotEmpty
    <2> QED BY Zenon, <1>2, <2>1, Allocated, DisjointDiffer
  <1> QED BY Zenon, <1>1, <1>2 DEF Choices

\* WriteSubnetFile leaves numbers in the file.
LEMMA FileType ==
  ASSUME AInv, NEW h \in Hosts, NEW l \in Leased
  PROVE  [file EXCEPT ![h] = WriteSubnetFile(l)] \in [Hosts -> [sn : Written, sn6 : Written]]
  <1>1. ASSUME NEW n \in Subnets \cup {Empty} PROVE Incremented(n) \in Written
    <2>1. CASE n = Empty
      BY <2>1, WidthAssumption DEF Incremented, Written, Empty, Net
    <2>2. CASE n \in Subnets
      <3>1. n.ip \in Nat /\ n.len \in 0 .. Width
        BY Zenon, <2>2, SubnetNotEmpty, NetworkBlock DEF Networks
      <3>2. n # Empty
        BY Zenon, <2>2, SubnetNotEmpty
      <3>3. Incremented(n) = Net(n.ip + 1, n.len)
        BY Zenon, <3>2 DEF Incremented
      <3> QED BY <3>1, <3>3 DEF Written, Net
    <2> QED BY Zenon, <2>1, <2>2
  <1>2. Incremented(l.sn) \in Written /\ Incremented(l.sn6) \in Written
    BY Zenon, <1>1, LeaseFields
  <1>3. WriteSubnetFile(l) \in [sn : Written, sn6 : Written]
    BY Zenon, <1>2 DEF WriteSubnetFile, Lease
  <1> QED BY Zenon, <1>3 DEF AInv

\* There are no leases at first, and no file.
LEMMA AInvInit == Init => AInv
  <1> SUFFICES ASSUME Init PROVE AInv
    BY Zenon
  <1>1. NoLease \in [sn : Written, sn6 : Written]
    BY WidthAssumption DEF NoLease, Lease, Empty, Net, Written
  <1> QED BY Zenon, <1>1 DEF Init, AInv

\* No step of a host or of the operator breaks it.
LEMMA AInvStep == AInv /\ [Next]_vars => AInv'
  <1> SUFFICES ASSUME AInv, [Next]_vars PROVE AInv'
    BY Zenon
  <1>1. ASSUME NEW h \in Hosts, Reuse(h) PROVE AInv'
    <2>1. leases[h] \in Leased
      BY Zenon, <1>1, ListsAll DEF Reuse, Owned
    <2> QED BY Zenon, <1>1, <2>1, FileType DEF Reuse, AInv
  <1>2. ASSUME NEW h \in Hosts, Create(h) PROVE AInv'
    <2>1. PICK l \in Choices(h) : /\ leases' = [leases EXCEPT ![h] = l]
                                  /\ file' = [file EXCEPT ![h] = WriteSubnetFile(l)]
      BY Zenon, <1>2 DEF Create
    <2>2. Valid(config) /\ config' = config
      BY Zenon, <1>2 DEF Create
    <2>3. l \in Leased /\ \A t \in Listed : l.sn # t.sn
      BY Zenon, <2>2, Chosen
    <2>4. file' \in [Hosts -> [sn : Written, sn6 : Written]]
      BY Zenon, <2>1, <2>3, FileType
    <2>5. leases' \in [Hosts -> Leased \cup {NoLease}]
      BY Zenon, <2>1, <2>3 DEF AInv
    <2>6. \A g \in Hosts \ {h} : leases[g] # NoLease => l.sn # leases[g].sn
      BY Zenon, <2>3, ListsAll
    <2>7. leases'[h] = l /\ \A g \in Hosts \ {h} : leases'[g] = leases[g]
      BY Zenon, <2>1 DEF AInv
    <2>8. \A g, k \in Hosts : g # k /\ leases'[g] # NoLease /\ leases'[k] # NoLease
                                => leases'[g].sn # leases'[k].sn
      BY Zenon, <2>6, <2>7 DEF AInv
    <2> QED BY Zenon, <2>2, <2>4, <2>5, <2>8 DEF AInv
  <1>3. ASSUME NEW h \in Hosts, Fail(h) \/ Expire(h) PROVE AInv'
    <2>1. leases' = [leases EXCEPT ![h] = NoLease] /\ config' = config /\ file' = file
      BY Zenon, <1>3 DEF Fail, Expire
    <2> QED BY Zenon, <2>1 DEF AInv
  <1>4. CASE Reconfigure
    BY Zenon, <1>4 DEF Reconfigure, AInv
  <1>5. CASE UNCHANGED vars
    BY Zenon, <1>5 DEF vars, AInv
  <1> QED BY Zenon, <1>1, <1>2, <1>3, <1>4, <1>5 DEF Next

\* The invariant holds at all times.
LEMMA AInvAlways == Spec => []AInv
  BY AInvInit, AInvStep, PTL DEF Spec

-----------------------------------------------------------------------------
(* The leases of the cluster.                                              *)

\* Two subnets of one length are equal or share no address.
LEMMA EqualLengths ==
  ASSUME NEW m \in Networks, NEW n \in Networks, m # n, m.len = n.len
  PROVE  Disjoint(m, n)
  <1>1. m.ip # n.ip
    BY DEF Networks
  <1>2. /\ m.ip = Mask(m.ip, m.len) /\ n.ip = Mask(n.ip, m.len)
        /\ Overlaps(m, n) <=> Mask(m.ip, m.len) = Mask(n.ip, m.len)
    BY Zenon DEF Networks, Overlaps
  <1> QED BY Zenon, <1>1, <1>2, OverlapsMeans

\* Two hosts' IPv4 leases of the same SubnetLen share no address, whatever was
\* acquired, expired, remembered in subnet.env or reconfigured before.
THEOREM EqualSubnetsApart == Spec => []EqualLengthsDisjoint
  <1>1. AInv => EqualLengthsDisjoint
    <2> SUFFICES ASSUME AInv, NEW g \in Hosts, NEW h \in Hosts, g # h,
                        leases[g].sn # Empty, leases[h].sn # Empty,
                        leases[g].sn.len = leases[h].sn.len
                 PROVE  Disjoint(leases[g].sn, leases[h].sn)
      BY Zenon DEF EqualLengthsDisjoint
    <2>1. NoLease.sn = Empty
      BY Zenon DEF NoLease, Lease
    <2>2. /\ leases[g] \in Leased /\ leases[h] \in Leased
          /\ leases[g] # NoLease /\ leases[h] # NoLease
      BY Zenon, <2>1 DEF AInv
    <2>3. leases[g].sn \in Networks /\ leases[h].sn \in Networks
      BY Zenon, <2>2, LeaseFields, SubnetNotEmpty
    <2>4. leases[g].sn # leases[h].sn
      BY Zenon, <2>2 DEF AInv
    <2> QED BY Zenon, <2>3, <2>4, EqualLengths
  <1> QED BY <1>1, AInvAlways, PTL

\* A lease changes to another one only when its host creates it.
LEMMA TakenBy ==
  ASSUME AInv, [Next]_vars, NEW h \in Hosts, leases'[h] \notin {leases[h], NoLease}
  PROVE  /\ Valid(config) /\ leases'[h] \in Choices(h)
         /\ \A g \in Hosts \ {h} : leases'[g] = leases[g]
  <1>1. leases' # leases
    BY Zenon
  <1>2. PICK g \in Hosts : Reuse(g) \/ Create(g) \/ Fail(g) \/ Expire(g)
    BY Zenon, <1>1 DEF Next, Reconfigure, vars
  <1>3. leases \in [Hosts -> Leased \cup {NoLease}]
    BY Zenon DEF AInv
  <1>4. ~Fail(g) /\ ~Expire(g) /\ ~Reuse(g)
    BY Zenon, <1>1, <1>3 DEF Fail, Expire, Reuse
  <1>5. PICK l \in Choices(g) : leases' = [leases EXCEPT ![g] = l]
    BY Zenon, <1>2, <1>4 DEF Create
  <1>6. g = h
    BY Zenon, <1>3, <1>5
  <1> QED BY Zenon, <1>2, <1>3, <1>4, <1>5, <1>6 DEF Create

\* A subnet that allocateSubnet picks shares no address, in either family, with the
\* lease of any other host, of whatever length that is.
THEOREM AllocatedIsFree == Spec => FreshIsFree
  <1>1. AInv /\ [Next]_vars =>
          [\A h \in Hosts :
             (leases'[h] \notin {leases[h], NoLease, ReadSubnetFile(file[h])}) =>
               \A g \in Hosts \ {h} :
                 /\ leases[g].sn # Empty => Disjoint(leases'[h].sn, leases[g].sn)
                 /\ (leases[g].sn6 # Empty /\ leases'[h].sn6 # Empty)
                      => Disjoint(leases'[h].sn6, leases[g].sn6)]_vars
    <2> SUFFICES ASSUME AInv, [Next]_vars, NEW h \in Hosts,
                        leases'[h] \notin {leases[h], NoLease, ReadSubnetFile(file[h])},
                        NEW g \in Hosts \ {h}
                 PROVE  /\ leases[g].sn # Empty => Disjoint(leases'[h].sn, leases[g].sn)
                        /\ (leases[g].sn6 # Empty /\ leases'[h].sn6 # Empty)
                             => Disjoint(leases'[h].sn6, leases[g].sn6)
      BY Zenon
    <2>1. Valid(config) /\ leases'[h] \in AllocateSubnet
      BY Zenon, TakenBy, Chosen
    <2>2. NoLease.sn = Empty /\ NoLease.sn6 = Empty
      BY Zenon DEF NoLease, Lease
    <2>3. leases[g] # NoLease => leases[g] \in Listed
      BY Zenon, ListsAll
    <2> QED BY Zenon, <2>1, <2>2, <2>3, Allocated
  <1> QED BY <1>1, AInvAlways, PTL DEF Spec, FreshIsFree

\* Every address of a lease that is taken, allocated or remembered, belongs to the
\* configured network, unless the IPv4 range ends with the last address there is.
THEOREM TakenInsideNetwork == Spec => InsideNetwork
  <1>1. AInv /\ [Next]_vars =>
          [\A h \in Hosts :
             (leases'[h] \notin {leases[h], NoLease} /\ ~Wraps(config.v4)) =>
               /\ Addresses(leases'[h].sn) \subseteq Addresses(config.v4.net)
               /\ leases'[h].sn6 # Empty =>
                    Addresses(leases'[h].sn6) \subseteq Addresses(config.v6.net)]_vars
    <2> SUFFICES ASSUME AInv, [Next]_vars, NEW h \in Hosts,
                        leases'[h] \notin {leases[h], NoLease}, ~Wraps(config.v4)
                 PROVE  /\ Addresses(leases'[h].sn) \subseteq Addresses(config.v4.net)
                        /\ leases'[h].sn6 # Empty =>
                             Addresses(leases'[h].sn6) \subseteq Addresses(config.v6.net)
      BY Zenon
    <2> DEFINE l == leases'[h]
    <2>1. Valid(config) /\ l \in Leased /\ Ranged4(l) /\ Ranged6(l)
      BY Zenon, TakenBy, Chosen
    <2> HIDE DEF l
    <2>2. Addresses(l.sn) \subseteq Addresses(config.v4.net)
      BY Zenon, <2>1, ValidConfig, LeaseFields, SubnetNotEmpty, InsideRange DEF Ranged4
    <2>3. ASSUME l.sn6 # Empty
          PROVE  Addresses(l.sn6) \subseteq Addresses(config.v6.net)
      <3>1. l.sn6 \in Networks
        BY Zenon, <2>1, <2>3, LeaseFields, SubnetNotEmpty
      <3> QED BY Zenon, <2>1, <2>3, <3>1, ValidConfig, InsideRange DEF Ranged6
    <2> QED BY Zenon, <2>2, <2>3 DEF l
  <1> QED BY <1>1, AInvAlways, PTL DEF Spec, InsideNetwork

-----------------------------------------------------------------------------
(* The range of a configuration that CheckNetworkConfig accepts.           *)

\* The next multiple of s is s away.
LEMMA MultipleGap ==
  ASSUME NEW a \in Int, NEW b \in Int, NEW s \in Nat, s >= 1,
         Multiple(a, s), Multiple(b, s), a < b
  PROVE  a + s <= b
  <1>1. PICK p \in Int : a = p * s
    BY Zenon DEF Multiple
  <1>2. PICK q \in Int : b = q * s
    BY Zenon DEF Multiple
  <1>3. p + 1 <= q
    BY Zenon, <1>1, <1>2, MultiplyMonotone
  <1>4. (p + 1) * s <= q * s /\ (p + 1) * s = p * s + s
    BY <1>3, MultiplyMonotone
  <1> QED BY Zenon, <1>1, <1>2, <1>4

\* A network holds at least four subnets of an accepted SubnetLen.
LEMMA FourSubnets ==
  ASSUME NEW c \in Drafts, Accepts(c)
  PROVE  4 * Size(SubnetLen(c)) <= Size(c.net.len)
  <1>1. c.net.len \in 0 .. Width
    BY Zenon, DraftNetwork, NetworkBlock
  <1>2. SubnetLen(c) \in 0 .. Width /\ c.net.len <= SubnetLen(c) /\ c.net.len + 2 <= SubnetLen(c)
    BY <1>1, AcceptedLen, WidthAssumption
  <1>3. PICK q \in Nat : q >= 4 /\ Size(c.net.len) = q * Size(SubnetLen(c))
    BY Zenon, <1>1, <1>2, SizeDivides
  <1>4. Size(SubnetLen(c)) \in Nat /\ Size(SubnetLen(c)) >= 1
    BY Zenon, <1>2, SizeType
  <1>5. 4 * Size(SubnetLen(c)) <= q * Size(SubnetLen(c))
    BY <1>3, <1>4, MultiplyMonotone
  <1> QED BY Zenon, <1>3, <1>5

\* With the defaults the range is the network without its first subnet.
LEMMA DefaultRange ==
  ASSUME NEW c \in Drafts, Accepts(c), c.min = 0, c.max = 0,
         NEW a \in Int, a = Mask(a, SubnetLen(c))
  PROVE  a \in SubnetMin(c) .. SubnetMax(c) <=> a \in Addresses(c.net) /\ a # c.net.ip
  <1> DEFINE s == Size(SubnetLen(c))
             t == Size(c.net.len)
             ip == c.net.ip
  <1>1. SubnetLen(c) \in 0 .. Width
    BY AcceptedLen, WidthAssumption
  <1>2. s \in Nat /\ s >= 1
    BY Zenon, <1>1, SizeType
  <1>3. /\ SubnetMin(c) \in Nat /\ SubnetMax(c) \in Nat
        /\ SubnetMin(c) = ip + s /\ SubnetMax(c) + s = ip + t
        /\ Multiple(SubnetMin(c), s)
    BY Zenon, AcceptedRange
  <1>4. ip \in Nat /\ t \in Nat
    BY Zenon, DraftNetwork, NetworkBlock
  <1>5. Multiple(a, s) /\ Multiple(SubnetMax(c), s)
    <2>1. a = Floor(a, s) /\ SubnetMax(c) = Floor(SubnetMax(c), s)
      BY Zenon DEF Mask, Floor, Accepts
    <2>2. SubnetMax(c) \in Int
      BY <1>3
    <2> QED BY Zenon, <1>2, <2>1, <2>2, FloorOfMultiple
  <1>6. Multiple(s, s)
    BY <1>2 DEF Multiple
  <1>7. s \in Int /\ SubnetMin(c) \in Int /\ SubnetMax(c) \in Int
    BY <1>2, <1>3
  <1>8. Multiple(SubnetMin(c) - s, s) /\ Multiple(SubnetMax(c) + s, s)
    BY Zenon, <1>2, <1>3, <1>5, <1>6, <1>7, MultipleSum
  <1>a. Addresses(c.net) = ip .. (ip + t - 1)
    BY Zenon DEF Addresses
  <1> HIDE DEF s, t, ip
  <1>9. SubnetMin(c) - s = ip /\ SubnetMax(c) + s = ip + t /\ ip \in Int /\ ip + t \in Int
    BY <1>2, <1>3, <1>4
  <1>10. Multiple(ip, s) /\ Multiple(ip + t, s)
    BY Zenon, <1>8, <1>9
  <1>11. ip < a => ip + s <= a
    BY Zenon, <1>2, <1>5, <1>9, <1>10, MultipleGap
  <1>12. a < ip + t => a + s <= ip + t
    BY Zenon, <1>2, <1>5, <1>9, <1>10, MultipleGap
  <1>13. a \in SubnetMin(c) .. SubnetMax(c) <=> a \in ip .. (ip + t - 1) /\ a # ip
    BY <1>2, <1>3, <1>4, <1>11, <1>12
  <1> QED BY Zenon, <1>13, <1>a DEF ip

-----------------------------------------------------------------------------
(* A free subnet is found.                                                 *)

\* Of the free subnets one is visited before all others.
LEMMA FirstFree ==
  ASSUME NEW free, NEW n \in free, \A m \in free : m.ip \in Nat, NEW a \in Int
  PROVE  \E f \in free : {m \in free : Wrap(m.ip - a) < Wrap(f.ip - a)} = {}
  <1> DEFINE T == {Wrap(m.ip - a) : m \in free}
  <1>1. ASSUME NEW m \in free PROVE Wrap(m.ip - a) \in Nat
    <2>1. m.ip - a \in Int
      OBVIOUS
    <2>2. Wrap(m.ip - a) \in 0 .. 2 ^ Width - 1
      BY Zenon, <2>1, Wrapped
    <2> QED BY <2>2
  <1>2. T \in SUBSET Nat /\ Wrap(n.ip - a) \in T
    BY Zenon, <1>1
  <1>3. PICK x \in T : \A y \in T : x <= y
    BY Zenon, <1>2, LeastNat
  <1>4. PICK f \in free : x = Wrap(f.ip - a)
    BY Zenon, <1>3
  <1>5. \A m \in free : Wrap(f.ip - a) <= Wrap(m.ip - a)
    BY Zenon, <1>3, <1>4
  <1>6. \A m \in free : ~(Wrap(m.ip - a) < Wrap(f.ip - a))
    BY <1>1, <1>5
  <1> QED BY Zenon, <1>6

\* From here on the library of finite sets is in use.
INSTANCE FiniteSetTheorems

\* The scan offers something if one subnet of the range is clear of what is taken.
LEMMA AvailableFound ==
  ASSUME NEW c \in Drafts, Accepts(c), NEW taken, taken \subseteq Networks,
         NEW a \in SubnetMin(c) .. SubnetMax(c), a = Mask(a, SubnetLen(c)),
         \A t \in taken : Disjoint(Net(a, SubnetLen(c)), t)
  PROVE  Available(c, taken, FALSE) # {} /\ Available(c, taken, Wraps(c)) # {}
  <1> DEFINE n == Net(a, SubnetLen(c))
             min == SubnetMin(c)
             freeF == {m \in Scan(c, FALSE) : \A t \in taken : ~Overlaps(m, t)}
             freeW == {m \in Scan(c, Wraps(c)) : \A t \in taken : ~Overlaps(m, t)}
  <1>1. n \in Scan(c, FALSE) /\ n \in Scan(c, Wraps(c))
    BY Zenon, ScanCovers
  <1>2. n \in Networks
    BY Zenon, <1>1, ScanSubnets
  <1>3. \A t \in taken : ~Overlaps(n, t)
    BY Zenon, <1>2, OverlapsMeans
  <1>4. n \in freeF /\ n \in freeW
    BY Zenon, <1>1, <1>3
  <1>5. /\ \A m \in freeF : m.ip \in Nat
        /\ \A m \in freeW : m.ip \in Nat
    BY Zenon, ScanSubnets, NetworkBlock
  <1>6. min \in Int
    BY AcceptedRange
  <1>7. Cardinality({}) = 0 /\ 0 < MaxAvail
    BY FS_EmptySet, WidthAssumption
  <1>8. PICK f \in freeF : {m \in freeF : Wrap(m.ip - min) < Wrap(f.ip - min)} = {}
    <2> HIDE DEF freeF, min, n
    <2> QED BY ZenonT(40), <1>4, <1>5, <1>6, FirstFree
  <1>9. PICK w \in freeW : {m \in freeW : Wrap(m.ip - min) < Wrap(w.ip - min)} = {}
    <2> HIDE DEF freeW, min, n
    <2> QED BY ZenonT(40), <1>4, <1>5, <1>6, FirstFree
  <1>10. Cardinality({m \in freeF : Wrap(m.ip - min) < Wrap(f.ip - min)}) < MaxAvail
    BY Zenon, <1>7, <1>8
  <1>11. Cardinality({m \in freeW : Wrap(m.ip - min) < Wrap(w.ip - min)}) < MaxAvail
    BY Zenon, <1>7, <1>9
  <1>12. f \in Available(c, taken, FALSE)
    BY Zenon, <1>10 DEF Available
  <1>13. w \in Available(c, taken, Wraps(c))
    BY ZenonT(40), <1>11 DEF Available
  <1> QED BY Zenon, <1>12, <1>13

\* "out of subnets" is reported only when every subnet of the range of some family
\* overlaps a lease.
THEOREM FreeIsFound == Spec => []FoundIfFree
  <1>1. AInv => FoundIfFree
    <2> DEFINE taken4 == {t.sn : t \in Listed}
               taken6 == {t.sn6 : t \in Listed}
               Clear(c, taken) == \E a \in SubnetMin(c) .. SubnetMax(c) :
                                    /\ a = Mask(a, SubnetLen(c))
                                    /\ \A t \in taken : Disjoint(Net(a, SubnetLen(c)), t)
               six == IF config.v6 = Off THEN {Empty} ELSE Available(config.v6, taken6, FALSE)
               four == Available(config.v4, taken4, Wraps(config.v4))
    <2> SUFFICES ASSUME AInv, NEW h \in Hosts, Valid(config), ~Mixed, Clear(config.v4, taken4),
                        config.v6 # Off => Clear(config.v6, taken6)
                 PROVE  Choices(h) # {}
      BY Zenon DEF FoundIfFree
    <2>1. Listed \subseteq Leased
      BY Zenon, ListsAll
    <2>2. four # {}
      <3>1. taken4 \subseteq Networks
        BY Zenon, <2>1, LeaseFields, SubnetNotEmpty
      <3> QED BY Zenon, <3>1, ValidConfig, AvailableFound
    <2>3. six # {}
      <3>1. CASE config.v6 = Off
        BY Zenon, <3>1
      <3>2. CASE config.v6 # Off
        <4>1. taken6 \subseteq Networks
          <5>1. ASSUME NEW t \in Listed PROVE t.sn6 \in Networks
            <6>1. t.sn6 # Empty
              BY Zenon, <3>2 DEF Mixed
            <6>2. t.sn6 \in Subnets \cup {Empty}
              BY Zenon, <2>1, LeaseFields
            <6> QED BY Zenon, <6>1, <6>2, SubnetNotEmpty
          <5> QED BY Zenon, <5>1
        <4>2. Available(config.v6, taken6, FALSE) # {}
          BY Zenon, <3>2, <4>1, ValidConfig, AvailableFound
        <4> QED BY Zenon, <3>2, <4>2
      <3> QED BY Zenon, <3>1, <3>2
    <2>4. AllocateSubnet = [sn : four, sn6 : six]
      BY Zenon DEF AllocateSubnet
    <2>5. [sn : four, sn6 : six] # {}
      <3> HIDE DEF four, six
      <3>1. PICK n \in four, m \in six : TRUE
        BY Zenon, <2>2, <2>3
      <3>2. [sn |-> n, sn6 |-> m] \in [sn : four, sn6 : six]
        BY Zenon
      <3> QED BY Zenon, <3>2
    <2> QED BY Zenon, <2>4, <2>5 DEF Choices
  <1> QED BY <1>1, AInvAlways, PTL

-----------------------------------------------------------------------------
(* CheckNetworkConfig and the scan.                                        *)

\* The scan is finite.
LEMMA ScanFinite ==
  ASSUME NEW c \in Drafts, Accepts(c)
  PROVE  IsFiniteSet(Scan(c, FALSE))
  <1> DEFINE S == SubnetMin(c) .. SubnetMax(c)
             T == {Net(a, SubnetLen(c)) : a \in S}
             f == [a \in S |-> Net(a, SubnetLen(c))]
  <1>1. SubnetMin(c) \in Int /\ SubnetMax(c) \in Int
    BY AcceptedRange
  <1>2. IsFiniteSet(S)
    BY Zenon, <1>1, FS_Interval
  <1>3. f \in Surjection(S, T)
    BY Zenon DEF Surjection
  <1>4. IsFiniteSet(T)
    <2> HIDE DEF S, T, f
    <2> QED BY Zenon, <1>2, <1>3, FS_Surjection
  <1>5. Scan(c, FALSE) \in SUBSET T
    BY Zenon DEF Scan
  <1> QED BY Zenon, <1>4, <1>5, FS_Subset

\* Three different elements make three.
LEMMA AtLeastThree ==
  ASSUME NEW S, IsFiniteSet(S), NEW x \in S, NEW y \in S, NEW z \in S, x # y, x # z, y # z
  PROVE  Cardinality(S) >= 3
  <1>1. IsFiniteSet({x}) /\ Cardinality({x}) = 1
    BY Zenon, FS_Singleton
  <1>2. IsFiniteSet({x} \cup {y}) /\ Cardinality({x} \cup {y}) = 1 + 1
    BY Zenon, <1>1, FS_AddElement
  <1>3. Cardinality(({x} \cup {y}) \cup {z}) = (1 + 1) + 1
    BY Zenon, <1>2, FS_AddElement
  <1>4. ({x} \cup {y}) \cup {z} \in SUBSET S
    BY Zenon
  <1>5. Cardinality(({x} \cup {y}) \cup {z}) <= Cardinality(S)
    BY Zenon, <1>4, FS_Subset
  <1>6. Cardinality(S) \in Nat
    BY Zenon, FS_CardinalityType
  <1> QED BY SMTT(30), <1>3, <1>5, <1>6

\* The second, third and fourth subnet of a network are scanned by default.
LEMMA ThreeScanned ==
  ASSUME NEW c \in Drafts, Accepts(c), c.min = 0, c.max = 0
  PROVE  Cardinality(Scan(c, FALSE)) >= 3
  <1> DEFINE s == Size(SubnetLen(c))
             a == SubnetMin(c)
             len == SubnetLen(c)
  <1>1. SubnetLen(c) \in 0 .. Width
    BY AcceptedLen, WidthAssumption
  <1>2. /\ s \in Nat /\ s >= 1 /\ 4 * s <= Size(c.net.len)
        /\ c.net.ip \in Nat /\ Size(c.net.len) \in Nat
    BY ZenonT(40), <1>1, SizeType, FourSubnets, DraftNetwork, NetworkBlock
  <1>3. /\ a \in Nat /\ SubnetMax(c) \in Nat /\ Multiple(a, s)
        /\ a = c.net.ip + s /\ SubnetMax(c) + s = c.net.ip + Size(c.net.len)
    BY Zenon, AcceptedRange
  <1>a. \A b \in Int : Multiple(b, s) => b = Mask(b, len)
    BY Zenon, <1>2, FloorOfMultiple DEF Mask, Floor
  <1>b. \A b \in a .. SubnetMax(c) : b = Mask(b, len) => Net(b, len) \in Scan(c, FALSE)
    BY Zenon, ScanCovers
  <1> HIDE DEF s, a, len
  <1>4. Multiple(s, s) /\ s \in Int /\ a \in Int /\ a + s \in Int /\ (a + s) + s \in Int
    BY <1>2, <1>3 DEF Multiple
  <1>5. Multiple(a + s, s)
    BY ZenonT(40), <1>2, <1>3, <1>4, MultipleSum
  <1>6. Multiple((a + s) + s, s)
    BY ZenonT(40), <1>2, <1>4, <1>5, MultipleSum
  <1>7. {a, a + s, (a + s) + s} \subseteq a .. SubnetMax(c)
    BY <1>2, <1>3
  <1>8. /\ Net(a, len) \in Scan(c, FALSE) /\ Net(a + s, len) \in Scan(c, FALSE)
        /\ Net((a + s) + s, len) \in Scan(c, FALSE)
    BY ZenonT(40), <1>3, <1>4, <1>5, <1>6, <1>7, <1>a, <1>b
  <1>9. a # a + s /\ a # (a + s) + s /\ a + s # (a + s) + s
    BY SMTT(30), <1>2, <1>3
  <1>10. /\ Net(a, len) # Net(a + s, len) /\ Net(a, len) # Net((a + s) + s, len)
         /\ Net(a + s, len) # Net((a + s) + s, len)
    BY Zenon, <1>9 DEF Net
  <1> QED BY ZenonT(40), <1>8, <1>10, ScanFinite, AtLeastThree

\* What a scan visits before it wraps is what it visits when it does not.
LEMMA BeforeWrap ==
  ASSUME NEW c \in Drafts, Accepts(c), NEW wraps, wraps \in {FALSE, Wraps(c)}
  PROVE  {n \in Scan(c, wraps) : n.ip >= SubnetMin(c)} = Scan(c, FALSE)
  <1> DEFINE s == Size(SubnetLen(c))
  <1>1. SubnetLen(c) \in 0 .. Width
    BY AcceptedLen, WidthAssumption
  <1>2. s \in Nat /\ s >= 1
    BY Zenon, <1>1, SizeType
  <1>a. SubnetMin(c) \in Nat /\ SubnetMax(c) \in Nat /\ 2 ^ Width \in Nat
    BY AcceptedRange, PowerPositive, WidthAssumption
  <1>b. Multiple(SubnetMax(c), s)
    <2>1. SubnetMax(c) \in Int
      BY <1>a
    <2>2. SubnetMax(c) = Floor(SubnetMax(c), s)
      BY Zenon DEF Accepts, Mask, Floor
    <2> QED BY Zenon, <1>2, <2>1, <2>2, FloorOfMultiple
  <1>3. /\ SubnetMin(c) \in Nat /\ SubnetMax(c) \in Nat /\ 2 ^ Width \in Nat
        /\ Multiple(SubnetMax(c), s)
    BY Zenon, <1>a, <1>b
  <1>4. ASSUME NEW n \in Scan(c, FALSE) PROVE n \in Scan(c, wraps) /\ n.ip >= SubnetMin(c)
    <2>1. n \in Networks /\ n.len = SubnetLen(c) /\ n.ip \in SubnetMin(c) .. SubnetMax(c)
      BY Zenon, <1>4, ScanSubnets
    <2>2. n.ip \in Int /\ n = Net(n.ip, n.len) /\ n.ip >= SubnetMin(c)
      BY <1>3, <2>1 DEF Networks, Net
    <2>3. n.ip = Mask(n.ip, SubnetLen(c)) /\ n = Net(n.ip, SubnetLen(c))
      BY Zenon, <2>1, <2>2, NetworkBlock
    <2>4. Net(n.ip, SubnetLen(c)) \in Scan(c, FALSE) /\ Net(n.ip, SubnetLen(c)) \in Scan(c, Wraps(c))
      BY Zenon, <2>1, <2>3, ScanCovers
    <2> QED BY Zenon, <2>2, <2>3, <2>4
  <1>5. ASSUME NEW n \in Scan(c, Wraps(c)), Wraps(c), n.ip >= SubnetMin(c)
        PROVE  n \in Scan(c, FALSE)
    <2>1. PICK b \in 0 .. 2 ^ Width - 1 : n = Net(b, SubnetLen(c)) /\ Wrap(b - SubnetMin(c)) % s = 0
      BY Zenon, <1>5 DEF Scan
    <2>2. b \in Int /\ n.ip = b /\ b < 2 ^ Width
      BY <1>3, <2>1 DEF Net
    <2>3. Multiple(b, s)
      BY Zenon, <2>1, <2>2, ScanStep
    <2>4. SubnetMax(c) + s = 2 ^ Width
      BY Zenon, <1>5 DEF Wraps
    <2>5. SubnetMax(c) < b => SubnetMax(c) + s <= b
      <3>1. SubnetMax(c) \in Int
        BY <1>3
      <3> QED BY Zenon, <1>2, <1>3, <2>2, <2>3, <3>1, MultipleGap
    <2>6. b \in SubnetMin(c) .. SubnetMax(c)
      <3> HIDE DEF s
      <3> QED BY <1>2, <1>3, <1>5, <2>2, <2>4, <2>5
    <2>7. b = Mask(b, SubnetLen(c))
      BY Zenon, <1>2, <2>2, <2>3, FloorOfMultiple DEF Mask, Floor
    <2> QED BY Zenon, <2>1, <2>6, <2>7, ScanCovers
  <1>6. CASE wraps = Wraps(c) /\ Wraps(c)
    BY Zenon, <1>4, <1>5, <1>6
  <1>7. CASE wraps = FALSE
    BY Zenon, <1>4, <1>7
  <1>8. Wraps(c) \in BOOLEAN
    BY Zenon DEF Wraps
  <1> QED BY Zenon, <1>6, <1>7, <1>8

\* What CheckNetworkConfig accepts is scanned within the network, and by default in full,
\* before the scan wraps.
LEMMA DraftSound ==
  ASSUME NEW c \in Drafts, NEW wraps, wraps \in {FALSE, Wraps(c)}
  PROVE  RangeSound(c, wraps)
  <1> DEFINE whole == {n \in {Net(a, SubnetLen(c)) : a \in Addresses(c.net)} :
                         n.ip = Mask(n.ip, n.len)}
             scanned == Scan(c, FALSE)
             first == {n \in Scan(c, wraps) : n.ip >= SubnetMin(c)}
  <1> SUFFICES ASSUME Accepts(c)
               PROVE  /\ \A n \in first : Addresses(n) \subseteq Addresses(c.net)
                      /\ wraps \/ first = Scan(c, wraps)
                      /\ (c.min = 0 /\ c.max = 0) =>
                           /\ first = {n \in whole : n.ip # c.net.ip}
                           /\ Cardinality(first) >= 3
    BY Zenon DEF RangeSound
  <1>0. first = scanned
    BY Zenon, BeforeWrap
  <1>4. wraps \/ first = Scan(c, wraps)
    <2>1. Wraps(c) \in BOOLEAN
      BY Zenon DEF Wraps
    <2>2. wraps = TRUE \/ wraps = FALSE
      BY Zenon, <2>1
    <2>3. CASE wraps = FALSE
      BY Zenon, <1>0, <2>3
    <2> QED BY Zenon, <2>2, <2>3
  <1> HIDE DEF first
  <1>1. ASSUME NEW n \in scanned
        PROVE  /\ n \in Networks /\ n.len = SubnetLen(c) /\ n.ip \in SubnetMin(c) .. SubnetMax(c)
               /\ n.ip \in Int /\ n.ip = Mask(n.ip, n.len) /\ n = Net(n.ip, n.len)
    <2>1. n \in Networks /\ n.len = SubnetLen(c) /\ n.ip \in SubnetMin(c) .. SubnetMax(c)
      BY Zenon, ScanSubnets
    <2>2. n.ip \in Int /\ n = Net(n.ip, n.len)
      BY <2>1 DEF Networks, Net
    <2> QED BY Zenon, <2>1, <2>2, NetworkBlock
  <1>2. \A n \in scanned : Addresses(n) \subseteq Addresses(c.net)
    BY Zenon, <1>1, InsideRange
  <1>3. ASSUME c.min = 0, c.max = 0 PROVE scanned = {n \in whole : n.ip # c.net.ip}
    <2>1. ASSUME NEW n \in scanned PROVE n \in whole /\ n.ip # c.net.ip
      <3>1. /\ n.len = SubnetLen(c) /\ n.ip \in SubnetMin(c) .. SubnetMax(c)
            /\ n.ip \in Int /\ n.ip = Mask(n.ip, n.len) /\ n = Net(n.ip, n.len)
        BY Zenon, <1>1
      <3>2. n.ip = Mask(n.ip, SubnetLen(c)) /\ n = Net(n.ip, SubnetLen(c))
        BY Zenon, <3>1
      <3>3. n.ip \in Addresses(c.net) /\ n.ip # c.net.ip
        BY ZenonT(40), <1>3, <3>1, <3>2, DefaultRange
      <3> QED BY Zenon, <3>1, <3>2, <3>3
    <2>2. ASSUME NEW n \in whole, n.ip # c.net.ip PROVE n \in scanned
      <3>1. PICK a \in Addresses(c.net) : n = Net(a, SubnetLen(c))
        BY Zenon
      <3>2. n.ip = a /\ n.len = SubnetLen(c)
        BY Zenon, <3>1 DEF Net
      <3>3. c.net.ip \in Nat /\ Size(c.net.len) \in Nat
        BY Zenon, DraftNetwork, NetworkBlock
      <3>4. a \in Int
        BY <3>1, <3>3 DEF Addresses
      <3>5. a = Mask(a, SubnetLen(c)) /\ a # c.net.ip
        BY Zenon, <2>2, <3>2
      <3>6. a \in SubnetMin(c) .. SubnetMax(c)
        BY ZenonT(40), <1>3, <3>1, <3>4, <3>5, DefaultRange
      <3> QED BY Zenon, <3>1, <3>5, <3>6, ScanCovers
    <2> HIDE DEF whole, scanned
    <2> QED BY Zenon, <2>1, <2>2
  <1> QED BY Zenon, <1>0, <1>2, <1>3, <1>4, ThreeScanned

\* Of all drafts and of the configuration in etcd: what CheckNetworkConfig accepts is
\* scanned within the network, and with the defaults every subnet but the first, at
\* least three; where the IPv4 scan wraps, all of that before it does.
THEOREM AcceptedIsSound == Spec => []ConfigSound
  <1>1. AInv => ConfigSound
    <2> SUFFICES ASSUME AInv PROVE ConfigSound
      BY Zenon
    <2>1. config \in [v4 : Drafts, v6 : Drafts \cup {Off}]
      BY Zenon, WidthAssumption DEF AInv
    <2>2. config.v4 \in Drafts /\ config.v6 \in Drafts \cup {Off}
      BY Zenon, <2>1
    <2>3. Off.net = Empty
      BY Zenon DEF Off
    <2>4. RangeSound(Off, FALSE)
      BY Zenon, <2>3 DEF RangeSound, Accepts
    <2>5. ASSUME NEW c \in Drafts PROVE RangeSound(c, FALSE) /\ RangeSound(c, Wraps(c))
      BY Zenon, DraftSound
    <2> QED BY Zenon, <2>2, <2>4, <2>5 DEF ConfigSound, DraftsSound
  <1> QED BY <1>1, AInvAlways, PTL
=============================================================================
