------------------------- MODULE ShareShuffleProofs -------------------------
(***************************************************************************)
(* What the shuffle does to a vector of any length, for every number of    *)
(* parties, every seed and whatever a seed expands to: it rearranges the   *)
(* vector, by a permutation that the positions it drew decide and that     *)
(* decides them.  In the second half, two parties shuffle the shares that  *)
(* SecretSharing gave them, and the shares still add up.                   *)
(***************************************************************************)
EXTENDS ShareShuffle, TLAPS

\* The position that turn i of the loop of p exchanges with i.
Place(p, i) == Position(i, RandOf(seed[p], n(p)), n(p))

\* The loop draws its position from the part that is not yet settled.
LEMMA PositionInRange ==
    ASSUME NEW i \in Nat, NEW m \in Nat, i < m, NEW rand, rand[i] \in Nat
    PROVE  Position(i, rand, m) \in i .. m - 1
<1> DEFINE r == rand[i]
<1>1. m - i \in Nat /\ m - i > 0
  OBVIOUS
<1>2. \A k \in Nat : k > 0 => r % k \in 0 .. k - 1
  OBVIOUS
<1> HIDE DEF r
<1>3. r % (m - i) \in 0 .. (m - i) - 1
  BY <1>1, <1>2
<1>4. i + (r % (m - i)) \in i .. m - 1
  BY <1>3
<1> QED BY <1>4 DEF Position, r

\* Exchanging two elements of a permutation gives a permutation.
LEMMA SwapIsOrder ==
    ASSUME NEW e, NEW order \in Orders(e), NEW i \in DOMAIN e, NEW j \in DOMAIN e
    PROVE  /\ Swapped(order, i, j) \in Orders(e)
           /\ Swapped(Arranged(e, order), i, j) = Arranged(e, Swapped(order, i, j))
<1>1. order \in [DOMAIN e -> DOMAIN e]
      /\ \A x, y \in DOMAIN e : order[x] = order[y] => x = y
  BY DEF Orders, Injection, IsInjective
<1>2. Swapped(order, i, j) \in [DOMAIN e -> DOMAIN e]
  BY <1>1 DEF Swapped
<1>3. \A x, y \in DOMAIN e : Swapped(order, i, j)[x] = Swapped(order, i, j)[y] => x = y
  BY <1>1 DEF Swapped
<1>4. Swapped(order, i, j) \in Orders(e)
  BY <1>2, <1>3 DEF Orders, Injection, IsInjective
<1>5. Swapped(Arranged(e, order), i, j) = Arranged(e, Swapped(order, i, j))
  BY <1>1 DEF Swapped, Arranged
<1> QED BY <1>4, <1>5

\* Turn k settles position k and leaves what is settled alone.
LEMMA TurnSettles ==
    ASSUME NEW e, NEW order \in Orders(e), NEW k \in Nat, 0 .. k \subseteq DOMAIN e,
           NEW x \in DOMAIN e, x \in Nat, x >= k
    PROVE  /\ Swapped(order, k, x)[k] = order[x]
           /\ \A i \in 0 .. k - 1 : Swapped(order, k, x)[i] = order[i]
<1>1. order \in [DOMAIN e -> DOMAIN e] /\ k \in DOMAIN e
  BY DEF Orders, Injection
<1>2. \A i \in 0 .. k - 1 : i \in DOMAIN e /\ i # k /\ i # x
  OBVIOUS
<1> QED BY <1>1, <1>2 DEF Swapped

\* The order of a vector that nobody has touched.
Identity(e) == [j \in DOMAIN e |-> j]

LEMMA SameIdentity ==
    ASSUME NEW e, NEW f, DOMAIN e = DOMAIN f
    PROVE  Identity(e) = Identity(f)
BY DEF Identity

LEMMA IdentityArranges ==
    ASSUME NEW e, NEW S, e \in [DOMAIN e -> S]
    PROVE  Identity(e) \in Orders(e) /\ e = Arranged(e, Identity(e))
BY DEF Identity, Orders, Injection, IsInjective, Arranged
-----------------------------------------------------------------------------
(***************************************************************************)
(* The inductive invariant: the history of a party begins with the         *)
(* identity, each of its orders is the one before with one exchange, and   *)
(* its vector is the input in the last order.  Two histories over equally  *)
(* many elements agree as long as the places do, and the settled part of   *)
(* an order reveals the places.                                            *)
(***************************************************************************)
Turns(p) ==
    IF At(p, "swap") THEN local[p].i
    ELSE IF At(p, "Ok") /\ n(p) > 1 THEN n(p) - 1 ELSE 0

History(p) ==
    /\ Turns(p) # 0 => Turns(p) \in 1 .. n(p) - 1 /\ seed[p] \in ValidSeed
    /\ orders[p][0] = Identity(input[p])
    /\ \A k \in 0 .. Turns(p) : orders[p][k] \in Orders(input[p])
    /\ \A k \in 0 .. Turns(p) - 1 : orders[p][k + 1] = Swapped(orders[p][k], k, Place(p, k))
    /\ data[p] = Arranged(input[p], orders[p][Turns(p)])

SamePlaces(p, q, m) == \A i \in 0 .. m - 1 : Place(p, i) = Place(q, i)
SameSettled(p, q, m) == \A i \in 0 .. m - 1 : orders[p][m][i] = orders[q][m][i]

Decided(p, q) ==
    n(p) = n(q) =>
        \A m \in Nat : m <= Turns(p) /\ m <= Turns(q) =>
            /\ SamePlaces(p, q, m) => orders[p][m] = orders[q][m]
            /\ SameSettled(p, q, m) => SamePlaces(p, q, m)

Histories == \A p \in Party : History(p)
AllDecided == \A p, q \in Party : Decided(p, q)

IInv == TypeOK /\ Histories /\ AllDecided

\* Vectors are functions on 0 .. n - 1, for their length n.
LEMMA VectorLength ==
    ASSUME NEW e \in Input, NEW d, DOMAIN d = DOMAIN e
    PROVE  /\ Size(d) \in Nat /\ Size(d) = Size(e)
           /\ DOMAIN d = 0 .. Size(d) - 1
           /\ e \in [0 .. Size(d) - 1 -> Element]
<1>1. Size(e) \in Nat /\ e \in [0 .. Size(e) - 1 -> Element]
  BY ShuffleAssumption
<1>2. Size(d) = Size(e)
  BY DEF Size
<1> QED BY <1>1, <1>2

LEMMA Lengths ==
    ASSUME TypeOK, NEW p \in Party
    PROVE  /\ n(p) \in Nat /\ n(p) = Size(input[p])
           /\ DOMAIN data[p] = 0 .. n(p) - 1 /\ DOMAIN input[p] = 0 .. n(p) - 1
           /\ input[p] \in Input
<1>1. input[p] \in Input /\ DOMAIN data[p] = DOMAIN input[p]
  BY DEF TypeOK
<1> QED BY <1>1, VectorLength DEF n

\* Every number is a natural number, those included that no byte was drawn for.
LEMMA RandNatural ==
    ASSUME NEW s \in ValidSeed, NEW d \in Input, NEW i \in DOMAIN d
    PROVE  RandOf(s, Size(d))[i] \in Nat
<1>1. Size(d) \in Nat /\ DOMAIN d = 0 .. Size(d) - 1
  BY ShuffleAssumption
<1>2. Rand[s][i] \in Nat
  BY ShuffleAssumption
<1> QED BY <1>1, <1>2 DEF RandOf

LEMMA PlaceInRange ==
    ASSUME TypeOK, NEW p \in Party, seed[p] \in ValidSeed, NEW i \in DOMAIN input[p]
    PROVE  Place(p, i) \in i .. n(p) - 1 /\ Place(p, i) \in DOMAIN input[p]
<1>1. n(p) \in Nat /\ DOMAIN input[p] = 0 .. n(p) - 1 /\ input[p] \in Input /\ n(p) = Size(input[p])
  BY Lengths
<1>2. i \in Nat /\ i < n(p)
  BY <1>1
<1>3. RandOf(seed[p], n(p))[i] \in Nat
  BY <1>1, RandNatural
<1>4. Place(p, i) \in i .. n(p) - 1
  BY <1>1, <1>2, <1>3, PositionInRange DEF Place
<1> QED BY <1>1, <1>2, <1>4

\* A history whose turns go on by at most one decides as much as it did.
LEMMA DecidedKept ==
    ASSUME IInv, TypeOK', Histories',
           \A a \in Party : \/ Turns(a)' = 0
                            \/ /\ n(a)' = n(a) /\ input'[a] = input[a] /\ seed'[a] = seed[a]
                               /\ Turns(a)' <= Turns(a) + 1
                               /\ \A k \in 0 .. Turns(a) : orders'[a][k] = orders[a][k]
    PROVE  AllDecided'
<1> SUFFICES ASSUME NEW a \in Party, NEW b \in Party, n(a)' = n(b)',
                    NEW m \in Nat, m <= Turns(a)', m <= Turns(b)'
             PROVE  /\ SamePlaces(a, b, m)' => orders'[a][m] = orders'[b][m]
                    /\ SameSettled(a, b, m)' => SamePlaces(a, b, m)'
  BY DEF AllDecided, Decided
<1>1. CASE m = 0
  <2>1. \A p \in Party : orders'[p][0] = Identity(input'[p])
    BY DEF Histories, History
  <2>2. \A p \in Party : DOMAIN input'[p] = 0 .. n(p)' - 1
    <3>1. \A p \in Party : input'[p] \in Input /\ DOMAIN data'[p] = DOMAIN input'[p]
      BY DEF TypeOK
    <3> QED BY <3>1, VectorLength DEF n
  <2>3. DOMAIN input'[a] = DOMAIN input'[b]
    BY <2>2
  <2>4. orders'[a][0] = orders'[b][0]
    BY <2>1, <2>3, SameIdentity
  <2> QED BY <1>1, <2>4 DEF SamePlaces
<1>2. CASE m > 0
  <2> DEFINE k == m - 1
  <2>1. k \in Nat /\ k + 1 = m /\ 0 .. m - 1 = 0 .. k
    BY <1>2
  <2> HIDE DEF k
  <2>2. Turns(a) \in Nat /\ Turns(b) \in Nat
    BY Lengths DEF IInv, Histories, History
  <2>3. /\ n(a)' = n(a) /\ input'[a] = input[a] /\ seed'[a] = seed[a] /\ k <= Turns(a)
        /\ \A j \in 0 .. Turns(a) : orders'[a][j] = orders[a][j]
        /\ Turns(a)' # 0
    BY <1>2, <2>1, <2>2 DEF Histories, History
  <2>4. /\ n(b)' = n(b) /\ input'[b] = input[b] /\ seed'[b] = seed[b] /\ k <= Turns(b)
        /\ \A j \in 0 .. Turns(b) : orders'[b][j] = orders[b][j]
        /\ Turns(b)' # 0
    BY <1>2, <2>1, <2>2 DEF Histories, History
  <2>5. /\ n(a) = n(b) /\ n(a) \in Nat
        /\ DOMAIN input[a] = 0 .. n(a) - 1 /\ DOMAIN input[b] = 0 .. n(a) - 1
    BY <2>3, <2>4, Lengths DEF IInv
  <2>6. /\ seed[a] \in ValidSeed /\ seed[b] \in ValidSeed
        /\ Turns(a)' \in 1 .. n(a) - 1 /\ Turns(b)' \in 1 .. n(a) - 1
    BY <2>3, <2>4, <2>5 DEF Histories, History
  <2>7. k \in 0 .. n(a) - 1
    BY <2>1, <2>5, <2>6
  <2>8. /\ Place(a, k) \in k .. n(a) - 1 /\ Place(b, k) \in k .. n(a) - 1
    BY <2>5, <2>6, <2>7, PlaceInRange DEF IInv
  <2>9. \A j : Place(a, j)' = Place(a, j) /\ Place(b, j)' = Place(b, j)
    BY <2>3, <2>4 DEF Place
  <2>10. /\ orders[a][k] \in Orders(input[a]) /\ orders[b][k] \in Orders(input[a])
    <3>1. orders[a][k] \in Orders(input[a]) /\ orders[b][k] \in Orders(input[b])
      BY <2>1, <2>2, <2>3, <2>4 DEF IInv, Histories, History
    <3> QED BY <3>1, <2>5 DEF Orders
  <2>11. /\ orders'[a][m] = Swapped(orders[a][k], k, Place(a, k))
         /\ orders'[b][m] = Swapped(orders[b][k], k, Place(b, k))
    <3>1. k \in 0 .. Turns(a)' - 1 /\ k \in 0 .. Turns(b)' - 1
      BY <2>1, <2>6
    <3>2. /\ orders'[a][k + 1] = Swapped(orders'[a][k], k, Place(a, k)')
          /\ orders'[b][k + 1] = Swapped(orders'[b][k], k, Place(b, k)')
      BY <3>1 DEF Histories, History
    <3>3. orders'[a][k] = orders[a][k] /\ orders'[b][k] = orders[b][k]
      BY <2>1, <2>2, <2>3, <2>4
    <3> QED BY <2>1, <2>9, <3>2, <3>3
  <2>12. /\ SamePlaces(a, b, k) => orders[a][k] = orders[b][k]
         /\ SameSettled(a, b, k) => SamePlaces(a, b, k)
    BY <2>1, <2>3, <2>4, <2>5 DEF IInv, AllDecided, Decided
  <2>13. ASSUME SamePlaces(a, b, m)'
         PROVE  orders'[a][m] = orders'[b][m]
    <3>1. SamePlaces(a, b, k) /\ Place(a, k) = Place(b, k)
      BY <2>1, <2>9, <2>13 DEF SamePlaces
    <3> QED BY <2>11, <2>12, <3>1
  <2>14. ASSUME SameSettled(a, b, m)'
         PROVE  SamePlaces(a, b, m)'
    <3>1. \A i \in 0 .. k : orders'[a][m][i] = orders'[b][m][i]
      BY <2>1, <2>14 DEF SameSettled
    <3>2. /\ 0 .. k \subseteq DOMAIN input[a]
          /\ Place(a, k) \in DOMAIN input[a] /\ Place(a, k) \in Nat /\ Place(a, k) >= k
          /\ Place(b, k) \in DOMAIN input[a] /\ Place(b, k) \in Nat /\ Place(b, k) >= k
      BY <2>5, <2>7, <2>8
    <3>3. /\ orders'[a][m][k] = orders[a][k][Place(a, k)]
          /\ orders'[b][m][k] = orders[b][k][Place(b, k)]
          /\ \A i \in 0 .. k - 1 : /\ orders'[a][m][i] = orders[a][k][i]
                                   /\ orders'[b][m][i] = orders[b][k][i]
      BY <2>1, <2>10, <2>11, <3>2, TurnSettles
    <3>4. SameSettled(a, b, k)
      BY <2>1, <3>1, <3>3 DEF SameSettled
    <3>5. SamePlaces(a, b, k) /\ orders[a][k] = orders[b][k]
      BY <2>12, <3>4
    <3>6. Place(a, k) = Place(b, k)
      <4>1. \A x, y \in DOMAIN input[a] : orders[a][k][x] = orders[a][k][y] => x = y
        BY <2>10 DEF Orders, Injection, IsInjective
      <4>2. orders[a][k][Place(a, k)] = orders[a][k][Place(b, k)]
        BY <2>1, <3>1, <3>3, <3>5
      <4> QED BY <3>2, <4>1, <4>2
    <3> QED BY <2>1, <2>9, <3>5, <3>6 DEF SamePlaces
  <2> QED BY <2>13, <2>14
<1> QED BY <1>1, <1>2
-----------------------------------------------------------------------------
(***************************************************************************)
(* The initial states and the steps.                                       *)
(***************************************************************************)
PartyOK(p) ==
    /\ data[p] \in [DOMAIN input[p] -> Element]
    /\ local[p] = Local(local[p].pc, local[p].rand, local[p].i)
    /\ local[p].pc \in {"idle", "call", "swap"} \cup Results
    /\ At(p, "swap") =>
          /\ seed[p] \in ValidSeed /\ n(p) > 1 /\ ~TooManyBytes(n(p))
          /\ local[p].i \in 0 .. n(p) - 1
          /\ local[p].rand = RandOf(seed[p], n(p))

\* A vector that was just passed to a call, or at the start.
Fresh(p) == input[p] \in Input /\ data[p] = input[p] /\ orders[p] = Unmoved(input[p])

LEMMA FreshHistory ==
    ASSUME NEW p \in Party, Fresh(p), Turns(p) = 0
    PROVE  History(p)
<1>1. input[p] \in [DOMAIN input[p] -> Element]
  BY ShuffleAssumption DEF Fresh
<1>2. orders[p][0] = Identity(input[p])
  BY DEF Fresh, Unmoved, Identity
<1>3. Identity(input[p]) \in Orders(input[p]) /\ input[p] = Arranged(input[p], Identity(input[p]))
  BY <1>1, IdentityArranges
<1> QED BY <1>2, <1>3 DEF History, Fresh

LEMMA InitIInv == Init => IInv
<1> SUFFICES ASSUME Init PROVE IInv
  OBVIOUS
<1>1. AnyVector \in Input /\ AnySeed \in Seed
  BY ShuffleAssumption DEF AnyVector, AnySeed
<1>2. \A p \in Party : Fresh(p) /\ local[p] = Local("idle", NoRand, 0)
  BY <1>1 DEF Init, Fresh
<1>3. \A p \in Party : Turns(p) = 0
  BY <1>2 DEF Turns, At, Local
<1>4. TypeOK
  <2>1. \A p \in Party : data[p] \in [DOMAIN input[p] -> Element]
    BY <1>2, ShuffleAssumption DEF Fresh
  <2> QED BY <1>1, <1>2, <2>1 DEF TypeOK, Init, At, Local
<1>5. Histories
  BY <1>2, <1>3, FreshHistory DEF Histories
<1>6. AllDecided
  <2> SUFFICES ASSUME NEW a \in Party, NEW b \in Party, n(a) = n(b)
               PROVE  orders[a][0] = orders[b][0] /\ SamePlaces(a, b, 0)
    BY <1>3 DEF AllDecided, Decided
  <2> QED BY DEF Init, SamePlaces
<1> QED BY <1>4, <1>5, <1>6 DEF IInv

\* A step without a turn of the loop, which leaves every vector alone.
LEMMA NoTurnKeeps ==
    ASSUME IInv, TypeOK', UNCHANGED <<input, seed, data, orders>>,
           \A p \in Party : Turns(p)' = Turns(p)
    PROVE  IInv'
<1>1. \A p \in Party : n(p)' = n(p) /\ \A k : Place(p, k)' = Place(p, k)
  BY DEF n, Place
<1>2. Histories'
  BY <1>1 DEF IInv, Histories, History
<1>3. \A p \in Party : Turns(p) \in Nat
  BY Lengths DEF IInv, Histories, History
<1>4. AllDecided'
  BY <1>1, <1>2, <1>3, DecidedKept
<1> QED BY <1>2, <1>4 DEF IInv

\* A call returns, before its loop or after all of its turns.
LEMMA ReturnKeeps ==
    ASSUME IInv, NEW p \in Party, NEW status \in Results, Return(p, status),
           \/ At(p, "call") /\ (status = "Ok" => n(p) <= 1)
           \/ At(p, "swap") /\ status = "Ok" /\ local[p].i >= Last(p)
    PROVE  IInv'
<1>1. UNCHANGED <<input, seed, data, orders>> /\ DOMAIN local' = Party
      /\ \A q \in Party : local'[q] = IF q = p THEN Local(status, NoRand, 0) ELSE local[q]
  BY DEF Return, Set, IInv, TypeOK
<1>2. local'[p].pc = status /\ status \notin {"idle", "call", "swap"}
  BY <1>1 DEF Local, Results
<1>3. \A q \in Party : PartyOK(q)
  BY DEF IInv, TypeOK, PartyOK
<1>4. ASSUME NEW q \in Party PROVE PartyOK(q)' /\ Turns(q)' = Turns(q)
  <2>1. CASE q # p
    <3>1. UNCHANGED local[q]
      BY <1>1, <2>1
    <3> QED BY <1>1, <1>3, <3>1 DEF PartyOK, Turns, At, n
  <2>2. CASE q = p
    <3>1. PartyOK(p)'
      <4>1. data[p] \in [DOMAIN input[p] -> Element]
        BY <1>3 DEF PartyOK
      <4>2. local'[p] = Local(local'[p].pc, local'[p].rand, local'[p].i)
        BY <1>1 DEF Local
      <4> QED BY <1>1, <1>2, <4>1, <4>2 DEF PartyOK, At
    <3>2. n(p)' = n(p) /\ n(p) \in Nat
      BY <1>1, Lengths DEF n, IInv
    <3>3. CASE At(p, "call")
      BY <1>2, <2>2, <3>1, <3>2, <3>3 DEF Turns, At
    <3>4. CASE At(p, "swap")
      <4>1. local[p].i = n(p) - 1 /\ n(p) > 1 /\ status = "Ok"
        BY <1>3, <3>2, <3>4 DEF PartyOK, Last, At
      <4> QED BY <1>2, <2>2, <3>1, <3>2, <3>4, <4>1 DEF Turns, At
    <3> QED BY <2>2, <3>1, <3>3, <3>4
  <2> QED BY <2>1, <2>2
<1>5. TypeOK'
  BY <1>1, <1>4 DEF IInv, TypeOK, PartyOK
<1> QED BY <1>1, <1>4, <1>5, NoTurnKeeps

LEMMA GenerateKeeps ==
    ASSUME IInv, NEW p \in Party, GenerateRand(p)
    PROVE  IInv'
<1> DEFINE rand == RandOf(seed[p], n(p))
<1>1. UNCHANGED <<input, seed, data, orders>> /\ DOMAIN local' = Party
      /\ \A q \in Party : local'[q] = IF q = p THEN Local("swap", rand, 0) ELSE local[q]
  BY DEF GenerateRand, Set, SeedOf, IInv, TypeOK
<1> HIDE DEF rand
<1>2. /\ n(p) \in Nat /\ n(p) > 1 /\ seed[p] \in ValidSeed /\ ~TooManyBytes(n(p))
      /\ At(p, "call")
  BY Lengths DEF GenerateRand, IInv
<1>3. local'[p].pc = "swap" /\ local'[p].rand = rand /\ local'[p].i = 0
      /\ local'[p] = Local(local'[p].pc, local'[p].rand, local'[p].i)
  BY <1>1 DEF Local
<1>4. \A q \in Party : PartyOK(q)
  BY DEF IInv, TypeOK, PartyOK
<1>5. ASSUME NEW q \in Party PROVE PartyOK(q)' /\ Turns(q)' = Turns(q)
  <2>1. CASE q # p
    <3>1. UNCHANGED local[q]
      BY <1>1, <2>1
    <3> QED BY <1>1, <1>4, <3>1 DEF PartyOK, Turns, At, n
  <2>2. CASE q = p
    <3>1. n(p)' = n(p)
      BY <1>1 DEF n
    <3>2. PartyOK(p)'
      BY <1>1, <1>2, <1>3, <1>4, <3>1 DEF PartyOK, At, rand
    <3> QED BY <1>2, <1>3, <2>2, <3>2 DEF Turns, At
  <2> QED BY <2>1, <2>2
<1>6. TypeOK'
  BY <1>1, <1>5 DEF IInv, TypeOK, PartyOK
<1> QED BY <1>1, <1>5, <1>6, NoTurnKeeps

LEMMA CallKeeps ==
    ASSUME IInv, NEW p \in Party, NEW d \in Input, NEW s \in Seed, Call(p, d, s)
    PROVE  IInv'
<1>1. /\ DOMAIN local' = Party /\ DOMAIN data' = Party /\ DOMAIN orders' = Party
      /\ input' \in [Party -> Input] /\ seed' \in [Party -> Seed]
      /\ local'[p] = Local("call", NoRand, 0) /\ Fresh(p)'
      /\ \A q \in Party \ {p} : UNCHANGED <<local[q], data[q], orders[q], input[q], seed[q]>>
  BY DEF Call, Set, IInv, TypeOK, Fresh
<1>2. \A q \in Party : PartyOK(q)
  BY DEF IInv, TypeOK, PartyOK
<1>3. Turns(p)' = 0 /\ PartyOK(p)'
  <2>1. local'[p].pc = "call"
    BY <1>1 DEF Local
  <2>2. data'[p] \in [DOMAIN input'[p] -> Element]
    BY <1>1, ShuffleAssumption DEF Fresh
  <2> QED BY <1>1, <2>1, <2>2 DEF Turns, At, PartyOK, Local
<1>4. ASSUME NEW q \in Party \ {p}
      PROVE  /\ PartyOK(q)' /\ Turns(q)' = Turns(q) /\ n(q)' = n(q)
             /\ \A k : Place(q, k)' = Place(q, k)
  BY <1>1, <1>2 DEF PartyOK, Turns, At, n, Place
<1>5. TypeOK'
  BY <1>1, <1>3, <1>4 DEF TypeOK, PartyOK
<1>6. Histories'
  <2>1. History(p)'
    <3>1. Fresh(p)' /\ Turns(p)' = 0 => History(p)'
      <4>1. input'[p] \in Input /\ data'[p] = input'[p] /\ orders'[p] = Unmoved(input'[p])
        BY <1>1 DEF Fresh
      <4>2. orders'[p][0] = Identity(input'[p]) /\ input'[p] \in [DOMAIN input'[p] -> Element]
        BY <4>1, ShuffleAssumption DEF Unmoved, Identity
      <4>3. /\ Identity(input'[p]) \in Orders(input'[p])
            /\ input'[p] = Arranged(input'[p], Identity(input'[p]))
        BY <4>2, IdentityArranges
      <4> QED BY <4>1, <4>2, <4>3 DEF History
    <3> QED BY <1>1, <1>3, <3>1
  <2>2. ASSUME NEW q \in Party \ {p} PROVE History(q)'
    BY <1>1, <1>4 DEF IInv, Histories, History
  <2> QED BY <2>1, <2>2 DEF Histories
<1>7. \A q \in Party : Turns(q) \in Nat
  BY Lengths DEF IInv, Histories, History
<1>8. AllDecided'
  BY <1>1, <1>3, <1>4, <1>5, <1>6, <1>7, DecidedKept
<1> QED BY <1>5, <1>6, <1>8 DEF IInv

LEMMA SwapKeeps ==
    ASSUME IInv, NEW p \in Party, Swap(p)
    PROVE  IInv'
<1> DEFINE i == local[p].i
           j == Place(p, i)
<1>1. \A q \in Party : PartyOK(q)
  BY DEF IInv, TypeOK, PartyOK
<1>2. /\ At(p, "swap") /\ i \in 0 .. n(p) - 1 /\ i < n(p) - 1 /\ n(p) \in Nat
      /\ seed[p] \in ValidSeed /\ local[p].rand = RandOf(seed[p], n(p))
      /\ local[p] = Local(local[p].pc, local[p].rand, i)
  BY <1>1, Lengths DEF Swap, PartyOK, Last, IInv
<1>3. DOMAIN input[p] = 0 .. n(p) - 1 /\ DOMAIN data[p] = 0 .. n(p) - 1
  BY Lengths DEF IInv
<1>4. Position(i, local[p].rand, n(p)) = j
  BY <1>2 DEF Place
<1>5. i \in DOMAIN input[p] /\ j \in DOMAIN input[p]
  BY <1>2, <1>3, PlaceInRange DEF IInv
<1> HIDE DEF j
<1>6. /\ UNCHANGED <<input, seed>>
      /\ DOMAIN data' = Party /\ DOMAIN local' = Party /\ DOMAIN orders' = Party
      /\ data'[p] = Swapped(data[p], i, j)
      /\ orders'[p] = Turned(orders[p], i, j)
      /\ local'[p] = [local[p] EXCEPT !.i = i + 1]
      /\ \A q \in Party \ {p} : UNCHANGED <<local[q], data[q], orders[q]>>
  BY <1>4 DEF Swap, Set, IInv, TypeOK
<1>7. /\ local'[p].pc = "swap" /\ local'[p].i = i + 1 /\ local'[p].rand = local[p].rand
      /\ local'[p] = Local(local'[p].pc, local'[p].rand, local'[p].i)
  BY <1>2, <1>6 DEF Local, At
<1>8. data'[p] \in [DOMAIN input[p] -> Element] /\ n(p)' = n(p)
  <2>1. data[p] \in [DOMAIN input[p] -> Element]
    BY <1>1 DEF PartyOK
  <2>2. data'[p] \in [DOMAIN input[p] -> Element]
    BY <1>5, <1>6, <2>1 DEF Swapped
  <2> QED BY <1>3, <2>2 DEF n, Size
<1>9. Turns(p) = i /\ Turns(p)' = i + 1 /\ i \in Nat
  BY <1>2, <1>7 DEF Turns, At
<1>10. \A k : Place(p, k)' = Place(p, k)
  BY <1>6, <1>8 DEF Place
<1>11. ASSUME NEW q \in Party \ {p}
       PROVE  /\ PartyOK(q)' /\ Turns(q)' = Turns(q) /\ n(q)' = n(q)
              /\ \A k : Place(q, k)' = Place(q, k)
  BY <1>1, <1>6 DEF PartyOK, Turns, At, n, Place
<1>12. PartyOK(p)'
  <2>1. i + 1 \in 0 .. n(p) - 1
    BY <1>2
  <2> QED BY <1>1, <1>2, <1>6, <1>7, <1>8, <2>1 DEF PartyOK, At
<1>13. TypeOK'
  BY <1>6, <1>11, <1>12 DEF IInv, TypeOK, PartyOK
<1>14. \A k \in 0 .. i : orders'[p][k] = orders[p][k]
  BY <1>6, <1>9 DEF Turned
<1>15. orders'[p][i + 1] = Swapped(orders[p][i], i, j)
  BY <1>6, <1>9 DEF Turned
<1>16. History(p)'
  <2>1. /\ orders[p][i] \in Orders(input[p])
        /\ data[p] = Arranged(input[p], orders[p][i])
        /\ \A k \in 0 .. i : orders[p][k] \in Orders(input[p])
    BY <1>9 DEF IInv, Histories, History
  <2>2. /\ Swapped(orders[p][i], i, j) \in Orders(input[p])
        /\ data'[p] = Arranged(input[p], Swapped(orders[p][i], i, j))
    BY <1>5, <1>6, <2>1, SwapIsOrder
  <2>3. Turns(p)' \in 1 .. n(p)' - 1 /\ seed'[p] \in ValidSeed
    BY <1>2, <1>6, <1>8, <1>9
  <2>4. orders'[p][0] = Identity(input'[p])
    <3>1. orders[p][0] = Identity(input[p])
      BY DEF IInv, Histories, History
    <3> QED BY <1>6, <1>9, <1>14, <3>1
  <2>5. \A k \in 0 .. i + 1 : orders'[p][k] \in Orders(input'[p])
    <3>1. \A k \in 0 .. i + 1 : k \in 0 .. i \/ k = i + 1
      BY <1>9
    <3> QED BY <1>6, <1>14, <1>15, <2>1, <2>2, <3>1
  <2>6. \A k \in 0 .. i : orders'[p][k + 1] = Swapped(orders'[p][k], k, Place(p, k)')
    <3>1. ASSUME NEW k \in 0 .. i, k # i
          PROVE  orders'[p][k + 1] = Swapped(orders'[p][k], k, Place(p, k)')
      <4>1. k \in 0 .. i - 1 /\ k + 1 \in 0 .. i
        BY <1>9, <3>1
      <4>2. orders[p][k + 1] = Swapped(orders[p][k], k, Place(p, k))
        BY <1>9, <4>1 DEF IInv, Histories, History
      <4> QED BY <1>10, <1>14, <4>1, <4>2
    <3>2. ASSUME NEW k \in 0 .. i, k = i
          PROVE  orders'[p][k + 1] = Swapped(orders'[p][k], k, Place(p, k)')
      <4>1. Place(p, k)' = Place(p, k) /\ Place(p, k) = j
        BY <1>10, <3>2 DEF j
      <4> QED BY <1>14, <1>15, <3>2, <4>1
    <3> QED BY <3>1, <3>2
  <2>7. Turns(p)' - 1 = i
    BY <1>9
  <2> QED BY <1>6, <1>9, <1>15, <2>2, <2>3, <2>4, <2>5, <2>6, <2>7 DEF History
<1>17. Histories'
  <2>1. ASSUME NEW q \in Party \ {p} PROVE History(q)'
    BY <1>6, <1>11 DEF IInv, Histories, History
  <2> QED BY <1>16, <2>1 DEF Histories
<1>18. \A q \in Party : Turns(q) \in Nat
  BY Lengths DEF IInv, Histories, History
<1>19. AllDecided'
  BY <1>6, <1>8, <1>9, <1>11, <1>13, <1>14, <1>17, <1>18, DecidedKept
<1> QED BY <1>13, <1>17, <1>19 DEF IInv

LEMMA NextIInv == IInv /\ [Next]_vars => IInv'
<1> SUFFICES ASSUME IInv, [Next]_vars PROVE IInv'
  OBVIOUS
<1>1. ASSUME NEW p \in Party, Step(p) PROVE IInv'
  <2>1. CASE ReturnTrivial(p)
    BY <2>1, ReturnKeeps DEF ReturnTrivial, Results
  <2>2. CASE RejectSeed(p)
    BY <2>2, ReturnKeeps DEF RejectSeed, Results
  <2>3. CASE GeneratorError(p)
    BY <2>3, ReturnKeeps DEF GeneratorError, MayFail, Results
  <2>4. CASE GenerateRand(p)
    BY <2>4, GenerateKeeps
  <2>5. CASE Swap(p)
    BY <2>5, SwapKeeps
  <2>6. CASE ReturnShuffled(p)
    BY <2>6, ReturnKeeps DEF ReturnShuffled, Results
  <2> QED BY <1>1, <2>1, <2>2, <2>3, <2>4, <2>5, <2>6 DEF Step
<1>2. CASE UNCHANGED vars
  <2>1. UNCHANGED <<input, seed, data, local, orders>>
    BY <1>2 DEF vars
  <2>2. TypeOK'
    BY <2>1 DEF IInv, TypeOK, At, n
  <2>3. \A p \in Party : Turns(p)' = Turns(p)
    BY <2>1 DEF Turns, At, n
  <2> QED BY <2>1, <2>2, <2>3, NoTurnKeeps
<1> QED BY <1>1, <1>2, CallKeeps DEF Next

LEMMA Inductive == Spec => []IInv
BY InitIInv, NextIInv, PTL DEF Spec
-----------------------------------------------------------------------------
\* Every number of the loop is drawn before it is used, and i stays inside.
THEOREM TypeCorrect == Spec => []TypeOK
<1>1. IInv => TypeOK
  BY DEF IInv
<1> QED BY <1>1, Inductive, PTL

LEMMA LastOrder ==
    ASSUME IInv, NEW p \in Party
    PROVE  /\ orders[p][Turns(p)] \in Orders(input[p])
           /\ data[p] = Arranged(input[p], orders[p][Turns(p)])
<1>1. Turns(p) \in Nat
  BY Lengths DEF IInv, Histories, History
<1> QED BY <1>1 DEF IInv, Histories, History

(***************************************************************************)
(* SecureShuffleWithSeed never loses or doubles an element, whatever the   *)
(* seed expands to.                                                        *)
(***************************************************************************)
THEOREM RearrangedCorrect == Spec => []Rearranged
<1>1. IInv => Rearranged
  BY LastOrder DEF Rearranged
<1> QED BY <1>1, Inductive, PTL

\* A shuffle that fails has not touched the vector of its caller.
THEOREM FailureCorrect == Spec => []FailureKeepsData
<1>1. ASSUME IInv, NEW p \in Party, local[p].pc \in Results \ {"Ok"}
      PROVE  data[p] = input[p]
  <2>1. Turns(p) = 0
    BY <1>1 DEF Turns, At, Results
  <2>2. data[p] = Arranged(input[p], Identity(input[p]))
    BY <1>1, <2>1 DEF IInv, Histories, History
  <2>3. input[p] \in [DOMAIN input[p] -> Element]
    BY <1>1, Lengths, ShuffleAssumption DEF IInv
  <2> QED BY <2>2, <2>3, IdentityArranges
<1>2. IInv => FailureKeepsData
  BY <1>1 DEF FailureKeepsData
<1> QED BY <1>2, Inductive, PTL

(***************************************************************************)
(* Two parties with the same seed and equally many elements apply one      *)
(* permutation, so the shares of a number stay together.                   *)
(***************************************************************************)
THEOREM SameOrderCorrect == Spec => []SameSeedSameOrder
<1>1. ASSUME IInv, NEW p \in Party, NEW q \in Party,
             Shuffled(p), Shuffled(q), seed[p] = seed[q], n(p) = n(q)
      PROVE  \E order \in Orders(input[p]) :
                /\ data[p] = Arranged(input[p], order)
                /\ data[q] = Arranged(input[q], order)
  <2>1. Turns(p) = Turns(q)
    BY <1>1 DEF Shuffled, Turns, At
  <2>2. Turns(p) \in Nat
    BY <1>1, Lengths DEF IInv, Histories, History
  <2>3. SamePlaces(p, q, Turns(p))
    BY <1>1 DEF SamePlaces, Place
  <2>4. orders[p][Turns(p)] = orders[q][Turns(q)]
    BY <1>1, <2>1, <2>2, <2>3 DEF IInv, AllDecided, Decided
  <2> QED BY <1>1, <2>4, LastOrder
<1>2. IInv => SameSeedSameOrder
  BY <1>1 DEF SameSeedSameOrder
<1> QED BY <1>2, Inductive, PTL

(***************************************************************************)
(* Fisher-Yates: the result of equal vectors of distinct elements decides  *)
(* every position that was drawn, and is decided by them.  The vectors     *)
(* must be short enough for the generator to fill all their numbers.       *)
(***************************************************************************)
THEOREM SwapsDecideCorrect ==
    ASSUME \A d \in Input : Size(d) < RandRange
    PROVE  Spec => []SwapsDecideOrder
<1>1. ASSUME IInv, NEW p \in Party, NEW q \in Party,
             Shuffled(p), Shuffled(q), input[p] = input[q], IsInjective(input[p])
      PROVE  data[p] = data[q] <=>
                \A i \in 0 .. n(p) - 2 :
                    Rand[seed[p]][i] % (n(p) - i) = Rand[seed[q]][i] % (n(p) - i)
  <2>1. /\ n(p) \in Nat /\ n(p) < RandRange /\ n(q) = n(p)
        /\ DOMAIN input[p] = 0 .. n(p) - 1 /\ input[p] \in Input
    BY <1>1, Lengths DEF IInv
  <2> DEFINE m == Turns(p)
             remainder(s, i) == Rand[s][i] % (n(p) - i)
  <2>2. m = Turns(q) /\ m = IF n(p) > 1 THEN n(p) - 1 ELSE 0
    BY <1>1, <2>1 DEF Shuffled, Turns, At
  <2>3. m \in Nat /\ 0 .. m - 1 = 0 .. n(p) - 2 /\ 0 .. m - 1 \subseteq 0 .. n(p) - 1
    BY <2>1, <2>2
  <2> HIDE DEF m
  <2>4. ASSUME NEW i \in 0 .. m - 1
        PROVE  /\ Place(p, i) = i + remainder(seed[p], i)
               /\ Place(q, i) = i + remainder(seed[q], i)
               /\ remainder(seed[p], i) \in Int /\ remainder(seed[q], i) \in Int
    <3>1. i \in 0 .. n(p) - 1 /\ n(p) - i \in Nat \ {0} /\ i \in Nat
      BY <2>1, <2>3
    <3>2. n(p) % RandRange = n(p)
      BY <2>1, ShuffleAssumption, SMTT(30)
    <3>3. /\ RandOf(seed[p], n(p))[i] = Rand[seed[p]][i]
          /\ RandOf(seed[q], n(q))[i] = Rand[seed[q]][i]
      BY <2>1, <3>1, <3>2 DEF RandOf, Filled
    <3>4. /\ Place(p, i) = i + remainder(seed[p], i)
          /\ Place(q, i) = i + remainder(seed[q], i)
      BY <2>1, <3>3 DEF Place, Position
    <3>5. Rand[seed[p]][i] \in Nat /\ Rand[seed[q]][i] \in Nat
      BY <1>1, <2>1, <3>1, ShuffleAssumption DEF Shuffled
    <3>6. \A r \in Nat, d \in Nat \ {0} : r % d \in Int
      OBVIOUS
    <3> QED BY <3>1, <3>4, <3>5, <3>6
  <2>5. SamePlaces(p, q, m) <=>
            \A i \in 0 .. m - 1 : remainder(seed[p], i) = remainder(seed[q], i)
    <3>1. ASSUME NEW i \in 0 .. m - 1
          PROVE  Place(p, i) = Place(q, i) <=> remainder(seed[p], i) = remainder(seed[q], i)
      <4> HIDE DEF remainder
      <4>1. i \in Int
        OBVIOUS
      <4> QED BY <2>4, <4>1
    <3> QED BY <3>1 DEF SamePlaces
  <2>6. /\ SamePlaces(p, q, m) => orders[p][m] = orders[q][m]
        /\ SameSettled(p, q, m) => SamePlaces(p, q, m)
    <3>1. Decided(p, q) /\ m <= Turns(p) /\ m <= Turns(q)
      BY <1>1, <2>2, <2>3 DEF IInv, AllDecided, m
    <3> QED BY <2>1, <2>3, <3>1 DEF Decided
  <2>7. /\ orders[p][m] \in Orders(input[p]) /\ data[p] = Arranged(input[p], orders[p][m])
        /\ orders[q][m] \in Orders(input[p]) /\ data[q] = Arranged(input[p], orders[q][m])
    BY <1>1, <2>2, LastOrder DEF m
  <2>8. ASSUME data[p] = data[q]
        PROVE  SameSettled(p, q, m)
    <3> SUFFICES ASSUME NEW i \in 0 .. m - 1
                 PROVE  orders[p][m][i] = orders[q][m][i]
      BY DEF SameSettled
    <3>1. i \in DOMAIN input[p]
      BY <2>1, <2>3
    <3>2. input[p][orders[p][m][i]] = input[p][orders[q][m][i]]
      BY <2>7, <2>8, <3>1 DEF Arranged
    <3>3. orders[p][m][i] \in DOMAIN input[p] /\ orders[q][m][i] \in DOMAIN input[p]
      BY <2>7, <3>1 DEF Orders, Injection
    <3> QED BY <1>1, <3>2, <3>3 DEF IsInjective
  <2>9. data[p] = data[q] <=> SamePlaces(p, q, m)
    BY <2>6, <2>7, <2>8
  <2> QED BY <2>3, <2>5, <2>9
<1>2. IInv => SwapsDecideOrder
  BY <1>1 DEF SwapsDecideOrder
<1> QED BY <1>2, Inductive, PTL
-----------------------------------------------------------------------------
(***************************************************************************)
(* The composition.  What is proved of SecretSharing is taken over as a    *)
(* second instance of it, whose definitions are those of the first.        *)
(***************************************************************************)
Proved == INSTANCE SecretSharingProofs WITH Generator <- Party, Script <- Expansion

\* The definitions of the two instances of SecretSharing are the same.
LEMMA SameArithmetic ==
    \A m : /\ Proved!BytesPerValue(m) = Sharing!BytesPerValue(m)
           /\ Proved!MaskRange(m) = Sharing!MaskRange(m)
           /\ \A k : Proved!SampleSize(k, m) = Sharing!SampleSize(k, m)
           /\ \A arr, i : Proved!ValueAt(arr, i, m) = Sharing!ValueAt(arr, i, m)
<1>1. \A m : /\ Proved!BytesPerValue(m) = Sharing!BytesPerValue(m)
             /\ Proved!MaskRange(m) = Sharing!MaskRange(m)
  BY Zenon DEF Proved!Word, Sharing!Word, Proved!BitLength, Sharing!BitLength,
     Proved!Shifted, Sharing!Shifted, Proved!MaskRange, Sharing!MaskRange,
     Proved!BytesPerValue, Sharing!BytesPerValue
<1>2. \A k, m : Proved!SampleSize(k, m) = Sharing!SampleSize(k, m)
  <2>1. \A m : Proved!Shifted(Proved!BitLength(m)) = Sharing!Shifted(Sharing!BitLength(m))
    BY Zenon DEF Proved!BitLength, Sharing!BitLength, Proved!Shifted,
       Sharing!Shifted
  <2>2. \A a, b : Proved!Truncate(a, b) = Sharing!Truncate(a, b)
    BY Zenon DEF Proved!Truncate, Sharing!Truncate
  <2> QED
    BY <2>1, <2>2 DEF Proved!SampleSize, Sharing!SampleSize, Proved!Wanted,
       Sharing!Wanted, Proved!Word, Sharing!Word
<1>3. \A arr, i, m : Proved!ValueAt(arr, i, m) = Sharing!ValueAt(arr, i, m)
  BY Zenon DEF Proved!Word, Sharing!Word, Proved!BitLength, Sharing!BitLength,
     Proved!Shifted, Sharing!Shifted, Proved!MaskRange, Sharing!MaskRange,
     Proved!BytesPerValue, Sharing!BytesPerValue, Proved!ValueAt,
     Sharing!ValueAt, Proved!FoldLeft, Sharing!FoldLeft,
     Proved!MapThenFoldSet, Sharing!MapThenFoldSet, Proved!Max, Sharing!Max
<1> QED  BY <1>1, <1>2, <1>3

LEMMA SameStep == \A p : Proved!GeneratorStep(p) <=> Sharing!GeneratorStep(p)
<1> TAKE p
<1>1. Proved!GeneratePseudorandomBytes(p) <=> Sharing!GeneratePseudorandomBytes(p)
  BY Zenon DEF Proved!GeneratePseudorandomBytes,
     Sharing!GeneratePseudorandomBytes, Proved!At, Sharing!At, Proved!Pending,
     Sharing!Pending, Proved!Call, Sharing!Call, Proved!Word, Sharing!Word,
     Proved!Respond, Sharing!Respond, Proved!Step, Sharing!Step, Proved!Start,
     Sharing!Start, Proved!Filled, Sharing!Filled, Proved!TooManyBytes,
     Sharing!TooManyBytes, Proved!BytesFail, Sharing!BytesFail,
     Proved!BytesError, Sharing!BytesError, Proved!Advance, Sharing!Advance,
     Proved!Encrypted, Sharing!Encrypted, Proved!Take, Sharing!Take,
     Proved!Zeros, Sharing!Zeros, Proved!OK, Sharing!OK,
     Proved!InvalidArgument, Sharing!InvalidArgument, Proved!Internal,
     Sharing!Internal
<1>2. Proved!InvalidCall(p) <=> Sharing!InvalidCall(p)
  BY Zenon DEF Proved!InvalidCall, Sharing!InvalidCall, Proved!At, Sharing!At,
     Proved!Pending, Sharing!Pending, Proved!Call, Sharing!Call,
     Proved!InvalidArgument, Sharing!InvalidArgument, Proved!Respond,
     Sharing!Respond, Proved!Step, Sharing!Step, Proved!Start, Sharing!Start
<1>3. Proved!Begin(p) <=> Sharing!Begin(p)
  BY Zenon DEF Proved!Begin, Sharing!Begin, Proved!At, Sharing!At,
     Proved!Pending, Sharing!Pending, Proved!Call, Sharing!Call, Proved!Step,
     Sharing!Step
<1>4. Proved!DrawSamples(p) <=> Sharing!DrawSamples(p)
  BY SameArithmetic, Zenon DEF Proved!DrawSamples, Sharing!DrawSamples,
     Proved!At, Sharing!At, Proved!Call, Sharing!Call, Proved!Word,
     Sharing!Word, Proved!Respond, Sharing!Respond, Proved!Step, Sharing!Step,
     Proved!Start, Sharing!Start, Proved!Filled, Sharing!Filled,
     Proved!TooManyBytes, Sharing!TooManyBytes, Proved!BytesFail,
     Sharing!BytesFail, Proved!BytesError, Sharing!BytesError, Proved!Advance,
     Sharing!Advance, Proved!Encrypted, Sharing!Encrypted, Proved!Take,
     Sharing!Take, Proved!Zeros, Sharing!Zeros, Proved!OK, Sharing!OK,
     Proved!InvalidArgument, Sharing!InvalidArgument, Proved!Internal,
     Sharing!Internal
<1>5. Proved!Sample(p) <=> Sharing!Sample(p)
  BY SameArithmetic, Zenon DEF Proved!Sample, Sharing!Sample, Proved!At,
     Sharing!At, Proved!Call, Sharing!Call, Proved!Sampling, Sharing!Sampling,
     Proved!Keep, Sharing!Keep, Proved!Step, Sharing!Step, Proved!Acceptable,
     Sharing!Acceptable
<1>6. Proved!SampleBeyond(p) <=> Sharing!SampleBeyond(p)
  BY SameArithmetic, Zenon DEF Proved!SampleBeyond, Sharing!SampleBeyond,
     Proved!At, Sharing!At, Proved!Call, Sharing!Call, Proved!Sampling,
     Sharing!Sampling, Proved!Keep, Sharing!Keep, Proved!Step, Sharing!Step,
     Proved!Acceptable, Sharing!Acceptable
<1>7. Proved!EndSamples(p) <=> Sharing!EndSamples(p)
  BY Zenon DEF Proved!EndSamples, Sharing!EndSamples, Proved!At, Sharing!At,
     Proved!Step, Sharing!Step
<1>8. Proved!RangeReturn(p) <=> Sharing!RangeReturn(p)
  BY Zenon DEF Proved!RangeReturn, Sharing!RangeReturn, Proved!At, Sharing!At,
     Proved!Call, Sharing!Call, Proved!RangeFull, Sharing!RangeFull,
     Proved!OK, Sharing!OK, Proved!Respond, Sharing!Respond, Proved!Step,
     Sharing!Step, Proved!Start, Sharing!Start
<1>9. Proved!NonZeroSamples(p) <=> Sharing!NonZeroSamples(p)
  BY Zenon DEF Proved!NonZeroSamples, Sharing!NonZeroSamples, Proved!At,
     Sharing!At, Proved!Call, Sharing!Call, Proved!RangeFull,
     Sharing!RangeFull, Proved!Step, Sharing!Step
<1>10. Proved!NonZeroKeep(p) <=> Sharing!NonZeroKeep(p)
  BY Zenon DEF Proved!NonZeroKeep, Sharing!NonZeroKeep, Proved!At, Sharing!At,
     Proved!Call, Sharing!Call, Proved!Filtering, Sharing!Filtering,
     Proved!Step, Sharing!Step
<1>11. Proved!NonZeroEnd(p) <=> Sharing!NonZeroEnd(p)
  BY Zenon DEF Proved!NonZeroEnd, Sharing!NonZeroEnd, Proved!At, Sharing!At,
     Proved!Call, Sharing!Call, Proved!Filtering, Sharing!Filtering,
     Proved!Step, Sharing!Step
<1>12. Proved!NonZeroDraw(p) <=> Sharing!NonZeroDraw(p)
  BY Zenon DEF Proved!NonZeroDraw, Sharing!NonZeroDraw, Proved!At, Sharing!At,
     Proved!Call, Sharing!Call, Proved!Step, Sharing!Step,
     Proved!NonZeroSampleSize, Sharing!NonZeroSampleSize, Proved!Wanted,
     Sharing!Wanted
<1>13. Proved!NonZeroReturn(p) <=> Sharing!NonZeroReturn(p)
  BY Zenon DEF Proved!NonZeroReturn, Sharing!NonZeroReturn, Proved!At,
     Sharing!At, Proved!Call, Sharing!Call, Proved!OK, Sharing!OK,
     Proved!Respond, Sharing!Respond, Proved!Step, Sharing!Step, Proved!Start,
     Sharing!Start
<1> QED  BY <1>1, <1>2, <1>3, <1>4, <1>5, <1>6, <1>7, <1>8, <1>9, <1>10, <1>11, <1>12,
          <1>13 DEF Proved!GeneratorStep, Sharing!GeneratorStep

LEMMA SameSharing ==
    /\ Proved!SharingInit <=> Sharing!SharingInit
    /\ Proved!SharingNext <=> Sharing!SharingNext
    /\ Proved!RingsFit <=> Sharing!RingsFit
    /\ Proved!SharesReconstruct <=> Sharing!SharesReconstruct
<1>1. Proved!SharingInit <=> Sharing!SharingInit
  BY Zenon DEF Proved!SharingInit, Sharing!SharingInit, Proved!ExpandCall,
     Sharing!ExpandCall, Proved!Start, Sharing!Start, Proved!NoShare,
     Sharing!NoShare, Proved!SecretShare, Sharing!SecretShare
<1>2. Proved!RejectRequest <=> Sharing!RejectRequest
  BY Zenon DEF Proved!RejectRequest, Sharing!RejectRequest, Proved!Valid,
     Sharing!Valid, Proved!NoShare, Sharing!NoShare, Proved!Answer,
     Sharing!Answer, Proved!SecretShare, Sharing!SecretShare, Proved!vars,
     Sharing!vars
<1>3. Proved!NoRandomness <=> Sharing!NoRandomness
  BY Zenon DEF Proved!NoRandomness, Sharing!NoRandomness, Proved!Valid,
     Sharing!Valid, Proved!NoShare, Sharing!NoShare, Proved!Answer,
     Sharing!Answer, Proved!SecretShare, Sharing!SecretShare, Proved!vars,
     Sharing!vars, Proved!Start, Sharing!Start
<1>4. Proved!ExpandFirstShare <=> Sharing!ExpandFirstShare
  BY SameStep, Zenon DEF Proved!ExpandFirstShare, Sharing!ExpandFirstShare,
     Proved!Valid, Sharing!Valid, Proved!NoShare, Sharing!NoShare,
     Proved!SecretShare, Sharing!SecretShare
<1>5. Proved!SubtractFirstShare <=> Sharing!SubtractFirstShare
  BY Zenon DEF Proved!SubtractFirstShare, Sharing!SubtractFirstShare,
     Proved!Valid, Sharing!Valid, Proved!NoShare, Sharing!NoShare,
     Proved!SecretShare, Sharing!SecretShare, Proved!Pending, Sharing!Pending,
     Proved!ResultOf, Sharing!ResultOf, Proved!SubMod, Sharing!SubMod,
     Proved!Word, Sharing!Word, Proved!Answer, Sharing!Answer, Proved!vars,
     Sharing!vars
<1>6. Proved!ExpandSeed <=> Sharing!ExpandSeed
  BY SameStep, Zenon DEF Proved!ExpandSeed, Sharing!ExpandSeed
<1>7. Proved!RingsFit <=> Sharing!RingsFit
  BY SameArithmetic, Zenon DEF Proved!RingsFit, Sharing!RingsFit
<1>8. Proved!SharesReconstruct <=> Sharing!SharesReconstruct
  BY Zenon DEF Proved!SharesReconstruct, Sharing!SharesReconstruct,
     Proved!Pending, Sharing!Pending, Proved!ResultOf, Sharing!ResultOf
<1> QED  BY <1>1, <1>2, <1>3, <1>4, <1>5, <1>6, <1>7, <1>8
           DEF Proved!SharingNext, Sharing!SharingNext, Proved!DealerStep, Sharing!DealerStep
-----------------------------------------------------------------------------
(***************************************************************************)
(* What the parties of secret sharing rely on holds in the composition.    *)
(***************************************************************************)
LEMMA ComposedAssumption == Proved!SharingAssumption
BY CompositionAssumption DEF Proved!SharingAssumption, Proved!ExpandCall, Proved!Word, Expansion

LEMMA ComposedGenerator ==
    /\ ByteBits \in Nat \ {0} /\ WordBits \in Nat \ {0} /\ Proved!Word \in Nat \ {0}
    /\ Stream \subseteq Seq(Proved!Byte) \ {<< >>}
    /\ Expansion \subseteq Seq([op : {"bytes", "range", "nonzero"}, size : Int,
                                modulus : 0 .. Proved!Word - 1])
<1>1. Proved!Word = 2 ^ WordBits /\ Proved!Byte = 0 .. 2 ^ ByteBits - 1
  BY DEF Proved!Word, Proved!Byte
<1>2. Proved!Word \in Nat \ {0} /\ Stream \subseteq Seq(Proved!Byte) \ {<< >>}
  <2>1. WordBits \in 0 .. WordBits
    BY StreamAssumption
  <2> QED  BY <1>1, <2>1, StreamAssumption
<1>3. ASSUME NEW r \in ShareRequest
      PROVE  <<[op |-> "range", size |-> Len(r.data), modulus |-> r.ring_modulus]>>
                \in Seq([op : {"bytes", "range", "nonzero"}, size : Int, modulus : 0 .. Proved!Word - 1])
  <2>1. Len(r.data) \in Int /\ r.ring_modulus \in 0 .. Proved!Word - 1
    BY <1>1, CompositionAssumption
  <2> QED  BY <2>1
<1> QED  BY <1>2, <1>3, StreamAssumption DEF Expansion

LEMMA ComposedPowers ==
    /\ 2 ^ ByteBits \in Nat \ {0}
    /\ \A b \in 0 .. WordBits : 2 ^ b \in Nat \ {0}
    /\ \A b \in 1 .. WordBits : 2 ^ b = 2 * 2 ^ (b - 1)
BY StreamAssumption

LEMMA ComposedInit == SharedInit => Proved!SharingInit
BY SameSharing DEF SharedInit

LEMMA ComposedStep ==
    [SharedNext]_<<sharingVars, shuffleVars>> => [Proved!SharingNext]_Proved!shareVars
BY SameSharing, Zenon
   DEF SharedNext, SharingStep, ShuffleShare, ShuffleVector, ShuffleStep, sharingVars,
       Proved!shareVars, Proved!vars

LEMMA ComposedSharing == SharedSpec => Proved!SharingSpec
BY ComposedInit, ComposedStep, PTL DEF SharedSpec, Proved!SharingSpec

\* What is proved of SecretSharing, in the composition.
SharingKept == Proved!Inv /\ Proved!SharesInv /\ Proved!SharesFit

LEMMA SharingHolds == ASSUME Sharing!RingsFit PROVE SharedSpec => []SharingKept
<1>1. Proved!SharingSpec => [](Proved!Inv /\ Proved!SharesInv /\ Proved!SharesFit)
  <2>1. Proved!RingsFit
    BY SameSharing
  <2> QED  BY <2>1, ComposedAssumption, ComposedGenerator, ComposedPowers, Proved!FitsCorrect, Zenon
<1> QED  BY <1>1, ComposedSharing, PTL DEF SharingKept

(***************************************************************************)
(* The two shares add up, whatever the parties do with them in between.    *)
(***************************************************************************)
THEOREM SharesCorrect == ASSUME Sharing!RingsFit PROVE SharedSpec => []SharesReconstruct
<1>1. Proved!SharingSpec => []Proved!SharesReconstruct
  <2>1. Proved!RingsFit
    BY SameSharing
  <2> QED  BY <2>1, ComposedAssumption, ComposedGenerator, ComposedPowers,
          Proved!ReconstructCorrect, Zenon
<1>2. Proved!SharesReconstruct => SharesReconstruct
  BY SameSharing DEF SharesReconstruct
<1> QED  BY <1>1, <1>2, ComposedSharing, PTL
-----------------------------------------------------------------------------
(***************************************************************************)
(* The parties of the composition shuffle: a share is a vector that may be *)
(* shuffled, so what is proved of the shuffle holds of it.                 *)
(***************************************************************************)
LEMMA RequestOfShares ==
    ASSUME SharingKept
    PROVE  /\ request \in ShareRequest /\ Len(request.data) \in Nat
           /\ DOMAIN request.data = 1 .. Len(request.data)
           /\ [0 .. Len(request.data) - 1 -> 0 .. request.ring_modulus - 1] \subseteq Input
<1>1. request \in ShareRequest
  BY DEF SharingKept, Proved!SharesInv
<1>2. request.data \in Seq(0 .. 2 ^ WordBits - 1)
  BY <1>1, CompositionAssumption
<1> QED  BY <1>1, <1>2, CompositionAssumption

LEMMA SharesAreVectors ==
    ASSUME SharingKept, NEW p \in Party, HasShare(p)
    PROVE  ShareOf(p) \in [0 .. Len(request.data) - 1 -> 0 .. request.ring_modulus - 1]
<1> DEFINE v == IF p = Dealer THEN share.share_vector ELSE Sharing!ResultOf(Helper, 1).values
<1>1. p = Dealer \/ p = Helper
  BY CompositionAssumption
<1>2. Sharing!Pending(Helper) = Proved!Pending(Helper)
      /\ Sharing!ResultOf(Helper, 1) = Proved!ResultOf(Helper, 1)
  BY DEF Sharing!Pending, Proved!Pending, Sharing!ResultOf, Proved!ResultOf
<1>3. /\ Len(v) = Len(request.data)
      /\ \A i \in DOMAIN request.data : v[i] \in 0 .. request.ring_modulus - 1
  BY <1>1, <1>2 DEF HasShare, SharingKept, Proved!SharesFit
<1> HIDE DEF v
<1>4. \A i \in 0 .. Len(request.data) - 1 : i + 1 \in DOMAIN request.data
  BY RequestOfShares
<1>5. ZeroBased(v) \in [0 .. Len(request.data) - 1 -> 0 .. request.ring_modulus - 1]
  BY <1>3, <1>4 DEF ZeroBased
<1> QED  BY <1>5 DEF ShareOf, v

LEMMA ComposedShuffle == SharingKept /\ [SharedNext]_<<sharingVars, shuffleVars>> => [Next]_vars
<1> SUFFICES ASSUME SharingKept, [SharedNext]_<<sharingVars, shuffleVars>> PROVE [Next]_vars
  OBVIOUS
<1>1. CASE SharingStep \/ UNCHANGED <<sharingVars, shuffleVars>>
  BY <1>1 DEF SharingStep, shuffleVars, vars
<1>2. ASSUME NEW p \in Party, ShuffleShare(p) PROVE Next
  <2>1. ShareOf(p) \in Input
    BY <1>2, SharesAreVectors, RequestOfShares DEF ShuffleShare
  <2>2. PICK s \in SharedSeed : Call(p, ShareOf(p), s)
    BY <1>2 DEF ShuffleShare
  <2>3. s \in Seed
    BY CompositionAssumption
  <2> QED  BY <2>1, <2>2, <2>3 DEF Next
<1>3. ASSUME NEW p \in Party, ShuffleVector(p) PROVE Next
  BY <1>3, CompositionAssumption DEF ShuffleVector, Next
<1>4. ASSUME NEW p \in Party, ShuffleStep(p) PROVE Next
  BY <1>4 DEF ShuffleStep, Next
<1> QED  BY <1>1, <1>2, <1>3, <1>4 DEF SharedNext

LEMMA ComposedIInv == ASSUME Sharing!RingsFit PROVE SharedSpec => []IInv
<1>1. SharedInit => IInv
  BY InitIInv DEF SharedInit
<1>2. SharingKept /\ IInv /\ [SharedNext]_<<sharingVars, shuffleVars>> => IInv'
  BY ComposedShuffle, NextIInv
<1> QED  BY <1>1, <1>2, SharingHolds, PTL DEF SharedSpec

(***************************************************************************)
(* The parties that shuffle their shares, or vectors of their own, behave  *)
(* like any parties that shuffle: all theorems about the shuffle apply.    *)
(***************************************************************************)
THEOREM ImplementsShuffle == ASSUME Sharing!RingsFit PROVE SharedSpec => Spec
<1>1. SharedInit => Init
  BY DEF SharedInit
<1> QED  BY <1>1, ComposedShuffle, SharingHolds, PTL DEF SharedSpec, Spec

(***************************************************************************)
(* Who shuffles before there are shares has none; with shares everybody    *)
(* shuffles the own one, with one seed, and no share changes any more.     *)
(***************************************************************************)
OwnShares ==
    /\ share = Sharing!NoShare => \A p \in Party : At(p, "idle")
    /\ share.status = "Ok" =>
          \A p \in Party : ~At(p, "idle") =>
              /\ HasShare(p) /\ input[p] = ShareOf(p)
              /\ \A q \in Party : ~At(q, "idle") => seed[q] = seed[p]

LEMMA OwnSharesInit == SharedInit => OwnShares
BY DEF SharedInit, Init, Sharing!SharingInit, Sharing!NoShare, Sharing!SecretShare, OwnShares,
       At, Local

\* A share stays what it is, and so does what the helper has expanded.
LEMMA SharesStay ==
    ASSUME SharingKept, Sharing!SharingNext, share.status = "Ok"
    PROVE  /\ share' = share
           /\ \A p \in Party : HasShare(p) => HasShare(p)' /\ ShareOf(p)' = ShareOf(p)
<1>1. Sharing!ExpandSeed
  BY DEF Sharing!SharingNext, Sharing!DealerStep, Sharing!RejectRequest, Sharing!NoRandomness,
         Sharing!ExpandFirstShare, Sharing!SubtractFirstShare, Sharing!NoShare, Sharing!SecretShare
<1>2. share' = share
  BY <1>1 DEF Sharing!ExpandSeed
<1>3. Sharing!Pending(Helper)
  <2>1. Proved!GeneratorStep(Helper) /\ Helper \in Party /\ Proved!Inv
    BY <1>1, SameStep, CompositionAssumption DEF Sharing!ExpandSeed, SharingKept
  <2>2. Proved!Pending(Helper)
    BY <2>1, ComposedGenerator, ComposedPowers, Proved!StepsPend, Zenon
  <2> QED  BY <2>2 DEF Proved!Pending, Sharing!Pending
<1>4. ASSUME NEW p \in Party, HasShare(p) PROVE HasShare(p)' /\ ShareOf(p)' = ShareOf(p)
  <2>1. p = Dealer
    BY <1>3, <1>4, CompositionAssumption DEF HasShare
  <2> QED  BY <1>2, <1>4, <2>1, CompositionAssumption DEF HasShare, ShareOf
<1> QED  BY <1>2, <1>4

LEMMA SharingKeepsOwn ==
    ASSUME SharingKept, OwnShares, SharingStep
    PROVE  OwnShares'
<1>1. UNCHANGED <<input, seed, data, local, orders>> /\ Sharing!SharingNext
  BY DEF SharingStep, shuffleVars
<1>2. \A p \in Party : At(p, "idle")' <=> At(p, "idle")
  BY <1>1 DEF At
<1>3. CASE share.status = "Ok"
  <2>1. share' = share
    BY <1>1, <1>3, SharesStay
  <2>2. share' # Sharing!NoShare
    BY <1>3, <2>1 DEF Sharing!NoShare, Sharing!SecretShare
  <2>3. ASSUME NEW p \in Party, ~At(p, "idle")'
        PROVE  /\ HasShare(p)' /\ input'[p] = ShareOf(p)'
               /\ \A q \in Party : ~At(q, "idle")' => seed'[q] = seed'[p]
    <3>1. /\ HasShare(p) /\ input[p] = ShareOf(p)
          /\ \A q \in Party : ~At(q, "idle") => seed[q] = seed[p]
      BY <1>2, <1>3, <2>3 DEF OwnShares
    <3>2. HasShare(p)' /\ ShareOf(p)' = ShareOf(p)
      BY <1>1, <1>3, <3>1, SharesStay
    <3> QED  BY <1>1, <1>2, <3>1, <3>2
  <2> QED  BY <2>2, <2>3 DEF OwnShares, Sharing!NoShare
<1>4. CASE share.status # "Ok"
  <2>1. share = Sharing!NoShare \/ share' = share
    BY <1>1, <1>4 DEF Sharing!SharingNext, Sharing!DealerStep, Sharing!RejectRequest,
          Sharing!NoRandomness, Sharing!ExpandFirstShare, Sharing!SubtractFirstShare,
          Sharing!ExpandSeed
  <2>2. CASE share = Sharing!NoShare
    BY <1>2, <2>2 DEF OwnShares
  <2>3. CASE share' = share /\ share # Sharing!NoShare
    BY <1>4, <2>3 DEF OwnShares, Sharing!NoShare
  <2> QED  BY <2>1, <2>2, <2>3
<1> QED  BY <1>3, <1>4

\* A party that begins to shuffle its share.
LEMMA CallKeepsOwn ==
    ASSUME SharingKept, IInv, OwnShares, NEW p \in Party, ShuffleShare(p)
    PROVE  OwnShares'
<1>1. PICK s \in SharedSeed : Agreed(s) /\ Call(p, ShareOf(p), s)
  BY DEF ShuffleShare
<1>2. HasShare(p) /\ UNCHANGED <<share, gen, script, request>>
  BY DEF ShuffleShare, sharingVars
<1>3. /\ local' = [local EXCEPT ![p] = Local("call", NoRand, 0)]
      /\ input' = [input EXCEPT ![p] = ShareOf(p)] /\ seed' = [seed EXCEPT ![p] = s]
  BY <1>1 DEF Call, Set
<1>4. DOMAIN local = Party /\ DOMAIN input = Party /\ DOMAIN seed = Party
  BY DEF IInv, TypeOK
<1>5. \A q \in Party : HasShare(q)' = HasShare(q) /\ ShareOf(q)' = ShareOf(q)
  BY <1>2 DEF HasShare, ShareOf, Sharing!Pending, Sharing!ResultOf
<1>6. share.status = "Ok" /\ share' = share
  BY <1>2 DEF HasShare
<1>7. \A q \in Party \ {p} : /\ input'[q] = input[q] /\ seed'[q] = seed[q]
                             /\ At(q, "idle")' = At(q, "idle")
  BY <1>3, <1>4 DEF At
<1>8. ~At(p, "idle")' /\ input'[p] = ShareOf(p) /\ seed'[p] = s
  BY <1>3, <1>4 DEF At, Local
<1>9. \A q \in Party : ~At(q, "idle")' => seed'[q] = s
  BY <1>1, <1>7, <1>8 DEF Agreed
<1>10. \A q \in Party : ~At(q, "idle")' => HasShare(q)' /\ input'[q] = ShareOf(q)'
  BY <1>2, <1>5, <1>6, <1>7, <1>8 DEF OwnShares
<1>11. share' # Sharing!NoShare
  BY <1>6 DEF Sharing!NoShare, Sharing!SecretShare
<1> QED  BY <1>9, <1>10, <1>11 DEF OwnShares, Sharing!NoShare

LEMMA ShuffleKeepsOwn ==
    ASSUME SharingKept, IInv, OwnShares, NEW p \in Party, ShuffleStep(p)
    PROVE  OwnShares'
<1>1. Step(p) /\ UNCHANGED <<share, gen, script, request>>
  BY DEF ShuffleStep, sharingVars
<1>2. UNCHANGED <<input, seed>> /\ ~At(p, "idle")
  BY <1>1 DEF Step, ReturnTrivial, RejectSeed, GeneratorError, MayFail, GenerateRand, Swap,
        ReturnShuffled, Return, At
<1>3. \A q \in Party : At(q, "idle") => At(q, "idle")'
  <2>1. \E l : local' = [local EXCEPT ![p] = l]
    BY <1>1 DEF Step, ReturnTrivial, RejectSeed, GeneratorError, GenerateRand, Swap,
          ReturnShuffled, Return, Set
  <2>2. DOMAIN local = Party
    BY DEF IInv, TypeOK
  <2> QED  BY <1>2, <2>1, <2>2 DEF At
<1>4. \A q \in Party : HasShare(q)' = HasShare(q) /\ ShareOf(q)' = ShareOf(q)
  BY <1>1 DEF HasShare, ShareOf, Sharing!Pending, Sharing!ResultOf
<1> QED  BY <1>1, <1>2, <1>3, <1>4 DEF OwnShares, Sharing!NoShare

LEMMA OwnSharesStep ==
    SharingKept /\ IInv /\ OwnShares /\ [SharedNext]_<<sharingVars, shuffleVars>> => OwnShares'
<1> SUFFICES ASSUME SharingKept, IInv, OwnShares, [SharedNext]_<<sharingVars, shuffleVars>>
             PROVE  OwnShares'
  OBVIOUS
<1>1. CASE UNCHANGED <<sharingVars, shuffleVars>>
  BY <1>1 DEF sharingVars, shuffleVars, OwnShares, At, HasShare, ShareOf, Sharing!Pending,
        Sharing!ResultOf, Sharing!NoShare
<1>2. ASSUME NEW p \in Party, ShuffleVector(p) PROVE OwnShares'
  BY <1>2 DEF ShuffleVector, sharingVars, OwnShares, Sharing!NoShare, Sharing!SecretShare
<1> QED  BY <1>1, <1>2, SharingKeepsOwn, CallKeepsOwn, ShuffleKeepsOwn DEF SharedNext

\* Two parties that have shuffled vectors of one length with one seed have
\* shuffled them in one order, also where there was nothing to draw.
LEMMA OneOrder ==
    ASSUME IInv, NEW p \in Party, NEW q \in Party, At(p, "Ok"), At(q, "Ok"), seed[p] = seed[q],
           DOMAIN input[p] = DOMAIN input[q]
    PROVE  \E order \in Orders(input[p]) :
              data[p] = Arranged(input[p], order) /\ data[q] = Arranged(input[q], order)
<1>1. DOMAIN data[p] = DOMAIN data[q]
  BY DEF IInv, TypeOK
<1>2. n(p) = n(q)
  BY <1>1 DEF n, Size
<1>3. Turns(p) = Turns(q) /\ Turns(p) \in Nat
  BY <1>2, Lengths DEF Turns, At, IInv, Histories, History
<1>4. SamePlaces(p, q, Turns(p))
  BY <1>2 DEF SamePlaces, Place
<1>5. orders[p][Turns(p)] = orders[q][Turns(q)]
  BY <1>2, <1>3, <1>4 DEF IInv, AllDecided, Decided
<1> QED  BY <1>5, LastOrder

LEMMA ReconstructShuffled ==
    ASSUME SharingKept, IInv, OwnShares, SharesReconstruct
    PROVE  ShuffledSharesReconstruct
<1> SUFFICES ASSUME share.status = "Ok", \A p \in Party : At(p, "Ok")
             PROVE  \E order \in Orders(ZeroBased(request.data)) : \A i \in DOMAIN order :
                       (data[Dealer][i] + data[Helper][i]) % request.ring_modulus
                           = ZeroBased(request.data)[order[i]]
  BY DEF ShuffledSharesReconstruct
<1> DEFINE m == request.ring_modulus
           l == Len(request.data)
           given == ZeroBased(request.data)
<1>1. Dealer \in Party /\ Helper \in Party
  BY CompositionAssumption
<1>2. \A p \in Party : ~At(p, "idle")
  BY DEF At
<1>3. /\ HasShare(Dealer) /\ input[Dealer] = ShareOf(Dealer)
      /\ HasShare(Helper) /\ input[Helper] = ShareOf(Helper) /\ seed[Dealer] = seed[Helper]
  BY <1>1, <1>2 DEF OwnShares
<1>4. l \in Nat /\ DOMAIN request.data = 1 .. l /\ DOMAIN given = 0 .. l - 1
  BY RequestOfShares DEF ZeroBased
<1>5. input[Dealer] \in [0 .. l - 1 -> 0 .. m - 1] /\ input[Helper] \in [0 .. l - 1 -> 0 .. m - 1]
  BY <1>1, <1>3, SharesAreVectors
<1>6. \A k \in 0 .. l - 1 : ((input[Dealer][k] + input[Helper][k]) % m) = given[k]
  <2> TAKE k \in 0 .. l - 1
  <2>1. k + 1 \in DOMAIN request.data /\ k \in DOMAIN given
    BY <1>4
  <2>2. input[Dealer][k] = share.share_vector[k + 1]
    <3>1. k \in DOMAIN ZeroBased(share.share_vector)
      BY <1>3, <1>5, <2>1 DEF ShareOf
    <3> QED  BY <1>3, <3>1 DEF ShareOf, ZeroBased
  <2>3. input[Helper][k] = Sharing!ResultOf(Helper, 1).values[k + 1]
    <3>1. k \in DOMAIN ZeroBased(Sharing!ResultOf(Helper, 1).values)
      BY <1>3, <1>5, <2>1, CompositionAssumption DEF ShareOf
    <3> QED  BY <1>3, <3>1, CompositionAssumption DEF ShareOf, ZeroBased
  <2>4. ~Sharing!Pending(Helper)
    BY <1>3 DEF HasShare
  <2>5. ((share.share_vector[k + 1] + Sharing!ResultOf(Helper, 1).values[k + 1]) % m)
           = request.data[k + 1]
    BY <2>1, <2>4 DEF SharesReconstruct, Sharing!SharesReconstruct
  <2>6. given[k] = request.data[k + 1]
    BY <1>4, <2>1 DEF ZeroBased
  <2> QED  BY <2>2, <2>3, <2>5, <2>6
<1> HIDE DEF given, m, l
<1>7. PICK order \in Orders(input[Dealer]) :
         /\ data[Dealer] = Arranged(input[Dealer], order)
         /\ data[Helper] = Arranged(input[Helper], order)
  BY <1>1, <1>3, <1>5, OneOrder
<1>8. order \in Orders(given) /\ order \in [0 .. l - 1 -> 0 .. l - 1]
  BY <1>4, <1>5, <1>7 DEF Orders, Injection
<1>9. \A i \in DOMAIN order : ((data[Dealer][i] + data[Helper][i]) % m) = given[order[i]]
  BY <1>5, <1>6, <1>7, <1>8 DEF Arranged
<1> QED  BY <1>8, <1>9 DEF given, m

(***************************************************************************)
(* After each party has shuffled its own share, whenever and however the   *)
(* steps of the two are interleaved, the shares add up to the frequencies  *)
(* in a new order: both have drawn one permutation from the seed.          *)
(***************************************************************************)
THEOREM ShuffledSharesCorrect ==
    ASSUME Sharing!RingsFit PROVE SharedSpec => []ShuffledSharesReconstruct
<1>1. SharedSpec => []OwnShares
  BY OwnSharesInit, OwnSharesStep, SharingHolds, ComposedIInv, PTL DEF SharedSpec
<1> QED  BY <1>1, SharingHolds, ComposedIInv, SharesCorrect, ReconstructShuffled, PTL
=============================================================================
