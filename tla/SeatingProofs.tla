---------------------------- MODULE SeatingProofs ----------------------------
(***************************************************************************)
(* What IsAssignable means, for any teams and any sizes but zero.          *)
(***************************************************************************)
EXTENDS Seating, Functions, FiniteSetTheorems, FunctionTheorems, TLAPS

(***************************************************************************)
(* Integers that a client chooses and the division of Go.                  *)
(***************************************************************************)
LEMMA GoQuoNat ==
    ASSUME NEW a \in Nat, NEW b \in Nat \ {0}
    PROVE  GoQuo(a, b) = a \div b /\ GoQuo(a, b) \in Nat
  BY DEF GoQuo, Abs

LEMMA GoQuoZero == ASSUME NEW b \in Int \ {0} PROVE GoQuo(0, b) = 0
  <1>1. Abs(b) \in Nat \ {0} /\ Abs(0) = 0
    BY DEF Abs
  <1>2. 0 \div Abs(b) = 0
    BY <1>1
  <1> QED
    BY <1>1, <1>2 DEF GoQuo

LEMMA GoQuoNegative ==
    ASSUME NEW a \in Nat, NEW b \in Int, b < 0
    PROVE  GoQuo(a, b) <= 0
  <1>1. a \div (-b) \in Nat
    OBVIOUS
  <1> QED
    BY <1>1 DEF GoQuo, Abs

LEMMA GoRemNat ==
    ASSUME NEW a \in Nat, NEW b \in Nat \ {0}, ~ GoRem(a, b) > 0
    PROVE  a = (a \div b) * b
  <1> DEFINE q == a \div b
             prod == q * b
  <1>1. q \in Nat /\ prod \in Nat /\ b * q = prod /\ prod <= a
    OBVIOUS
  <1>2. GoRem(a, b) = a - prod
    BY <1>1, GoQuoNat DEF GoRem
  <1> HIDE DEF prod
  <1> QED
    BY <1>1, <1>2 DEF prod

LEMMA QuotientBound ==
    ASSUME NEW n \in Nat, NEW a \in Nat \ {0}, NEW b \in Nat \ {0}, (n * a) \div b >= a
    PROVE  n >= b
  <1> SUFFICES ASSUME n < b PROVE FALSE
    OBVIOUS
  <1> DEFINE prod == n * a
             q == prod \div b
  <1>1. prod \in Nat /\ q \in Nat
    OBVIOUS
  <1>2. b * q <= prod
    BY <1>1
  <1>3. b * a <= b * q
    BY <1>1
  <1>4. n * a < b * a
    OBVIOUS
  <1> QED
    BY <1>1, <1>2, <1>3, <1>4

(***************************************************************************)
(* What the check of a setup accepts, if there is a team: positive sizes,  *)
(* a table size that divides the team size, complete teams, and as many of *)
(* them as a table has seats (assign_tables.go:15-34).                     *)
(***************************************************************************)
LEMMA AssignableMeans ==
    ASSUME NEW teams, IsFiniteSet(DOMAIN teams), DOMAIN teams # {},
           \A t \in DOMAIN teams : IsFiniteSet(teams[t]),
           NEW teamSize \in Int \ {0}, NEW tableSize \in Int \ {0},
           IsAssignable(teams, teamSize, tableSize)
    PROVE  /\ teamSize > 0 /\ tableSize > 0
           /\ \E m \in 1 .. teamSize : teamSize = m * tableSize
           /\ \A t \in DOMAIN teams : Cardinality(teams[t]) = teamSize
           /\ Cardinality(DOMAIN teams) >= tableSize
  <1> DEFINE n == Cardinality(DOMAIN teams)
             prod == n * teamSize
  <1>1. \A t \in DOMAIN teams : Cardinality(teams[t]) = teamSize
    BY DEF IsAssignable
  <1>2. n \in Nat
    BY FS_CardinalityType
  <1>3. teamSize > 0
    <2>1. PICK t \in DOMAIN teams : TRUE
      OBVIOUS
    <2>2. Cardinality(teams[t]) \in Nat
      BY FS_CardinalityType
    <2> QED
      BY <1>1, <2>2
  <1>4. prod \in Nat
    BY <1>2, <1>3
  <1>5. GoQuo(prod, tableSize) >= teamSize
    BY DEF IsAssignable
  <1> HIDE DEF prod
  <1>6. tableSize > 0
    <2> SUFFICES ASSUME tableSize < 0 PROVE FALSE
      OBVIOUS
    <2>1. GoQuo(prod, tableSize) <= 0
      BY <1>4, GoQuoNegative
    <2>2. GoQuo(prod, tableSize) \in Int
      <3>1. prod \div (-tableSize) \in Nat
        BY <1>4
      <3> QED
        BY <1>4, <3>1 DEF GoQuo, Abs
    <2> QED
      BY <1>3, <1>5, <2>1, <2>2
  <1>7. teamSize = (teamSize \div tableSize) * tableSize
    <2>1. teamSize \in Nat /\ tableSize \in Nat \ {0} /\ ~ GoRem(teamSize, tableSize) > 0
      BY <1>3, <1>6 DEF IsAssignable
    <2> QED
      BY <2>1, GoRemNat
  <1>8. teamSize \div tableSize \in 1 .. teamSize
    <2> DEFINE q == teamSize \div tableSize
    <2>1. q \in Nat /\ q <= teamSize
      BY <1>3, <1>6
    <2>2. q # 0
      BY <1>3, <1>6, <1>7
    <2> QED
      BY <1>3, <2>1, <2>2
  <1>9. n >= tableSize
    <2>1. prod \div tableSize >= teamSize
      BY <1>4, <1>5, <1>6, GoQuoNat
    <2> HIDE DEF n
    <2> QED
      BY <1>2, <1>3, <1>6, <2>1, QuotientBound DEF prod
  <1> QED
    BY <1>1, <1>3, <1>6, <1>7, <1>8, <1>9

(***************************************************************************)
(* What the check of a setup refuses is not playable.                      *)
(***************************************************************************)
LEMMA PlayableIsAssignable ==
    ASSUME NEW teams, IsFiniteSet(DOMAIN teams), \A t \in DOMAIN teams : t >= 1,
           NEW teamSize \in Nat \ {0}, NEW tableSize \in Nat \ {0},
           NEW m \in Nat, teamSize = m * tableSize,
           \A t \in DOMAIN teams : Cardinality(teams[t]) = teamSize,
           Cardinality(DOMAIN teams) >= tableSize
    PROVE  IsAssignable(teams, teamSize, tableSize)
  <1> DEFINE n == Cardinality(DOMAIN teams)
             prod == n * teamSize
  <1>1. n \in Nat /\ n >= tableSize
    BY FS_CardinalityType
  <1>2. ~ GoRem(teamSize, tableSize) > 0
    <2>1. teamSize \div tableSize = m
      OBVIOUS
    <2> QED
      BY <2>1, GoQuoNat DEF GoRem
  <1> HIDE DEF n
  <1>3. prod \in Nat /\ prod \div tableSize >= teamSize
    <2> DEFINE k == n * m
    <2>1. k \in Nat /\ prod = k * tableSize
      BY <1>1
    <2>2. k >= teamSize
      BY <1>1
    <2> HIDE DEF k, prod
    <2>3. prod \div tableSize = k
      BY <2>1
    <2> QED
      BY <2>1, <2>2, <2>3
  <1> HIDE DEF prod
  <1>4. GoQuo(prod, tableSize) >= teamSize
    BY <1>3, GoQuoNat
  <1> QED
    BY <1>2, <1>4 DEF IsAssignable, prod, n

-----------------------------------------------------------------------------
(***************************************************************************)
(* A set with at most b members has an injection into 1 .. b, onto 1 .. b  *)
(* if it has b members.                                                    *)
(***************************************************************************)
LEMMA Ranking ==
    ASSUME NEW S, IsFiniteSet(S), NEW b \in Nat, Cardinality(S) <= b
    PROVE  Injection(S, 1 .. b) # {}
  <1> DEFINE c == Cardinality(S)
  <1>1. c \in Nat /\ ExistsBijection(1 .. c, S)
    BY FS_CardinalityType
  <1>2. PICK f : f \in Bijection(1 .. c, S)
    BY <1>1, Zenon DEF ExistsBijection
  <1> DEFINE g == Inverse(f, 1 .. c, S)
  <1>3. g \in Bijection(S, 1 .. c)
    BY <1>2, Fun_BijInverse
  <1> HIDE DEF g
  <1>4. g \in [S -> 1 .. c] /\ \A x, y \in S : g[x] = g[y] => x = y
    <2>1. g \in Injection(S, 1 .. c)
      BY <1>3 DEF Bijection
    <2> QED
      BY <2>1 DEF Injection, IsInjective
  <1>5. 1 .. c \subseteq 1 .. b
    BY <1>1
  <1>6. g \in [S -> 1 .. b]
    BY <1>4, <1>5
  <1>7. g \in Injection(S, 1 .. b)
    BY <1>4, <1>6, Fun_IsInj
  <1> QED
    BY <1>7

(***************************************************************************)
(* A set in disjoint groups of at most b members each has at most b times  *)
(* as many members as there are groups, and just as many exactly if every  *)
(* group is full.                                                          *)
(***************************************************************************)
LEMMA Groups ==
    ASSUME NEW K, IsFiniteSet(K), NEW b \in Nat, NEW P, NEW G \in [K -> SUBSET P],
           \A k \in K : IsFiniteSet(G[k]) /\ Cardinality(G[k]) <= b,
           \A p \in P : \E k \in K : p \in G[k],
           \A p \in P : \A k, l \in K : p \in G[k] /\ p \in G[l] => k = l
    PROVE  /\ IsFiniteSet(P)
           /\ Cardinality(P) = Cardinality(K) * b <=> \A k \in K : Cardinality(G[k]) = b
  <1> DEFINE home == [p \in P |-> CHOOSE k \in K : p \in G[k]]
             rank == [k \in K |-> CHOOSE f : f \in Injection(G[k], 1 .. b)]
             place == [p \in P |-> <<home[p], rank[home[p]][p]>>]
             Places == K \X (1 .. b)
  <1>1. \A k \in K : rank[k] \in Injection(G[k], 1 .. b)
    <2> TAKE k \in K
    <2>1. \E f : f \in Injection(G[k], 1 .. b)
      BY Ranking
    <2> QED
      BY <2>1
  <1>2. \A k \in K : /\ rank[k] \in [G[k] -> 1 .. b]
                     /\ \A x, y \in G[k] : rank[k][x] = rank[k][y] => x = y
    <2> TAKE k \in K
    <2>1. rank[k] \in Injection(G[k], 1 .. b)
      BY <1>1
    <2> HIDE DEF rank
    <2> QED
      BY <2>1 DEF Injection, IsInjective
  <1>3. \A p \in P : home[p] \in K /\ p \in G[home[p]]
    OBVIOUS
  <1>4. \A k \in K : \A p \in G[k] : p \in P /\ home[p] = k
    BY <1>3
  <1> HIDE DEF rank, home
  <1>5. place \in [P -> Places]
    BY <1>2, <1>3
  <1>6. \A p \in P : place[p] = <<home[p], rank[home[p]][p]>>
    OBVIOUS
  <1> HIDE DEF place
  <1>7. ASSUME NEW p \in P, NEW q \in P, place[p] = place[q]
        PROVE  p = q
    <2>1. home[p] = home[q] /\ rank[home[p]][p] = rank[home[p]][q]
      BY <1>6, <1>7
    <2> QED
      BY <1>2, <1>3, <2>1
  <1>8. place \in Injection(P, Places)
    BY <1>5, <1>7, Fun_IsInj
  <1>9. IsFiniteSet(1 .. b) /\ Cardinality(1 .. b) = b
    BY FS_Interval
  <1>10. IsFiniteSet(Places) /\ Cardinality(Places) = Cardinality(K) * b
    BY <1>9, FS_Product
  <1> HIDE DEF Places
  <1>11. /\ IsFiniteSet(P)
         /\ Cardinality(P) = Cardinality(K) * b <=> place \in Surjection(P, Places)
    BY <1>8, <1>10, FS_Injection
  <1> USE DEF Places
  <1>12. ASSUME place \in Surjection(P, Places), NEW k \in K
         PROVE  Cardinality(G[k]) = b
    <2>1. \A j \in 1 .. b : \E p \in G[k] : rank[k][p] = j
      <3> TAKE j \in 1 .. b
      <3>1. PICK p \in P : place[p] = <<k, j>>
        BY <1>12 DEF Surjection
      <3>2. home[p] = k /\ rank[k][p] = j
        BY <1>6, <3>1
      <3> QED
        BY <1>3, <3>2
    <2>2. rank[k] \in Surjection(G[k], 1 .. b) /\ rank[k] \in Injection(G[k], 1 .. b)
      BY <1>1, <1>2, <2>1 DEF Surjection
    <2> DEFINE f == rank[k]
               S == G[k]
    <2>3. f \in Injection(S, 1 .. b) /\ f \in Surjection(S, 1 .. b)
      BY <2>2
    <2> HIDE DEF f, S
    <2>4. Cardinality(S) = b
      BY <1>9, <2>3, FS_Injection
    <2> QED
      BY <2>4 DEF S
  <1>13. ASSUME \A k \in K : Cardinality(G[k]) = b
         PROVE  place \in Surjection(P, Places)
    <2>1. ASSUME NEW k \in K, NEW j \in 1 .. b
          PROVE  \E p \in P : place[p] = <<k, j>>
      <3>1. rank[k] \in Surjection(G[k], 1 .. b)
        BY <1>1, <1>9, <1>13, FS_Injection
      <3>2. PICK p \in G[k] : rank[k][p] = j
        BY <3>1 DEF Surjection
      <3> QED
        BY <1>4, <1>6, <3>2
    <2>2. ASSUME NEW t \in Places
          PROVE  \E p \in P : place[p] = t
      <3>1. PICK k \in K, j \in 1 .. b : t = <<k, j>>
        BY <2>2
      <3> QED
        BY <2>1, <3>1
    <2> HIDE DEF Places
    <2> QED
      BY <1>5, <2>2 DEF Surjection
  <1> QED
    BY <1>11, <1>12, <1>13

-----------------------------------------------------------------------------
(***************************************************************************)
(* Dealing round by round: the player with rank x is dealt to table x % T  *)
(* as its seat number x \div T.                                            *)
(***************************************************************************)
LEMMA DealtTo ==
    ASSUME NEW x \in Nat, NEW T \in Nat \ {0}
    PROVE  /\ x \div T \in Nat
           /\ x % T \in 0 .. T - 1
           /\ x = (x \div T) * T + (x % T)
  <1>1. x \div T \in Nat /\ x % T \in 0 .. T - 1
    OBVIOUS
  <1>2. x = T * (x \div T) + (x % T)
    OBVIOUS
  <1>3. T * (x \div T) = (x \div T) * T
    BY <1>1
  <1> QED
    BY <1>1, <1>2, <1>3

LEMMA SeatDealt ==
    ASSUME NEW x \in Nat, NEW T \in Nat \ {0}, NEW b \in Nat, x < T * b
    PROVE  x \div T < b
  <1> DEFINE q == x \div T
  <1>1. q \in Nat /\ x >= q * T
    BY DealtTo
  <1> HIDE DEF q
  <1>2. SUFFICES ASSUME q >= b PROVE FALSE
    BY <1>1 DEF q
  <1>3. q * T >= b * T
    BY <1>1, <1>2
  <1> QED
    BY <1>1, <1>3

LEMMA SameTableFarApart ==
    ASSUME NEW x \in Nat, NEW y \in Nat, NEW T \in Nat \ {0}, x % T = y % T, x < y
    PROVE  y - x >= T
  <1> DEFINE i == x \div T
             j == y \div T
  <1>1. i \in Nat /\ j \in Nat /\ y - x = j * T - i * T
    <2>1. i \in Nat /\ x % T \in 0 .. T - 1 /\ x = i * T + (x % T)
      BY DealtTo
    <2>2. j \in Nat /\ y = j * T + (x % T)
      BY DealtTo
    <2> HIDE DEF i, j
    <2> DEFINE e == x % T
               iT == i * T
               jT == j * T
    <2>3. e \in Nat /\ iT \in Nat /\ jT \in Nat /\ x = iT + e /\ y = jT + e
      BY <2>1, <2>2
    <2> HIDE DEF e, iT, jT
    <2>4. y - x = jT - iT
      BY <2>3
    <2> QED
      BY <2>1, <2>2, <2>4 DEF iT, jT
  <1> HIDE DEF i, j
  <1>2. j > i
    <2> SUFFICES ASSUME j <= i PROVE FALSE
      BY <1>1
    <2>1. j * T <= i * T
      BY <1>1
    <2> QED
      BY <1>1, <2>1
  <1>3. j * T >= (i + 1) * T
    BY <1>1, <1>2
  <1>4. (i + 1) * T = i * T + T
    BY <1>1
  <1> QED
    BY <1>1, <1>3, <1>4

LEMMA FirstNumbers ==
    ASSUME NEW n \in Nat
    PROVE  /\ IsFiniteSet(0 .. n - 1) /\ Cardinality(0 .. n - 1) = n
           /\ IsFiniteSet(1 .. n) /\ Cardinality(1 .. n) = n
  <1> DEFINE e == n - 1
  <1>1. e \in Int
    OBVIOUS
  <1>2. IsFiniteSet(0 .. e) /\ Cardinality(0 .. e) = IF 0 > e THEN 0 ELSE e - 0 + 1
    BY <1>1, FS_Interval
  <1>3. IsFiniteSet(1 .. n) /\ Cardinality(1 .. n) = IF 1 > n THEN 0 ELSE n - 1 + 1
    BY FS_Interval
  <1> QED
    BY <1>2, <1>3

(***************************************************************************)
(* Ranks that go through the teams one after the other.                    *)
(***************************************************************************)
LEMMA TeamRanks ==
    ASSUME NEW a \in Nat \ {0}, NEW m \in Nat,
           NEW g \in 1 .. m, NEW h \in 1 .. a, NEW i \in 1 .. m, NEW j \in 1 .. a
    PROVE  /\ (g - 1) * a + (h - 1) \in Nat
           /\ (g - 1) * a + (h - 1) < m * a
           /\ (g - 1) * a + (h - 1) = (i - 1) * a + (j - 1) => g = i /\ h = j
  <1>1. (g - 1) * a \in Nat /\ (i - 1) * a \in Nat /\ m * a \in Nat
    OBVIOUS
  <1>2. g * a = (g - 1) * a + a /\ g * a <= m * a
    OBVIOUS
  <1>3. g < i => (g - 1) * a + a <= (i - 1) * a
    <2> HAVE g < i
    <2>1. g * a <= (i - 1) * a
      OBVIOUS
    <2> QED
      BY <1>2, <2>1
  <1>4. i < g => (i - 1) * a + a <= (g - 1) * a
    <2> HAVE i < g
    <2>1. i * a <= (g - 1) * a /\ i * a = (i - 1) * a + a
      OBVIOUS
    <2> QED
      BY <2>1
  <1> DEFINE ga == (g - 1) * a
             ia == (i - 1) * a
             ma == m * a
             ha == g * a
  <1>5. /\ ga \in Nat /\ ia \in Nat /\ ma \in Nat /\ ha = ga + a /\ ha <= ma
        /\ g < i => ga + a <= ia
        /\ i < g => ia + a <= ga
    BY <1>1, <1>2, <1>3, <1>4
  <1> HIDE DEF ga, ia, ma, ha
  <1>6. /\ ga + (h - 1) \in Nat
        /\ ga + (h - 1) < ma
        /\ ga + (h - 1) = ia + (j - 1) => g = i
    BY <1>5
  <1>7. ga + (h - 1) = ia + (j - 1) => h = j
    BY <1>5, <1>6 DEF ga, ia
  <1> QED
    BY <1>6, <1>7 DEF ga, ia, ma

(***************************************************************************)
(* If the players fill T tables of b seats, no two of them on one seat,    *)
(* every table is full.                                                    *)
(***************************************************************************)
LEMMA FullTables ==
    ASSUME NEW players, NEW team, NEW T \in Nat, NEW b \in Nat \ {0},
           NEW f \in [players -> 1 .. T], NEW seat \in [players -> 0 .. b - 1],
           \A p, q \in players : f[p] = f[q] /\ seat[p] = seat[q] => p = q,
           \A p, q \in players : p # q /\ f[p] = f[q] => team[p] # team[q],
           Cardinality(players) = T * b
    PROVE  IsSeating(f, players, team, b)
  <1> DEFINE place == [p \in players |-> <<f[p], seat[p]>>]
             Tables == 1 .. T
             Chairs == 0 .. b - 1
             Places == Tables \X Chairs
  <1>1. /\ IsFiniteSet(Tables) /\ Cardinality(Tables) = T
        /\ IsFiniteSet(Chairs) /\ Cardinality(Chairs) = b
    BY FirstNumbers
  <1>2. place \in Injection(players, Places)
    <2>1. place \in [players -> Places]
      OBVIOUS
    <2>2. \A p, q \in players : place[p] = place[q] => p = q
      OBVIOUS
    <2> HIDE DEF place, Places
    <2> QED
      BY <2>1, <2>2, Fun_IsInj
  <1> HIDE DEF Tables, Chairs
  <1>3. IsFiniteSet(Places) /\ Cardinality(Places) = T * b
    BY <1>1, FS_Product
  <1>4. \A n \in Tables, c \in Chairs : \E p \in players : f[p] = n /\ seat[p] = c
    <2>1. place \in Surjection(players, Places)
      <3> HIDE DEF place, Places
      <3> QED
        BY <1>2, <1>3, FS_Injection
    <2> TAKE n \in Tables, c \in Chairs
    <2>2. <<n, c>> \in Places
      OBVIOUS
    <2>3. PICK p \in players : place[p] = <<n, c>>
      <3> HIDE DEF place, Places
      <3> QED
        BY <2>1, <2>2 DEF Surjection
    <2> QED
      BY <2>3
  <1>5. ASSUME NEW n \in 1 .. T
        PROVE  Cardinality({p \in players : f[p] = n}) = b
    <2> DEFINE S == {p \in players : f[p] = n}
               s == [p \in S |-> seat[p]]
    <2>1. s \in [S -> Chairs] /\ \A p, q \in S : s[p] = s[q] => p = q
      BY DEF Chairs
    <2>2. \A c \in Chairs : \E p \in S : s[p] = c
      BY <1>4 DEF Tables
    <2> HIDE DEF S, s
    <2>3. s \in Injection(S, Chairs) /\ s \in Surjection(S, Chairs)
      BY <2>1, <2>2, Fun_IsInj DEF Surjection
    <2>4. Cardinality(S) = b
      BY <1>1, <2>3, FS_Injection
    <2> QED
      BY <2>4 DEF S
  <1>6. GoQuo(Cardinality(players), b) = T
    <2>1. (T * b) \div b = T /\ T * b \in Nat
      OBVIOUS
    <2> QED
      BY <2>1, GoQuoNat
  <1> QED
    BY <1>5, <1>6 DEF IsSeating

(***************************************************************************)
(* Complete teams of k times b players, at least b of them, have a seating *)
(* at tables of b: deal the players round by round, one team after the     *)
(* other.  A team fits into one round of the deal, since there are at      *)
(* least as many tables as a team has members.                             *)
(***************************************************************************)
LEMMA CompleteTeamsHaveSeating ==
    ASSUME NEW players, NEW team, NEW K, IsFiniteSet(K), NEW m \in Nat, m = Cardinality(K),
           NEW b \in Nat \ {0}, NEW k \in Nat \ {0}, m >= b,
           NEW G \in [K -> SUBSET players],
           \A p \in players : team[p] \in K /\ p \in G[team[p]],
           \A t \in K : \A p \in G[t] : team[p] = t,
           \A t \in K : IsFiniteSet(G[t]) /\ Cardinality(G[t]) = k * b
    PROVE  \E f : IsSeating(f, players, team, b)
  <1> DEFINE a == k * b
             T == m * k
             N == Cardinality(players)
  <1>1. a \in Nat \ {0} /\ T \in Nat \ {0} /\ T >= a /\ T * b = m * a
    <2>1. m * k >= b * k
      OBVIOUS
    <2> QED
      BY <2>1
  <1>2. \A t \in K : IsFiniteSet(G[t]) /\ Cardinality(G[t]) = a
    OBVIOUS
  <1> HIDE DEF a, T
  <1>3. N = m * a
    <2>1. \A p \in players : \A t, u \in K : p \in G[t] /\ p \in G[u] => t = u
      OBVIOUS
    <2> QED
      BY <1>1, <1>2, <2>1, Groups
  <1> HIDE DEF N
  <1>4. PICK g : g \in [K -> 1 .. m] /\ \A t, u \in K : g[t] = g[u] => t = u
    <2>1. \E g : g \in Injection(K, 1 .. m)
      BY Ranking
    <2> QED
      BY <2>1 DEF Injection, IsInjective
  <1> DEFINE h == [t \in K |-> CHOOSE f : f \in Injection(G[t], 1 .. a)]
  <1>5. \A t \in K : /\ h[t] \in [G[t] -> 1 .. a]
                     /\ \A p, q \in G[t] : h[t][p] = h[t][q] => p = q
    <2> TAKE t \in K
    <2>1. \E f : f \in Injection(G[t], 1 .. a)
      BY <1>1, <1>2, Ranking
    <2>2. h[t] \in Injection(G[t], 1 .. a)
      BY <2>1
    <2> HIDE DEF h
    <2> QED
      BY <2>2 DEF Injection, IsInjective
  <1> HIDE DEF h
  <1>6. \A p \in players : g[team[p]] \in 1 .. m /\ h[team[p]][p] \in 1 .. a
    BY <1>4, <1>5
  <1> DEFINE rank == [p \in players |-> (g[team[p]] - 1) * a + (h[team[p]][p] - 1)]
  <1>7. \A p \in players : rank[p] \in Nat /\ rank[p] < T * b
    <2> TAKE p \in players
    <2>1. /\ (g[team[p]] - 1) * a + (h[team[p]][p] - 1) \in Nat
          /\ (g[team[p]] - 1) * a + (h[team[p]][p] - 1) < m * a
      BY <1>1, <1>6, TeamRanks
    <2> QED
      BY <1>1, <2>1
  <1>8. \A p, q \in players : rank[p] = rank[q] => p = q
    <2> SUFFICES ASSUME NEW p \in players, NEW q \in players, rank[p] = rank[q]
                 PROVE  p = q
      OBVIOUS
    <2>1. (g[team[p]] - 1) * a + (h[team[p]][p] - 1)
              = (g[team[q]] - 1) * a + (h[team[q]][q] - 1)
      OBVIOUS
    <2>2. g[team[p]] = g[team[q]] /\ h[team[p]][p] = h[team[q]][q]
      <3> DEFINE gp == g[team[p]]
                 gq == g[team[q]]
                 hp == h[team[p]][p]
                 hq == h[team[q]][q]
      <3>1. /\ gp \in 1 .. m /\ gq \in 1 .. m /\ hp \in 1 .. a /\ hq \in 1 .. a
            /\ (gp - 1) * a + (hp - 1) = (gq - 1) * a + (hq - 1)
        BY <1>6, <2>1
      <3> HIDE DEF gp, gq, hp, hq
      <3>2. gp = gq /\ hp = hq
        BY <1>1, <3>1, TeamRanks
      <3> QED
        BY <3>2 DEF gp, gq, hp, hq
    <2>3. team[p] = team[q]
      BY <1>4, <2>2
    <2> QED
      BY <1>5, <2>2, <2>3
  <1>9. \A p, q \in players : team[p] = team[q] => rank[q] - rank[p] < a
    <2> SUFFICES ASSUME NEW p \in players, NEW q \in players, team[p] = team[q]
                 PROVE  rank[q] - rank[p] < a
      OBVIOUS
    <2> DEFINE start == (g[team[p]] - 1) * a
    <2>1. start \in Int /\ rank[p] = start + (h[team[p]][p] - 1)
          /\ rank[q] = start + (h[team[q]][q] - 1)
      BY <1>1, <1>6
    <2> HIDE DEF start, rank
    <2> QED
      BY <1>1, <1>6, <2>1
  <1> HIDE DEF rank
  <1> DEFINE f == [p \in players |-> (rank[p] % T) + 1]
             seat == [p \in players |-> rank[p] \div T]
  <1>10. \A p \in players : /\ f[p] = (rank[p] % T) + 1 /\ f[p] \in 1 .. T
                            /\ seat[p] \in 0 .. b - 1
                            /\ rank[p] = seat[p] * T + (f[p] - 1)
    <2> TAKE p \in players
    <2>1. rank[p] \div T < b
      BY <1>1, <1>7, SeatDealt
    <2>2. /\ rank[p] \div T \in Nat /\ rank[p] % T \in 0 .. T - 1
          /\ rank[p] = (rank[p] \div T) * T + (rank[p] % T)
      BY <1>1, <1>7, DealtTo
    <2> DEFINE d == rank[p] \div T
               e == rank[p] % T
    <2>3. /\ d \in Nat /\ e \in 0 .. T - 1 /\ rank[p] = d * T + e /\ d < b
          /\ f[p] = e + 1 /\ seat[p] = d
      BY <2>1, <2>2
    <2> HIDE DEF d, e, f, seat
    <2>4. f[p] - 1 = e
      BY <1>1, <2>3
    <2> QED
      BY <1>1, <2>3, <2>4 DEF e
  <1> HIDE DEF f, seat
  <1>11. \A p, q \in players : p # q /\ f[p] = f[q] => team[p] # team[q]
    <2>1. ASSUME NEW p \in players, NEW q \in players, rank[p] < rank[q],
                 f[p] = f[q], team[p] = team[q]
          PROVE  FALSE
      <3>1. rank[p] % T \in 0 .. T - 1 /\ rank[q] % T \in 0 .. T - 1
        BY <1>1, <1>7, DealtTo
      <3>2. rank[p] % T = rank[q] % T
        BY <1>1, <1>10, <2>1, <3>1
      <3>3. rank[q] - rank[p] >= T
        BY <1>1, <1>7, <2>1, <3>2, SameTableFarApart
      <3> QED
        BY <1>1, <1>7, <1>9, <2>1, <3>3
    <2> QED
      BY <1>7, <1>8, <2>1
  <1>12. /\ f \in [players -> 1 .. T] /\ seat \in [players -> 0 .. b - 1]
         /\ \A p, q \in players : f[p] = f[q] /\ seat[p] = seat[q] => p = q
    <2>1. f \in [players -> 1 .. T] /\ seat \in [players -> 0 .. b - 1]
      BY <1>10 DEF f, seat
    <2> QED
      BY <1>8, <1>10, <2>1
  <1>13. Cardinality(players) = T * b
    BY <1>1, <1>3 DEF N
  <1>14. IsSeating(f, players, team, b)
    BY <1>1, <1>11, <1>12, <1>13, FullTables
  <1> QED
    BY <1>14

\* Nobody sits at no table.
LEMMA NobodyIsSeated ==
    ASSUME NEW team, NEW b \in Int \ {0}
    PROVE  IsSeating([p \in {} |-> 0], {}, team, b)
  <1>1. GoQuo(Cardinality({}), b) = 0
    BY GoQuoZero, FS_EmptySet
  <1> QED
    BY <1>1 DEF IsSeating

(***************************************************************************)
(* A setup that the checks accept has a seating (assign_tables.go:15-34).  *)
(***************************************************************************)
LEMMA AssignableHasSeating ==
    ASSUME NEW players, IsFiniteSet(players), NEW team,
           NEW a \in Int \ {0}, NEW b \in Int \ {0},
           IsAssignable([t \in {team[p] : p \in players} |->
                            {p \in players : team[p] = t}], a, b)
    PROVE  \E f : IsSeating(f, players, team, b)
  <1> SUFFICES ASSUME players # {} PROVE \E f : IsSeating(f, players, team, b)
    BY NobodyIsSeated
  <1> DEFINE K == {team[p] : p \in players}
             G == [t \in K |-> {p \in players : team[p] = t}]
             rank == [p \in players |-> team[p]]
             m == Cardinality(K)
  <1>1. /\ K # {} /\ DOMAIN G = K /\ G \in [K -> SUBSET players]
        /\ rank \in Surjection(players, K)
        /\ IsAssignable(G, a, b)
    BY DEF Surjection
  <1>2. \A t \in K : IsFiniteSet(G[t])
    BY FS_Subset
  <1>3. /\ \A p \in players : team[p] \in K /\ p \in G[team[p]]
        /\ \A t \in K : \A p \in G[t] : team[p] = t
    OBVIOUS
  <1> HIDE DEF K, G, rank
  <1>4. IsFiniteSet(K) /\ m \in Nat
    BY <1>1, FS_Surjection, FS_CardinalityType
  <1>5. /\ a > 0 /\ b > 0
        /\ \E k \in 1 .. a : a = k * b
        /\ \A t \in K : Cardinality(G[t]) = a
        /\ m >= b
    BY <1>1, <1>2, <1>4, AssignableMeans
  <1>6. PICK k \in 1 .. a : a = k * b
    BY <1>5
  <1>7. b \in Nat \ {0} /\ k \in Nat \ {0}
    BY <1>5
  <1>8. \A t \in K : IsFiniteSet(G[t]) /\ Cardinality(G[t]) = k * b
    BY <1>2, <1>5, <1>6
  <1> HIDE DEF m
  <1> QED
    BY <1>1, <1>3, <1>4, <1>5, <1>7, <1>8, CompleteTeamsHaveSeating DEF m
=============================================================================
