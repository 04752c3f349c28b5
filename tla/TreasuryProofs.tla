--------------------------- MODULE TreasuryProofs ---------------------------
(***************************************************************************)
(* The account of the money, for any citizens, amounts, rates, escrows and *)
(* polls, any number of crashes and any mixture of the services.           *)
(*                                                                         *)
(* A wallet is solvent because every lock has an owner: a sum over the     *)
(* escrows and the polls (LocksAreAccounted) bounds each of its terms, so  *)
(* that what is given back or taken out of a lock is there.  Sums are      *)
(* cardinalities of sets of cells, one cell for each coin, and so no       *)
(* induction is needed: what one posting does to a sum follows from the    *)
(* cardinalities of disjoint unions and of products.                       *)
(***************************************************************************)
EXTENDS Treasury, FiniteSetTheorems, FunctionTheorems, TLAPS

Cells(S, f) == UNION {{x} \X (1..f[x]) : x \in S}

\* The cells that a sum counts are finitely many.
LEMMA CellsAreFinite ==
  ASSUME NEW S, IsFiniteSet(S), NEW f, \A x \in S : f[x] \in Nat
  PROVE  IsFiniteSet(Cells(S, f))
<1> DEFINE T == {{x} \X (1..f[x]) : x \in S}
           g == [x \in S |-> {x} \X (1..f[x])]
<1>1. g \in Surjection(S, T)
  BY Fun_IsSurj
<1>2. IsFiniteSet(T)
  BY <1>1, FS_Surjection
<1>3. ASSUME NEW x \in S PROVE IsFiniteSet({x} \X (1..f[x]))
  <2>1. IsFiniteSet({x}) BY FS_Singleton
  <2>2. IsFiniteSet(1..f[x]) BY FS_Interval
  <2> QED BY <2>1, <2>2, FS_Product
<1>4. \A C \in T : IsFiniteSet(C)
  BY <1>3
<1>5. IsFiniteSet(UNION T)
  BY <1>2, <1>4, FS_UNION
<1> QED BY <1>5 DEF Cells

\* A sum is a number, and splits into an element and the rest.
LEMMA SumSplits ==
  ASSUME NEW S, IsFiniteSet(S), NEW f, \A x \in S : f[x] \in Nat
  PROVE  /\ Sum(S, f) \in Nat
         /\ \A x \in S : /\ Sum(S \ {x}, f) \in Nat
                         /\ Sum(S, f) = Sum(S \ {x}, f) + f[x]
<1>1. Sum(S, f) \in Nat
  BY CellsAreFinite, FS_CardinalityType DEF Sum, Cells
<1>2. ASSUME NEW x \in S
      PROVE  Sum(S \ {x}, f) \in Nat /\ Sum(S, f) = Sum(S \ {x}, f) + f[x]
  <2> DEFINE R == Cells(S \ {x}, f)
             X == {x} \X (1..f[x])
  <2>1. IsFiniteSet(S \ {x})
    BY FS_RemoveElement
  <2>2. IsFiniteSet(R)
    BY <2>1, CellsAreFinite
  <2>3. IsFiniteSet(X) /\ Cardinality(X) = f[x]
    <3>1. IsFiniteSet({x}) /\ Cardinality({x}) = 1 BY FS_Singleton
    <3>2. IsFiniteSet(1..f[x]) /\ Cardinality(1..f[x]) = f[x] BY FS_Interval
    <3> QED BY <3>1, <3>2, FS_Product
  <2>4. R \cap X = {}
    BY DEF Cells
  <2>5. R \cup X = Cells(S, f)
    BY DEF Cells
  <2>6. Cardinality(R) \in Nat
    BY <2>2, FS_CardinalityType
  <2>7. Cardinality(R \cup X) = Cardinality(R) + Cardinality(X) - Cardinality(R \cap X)
    BY <2>2, <2>3, FS_Union
  <2>8. Cardinality(R \cap X) = 0
    BY <2>4, FS_EmptySet
  <2>9. Sum(S, f) = Cardinality(R \cup X) /\ Sum(S \ {x}, f) = Cardinality(R)
    BY <2>5 DEF Sum, Cells
  <2> HIDE DEF R, X
  <2> QED BY <2>3, <2>6, <2>7, <2>8, <2>9
<1> QED BY <1>1, <1>2

\* Functions that agree have one sum.
LEMMA SumAgrees ==
  ASSUME NEW S, NEW f, NEW g, \A x \in S : f[x] = g[x]
  PROVE  Sum(S, f) = Sum(S, g)
<1>1. {{x} \X (1..f[x]) : x \in S} = {{x} \X (1..g[x]) : x \in S}
  OBVIOUS
<1> QED BY <1>1 DEF Sum

\* One element makes the difference of two functions that agree elsewhere.
LEMMA SumChanges ==
  ASSUME NEW S, IsFiniteSet(S), NEW f, NEW g, NEW w \in S,
         \A x \in S : f[x] \in Nat /\ g[x] \in Nat,
         \A x \in S \ {w} : f[x] = g[x]
  PROVE  Sum(S, g) = Sum(S, f) - f[w] + g[w] /\ Sum(S, f) \in Nat /\ f[w] <= Sum(S, f)
<1>1. Sum(S \ {w}, f) = Sum(S \ {w}, g)
  BY SumAgrees
<1>2. Sum(S, f) = Sum(S \ {w}, f) + f[w] /\ Sum(S \ {w}, f) \in Nat /\ Sum(S, f) \in Nat
  BY SumSplits
<1>3. Sum(S, g) = Sum(S \ {w}, g) + g[w]
  BY SumSplits
<1> QED BY <1>1, <1>2, <1>3

\* A sum of nothing is zero.
LEMMA SumOfZeros ==
  ASSUME NEW S, NEW f, \A x \in S : f[x] = 0
  PROVE  Sum(S, f) = 0
<1>1. UNION {{x} \X (1..f[x]) : x \in S} = {}
  OBVIOUS
<1> QED BY <1>1, FS_EmptySet DEF Sum

\* What n more for each member of P adds to a sum.
LEMMA SumOfRaise ==
  ASSUME NEW S, IsFiniteSet(S), NEW P \in SUBSET S, NEW n \in Nat,
         NEW f \in [S -> Nat]
  PROVE  Sum(S, [x \in S |-> IF x \in P THEN f[x] + n ELSE f[x]])
           = Sum(S, f) + n * Cardinality(P)
<1> DEFINE g == [x \in S |-> IF x \in P THEN f[x] + n ELSE f[x]]
           D == UNION {{x} \X ((f[x] + 1)..(f[x] + n)) : x \in P}
           h == [c \in P \X (1..n) |-> <<c[1], f[c[1]] + c[2]>>]
<1>1. IsFiniteSet(P) /\ Cardinality(P) \in Nat
  BY FS_Subset, FS_CardinalityType
<1>2. IsFiniteSet(P \X (1..n)) /\ Cardinality(P \X (1..n)) = n * Cardinality(P)
  <2>1. IsFiniteSet(1..n) /\ Cardinality(1..n) = n
    BY FS_Interval
  <2>2. IsFiniteSet(P \X (1..n)) /\ Cardinality(P \X (1..n)) = Cardinality(P) * n
    BY <1>1, <2>1, FS_Product
  <2>3. \A a, b \in Nat : a * b = b * a
    OBVIOUS
  <2> QED BY <1>1, <2>2, <2>3
<1>3. h \in Bijection(P \X (1..n), D)
  <2>1. \A c \in P \X (1..n) : h[c] \in D
    <3>1. ASSUME NEW x \in P, NEW i \in 1..n PROVE <<x, f[x] + i>> \in D
      <4>1. <<x, f[x] + i>> \in {x} \X ((f[x] + 1)..(f[x] + n))
        OBVIOUS
      <4> QED BY <4>1
    <3>2. ASSUME NEW c \in P \X (1..n) PROVE c[1] \in P /\ c[2] \in 1..n
      BY <3>2
    <3>3. \A c \in P \X (1..n) : h[c] = <<c[1], f[c[1]] + c[2]>>
      OBVIOUS
    <3> HIDE DEF D, h
    <3> QED BY <3>1, <3>2, <3>3
  <2>2. \A c, d \in P \X (1..n) : h[c] = h[d] => c = d
    OBVIOUS
  <2>3. \A e \in D : \E c \in P \X (1..n) : h[c] = e
    <3> SUFFICES ASSUME NEW e \in D PROVE \E c \in P \X (1..n) : h[c] = e
      OBVIOUS
    <3> PICK x \in P : e \in {x} \X ((f[x] + 1)..(f[x] + n))
      OBVIOUS
    <3> PICK j \in (f[x] + 1)..(f[x] + n) : e = <<x, j>>
      OBVIOUS
    <3>1. f[x] \in Nat /\ j \in Int /\ j - f[x] \in 1..n /\ f[x] + (j - f[x]) = j
      OBVIOUS
    <3>2. <<x, j - f[x]>> \in P \X (1..n)
      BY <3>1
    <3>3. h[<<x, j - f[x]>>] = <<x, f[x] + (j - f[x])>>
      BY <3>2
    <3>4. h[<<x, j - f[x]>>] = <<x, j>>
      BY <3>1, <3>3
    <3> QED BY <3>2, <3>4
  <2> QED BY <2>1, <2>2, <2>3, Fun_IsBij
<1>4. IsFiniteSet(D) /\ Cardinality(D) = n * Cardinality(P)
  BY <1>2, <1>3, FS_Bijection, Fun_ExistsBij
<1>5. Cells(S, g) = Cells(S, f) \cup D
  <2>1. \A x \in S : {x} \X (1..g[x]) =
          IF x \in P THEN ({x} \X (1..f[x])) \cup ({x} \X ((f[x] + 1)..(f[x] + n)))
          ELSE {x} \X (1..f[x])
    OBVIOUS
  <2> QED BY <2>1 DEF Cells
<1>6. Cells(S, f) \cap D = {}
  BY DEF Cells
<1>7. IsFiniteSet(Cells(S, f)) /\ Cardinality(Cells(S, f)) \in Nat
  BY CellsAreFinite, FS_CardinalityType
<1>8. Cardinality(Cells(S, f) \cup D)
        = Cardinality(Cells(S, f)) + Cardinality(D) - Cardinality(Cells(S, f) \cap D)
  BY <1>4, <1>7, FS_Union
<1>9. Cardinality(Cells(S, f) \cap D) = 0
  BY <1>6, FS_EmptySet
<1>10. Sum(S, f) = Cardinality(Cells(S, f)) /\ Sum(S, g) = Cardinality(Cells(S, g))
  BY DEF Sum, Cells
<1>11. n * Cardinality(P) \in Nat
  BY <1>1
<1>12. Cardinality(Cells(S, g)) = Cardinality(Cells(S, f)) + n * Cardinality(P)
  <2> HIDE DEF D, g
  <2> QED BY <1>4, <1>5, <1>7, <1>8, <1>9, <1>11
<1> QED BY <1>10, <1>12

-----------------------------------------------------------------------------
(* The invariant of the ledger                                             *)

LedgerInv == TypeOK /\ Solvent /\ LocksAreAccounted

USE HoldersAreFinite, AmountsArePositive, RatesAreParts
    DEF All, ledger, courts, polls, guards, dole, book

\* The holders, escrows and polls are finitely many; who is paid is a citizen.
LEMMA Constants ==
  /\ IsFiniteSet(All)
  /\ Citizens \subseteq All /\ Gov \in All /\ Burn \in All
  /\ \A o \in Officials : o \in Citizens /\ Salary[o] \in Amounts
<1>1. IsFiniteSet({Gov, Burn})
  <2>1. IsFiniteSet({Gov}) BY FS_Singleton
  <2>2. IsFiniteSet({Gov} \cup {Burn}) BY <2>1, FS_AddElement
  <2>3. {Gov} \cup {Burn} = {Gov, Burn} OBVIOUS
  <2> QED BY <2>2, <2>3
<1>2. IsFiniteSet(All)
  BY <1>1, FS_Union
<1> QED BY <1>2 DEF Officials

\* A posting changes one balance, and the sum by as much.
LEMMA AddPosts ==
  ASSUME NEW b \in [All -> Nat], NEW w \in All, NEW k \in Int, b[w] + k >= 0
  PROVE  /\ Add(b, w, k) \in [All -> Nat]
         /\ Add(b, w, k)[w] = b[w] + k
         /\ \A x \in All \ {w} : Add(b, w, k)[x] = b[x]
         /\ Sum(All, Add(b, w, k)) = Sum(All, b) + k
         /\ Sum(All, b) \in Nat
<1>1. /\ Add(b, w, k) \in [All -> Nat]
      /\ Add(b, w, k)[w] = b[w] + k
      /\ \A x \in All \ {w} : Add(b, w, k)[x] = b[x]
  BY DEF Add
<1>2. /\ Sum(All, Add(b, w, k)) = Sum(All, b) - b[w] + Add(b, w, k)[w]
      /\ Sum(All, b) \in Nat
  <2> HIDE DEF All
  <2> QED BY <1>1, Constants, SumChanges
<1>3. b[w] \in Nat
  OBVIOUS
<1> QED BY <1>1, <1>2, <1>3

\* A charge is paid in full, half to the government and half to nobody's wallet.
LEMMA ChargedPosts ==
  ASSUME NEW b \in [All -> Nat], NEW n \in Nat
  PROVE  /\ Charged(b, n) \in [All -> Nat]
         /\ \A x \in All : Charged(b, n)[x] >= b[x]
         /\ Sum(All, Charged(b, n)) = Sum(All, b) + n
<1> DEFINE h == n \div 2
           c == Add(b, Gov, n - h)
<1>1. h \in Nat /\ n - h \in Nat
  OBVIOUS
<1>2. Gov \in All /\ Burn \in All
  OBVIOUS
<1> HIDE DEF All, h
<1>3. /\ c \in [All -> Nat] /\ c[Gov] = b[Gov] + (n - h)
      /\ \A x \in All \ {Gov} : c[x] = b[x]
      /\ Sum(All, c) = Sum(All, b) + (n - h) /\ Sum(All, b) \in Nat
  BY <1>1, <1>2, AddPosts
<1>4. \A x \in All : c[x] >= b[x]
  BY <1>1, <1>3
<1> HIDE DEF c
<1>5. /\ Add(c, Burn, h) \in [All -> Nat] /\ Add(c, Burn, h)[Burn] = c[Burn] + h
      /\ \A x \in All \ {Burn} : Add(c, Burn, h)[x] = c[x]
      /\ Sum(All, Add(c, Burn, h)) = Sum(All, c) + h
  BY <1>1, <1>2, <1>3, AddPosts
<1>6. \A x \in All : Add(c, Burn, h)[x] >= c[x]
  BY <1>1, <1>3, <1>5
<1>7. Charged(b, n) = Add(c, Burn, h)
  BY DEF Charged, c, h
<1>8. \A x \in All : Add(c, Burn, h)[x] \in Int /\ c[x] \in Int /\ b[x] \in Int
  BY <1>3, <1>5
<1> QED BY <1>1, <1>3, <1>4, <1>5, <1>6, <1>7, <1>8

\* A payment debits the payer and credits the others; only the fee is lost.
LEMMA SettlesPosts ==
  ASSUME TypeOK, Solvent, NEW f \in All, NEW t \in All, NEW a \in Amounts, f # t,
         Settles(f, t, a)
  PROVE  /\ balance' \in [All -> Nat]
         /\ Solvent'
         /\ wallets' \subseteq All
         /\ FeeOf[a] \in Nat
         /\ Sum(All, balance') = Sum(All, balance) - FeeOf[a] /\ Sum(All, balance) \in Nat
<1> DEFINE x == Tax(f, a)
           k == a - FeeOf[a] - x
           b1 == Add(balance, f, -a)
           b2 == Add(b1, t, k)
<1>1. a \in Nat /\ FeeOf[a] \in Nat /\ x \in Nat /\ k \in Nat
  BY DEF Tax
<1>2. balance \in [All -> Nat] /\ locked \in [All -> Nat] /\ balance[f] - a >= locked[f]
  BY DEF TypeOK, MoneyTypes, CourtTypes, PollTypes, OtherTypes, Settles, Available
<1>3. wallets' \subseteq All
  BY DEF TypeOK, MoneyTypes, CourtTypes, PollTypes, OtherTypes, Settles, WalletsAfter
<1> HIDE DEF All, x, k
<1>4. /\ b1 \in [All -> Nat] /\ b1[f] = balance[f] - a
      /\ \A y \in All \ {f} : b1[y] = balance[y]
      /\ Sum(All, b1) = Sum(All, balance) - a /\ Sum(All, balance) \in Nat
  <2>1. balance[f] + (-a) >= 0 /\ -a \in Int
    BY <1>1, <1>2
  <2>2. /\ b1 \in [All -> Nat] /\ b1[f] = balance[f] + (-a)
        /\ \A y \in All \ {f} : b1[y] = balance[y]
        /\ Sum(All, b1) = Sum(All, balance) + (-a) /\ Sum(All, balance) \in Nat
    BY <1>2, <2>1, AddPosts
  <2> HIDE DEF b1
  <2> QED BY <1>1, <1>2, <2>2
<1> HIDE DEF b1
<1>5. /\ b2 \in [All -> Nat] /\ b2[t] = b1[t] + k
      /\ \A y \in All \ {t} : b2[y] = b1[y]
      /\ Sum(All, b2) = Sum(All, b1) + k
  <2>1. b1[t] + k >= 0
    BY <1>1, <1>4
  <2> QED BY <1>1, <1>4, <2>1, AddPosts
<1> HIDE DEF b2
<1>6. balance' = Charged(b2, x) /\ locked' = locked
  BY DEF Settles, b2, b1, k, x
<1>7. /\ balance' \in [All -> Nat] /\ \A y \in All : balance'[y] >= b2[y]
      /\ Sum(All, balance') = Sum(All, b2) + x
  BY <1>1, <1>5, <1>6, ChargedPosts
<1>8. Sum(All, balance') = Sum(All, balance) - FeeOf[a]
  BY <1>1, <1>4, <1>5, <1>7 DEF k
<1>9. Solvent'
  <2> SUFFICES ASSUME NEW y \in All PROVE locked[y] <= balance'[y]
    BY <1>6 DEF Solvent
  <2>1. locked[y] <= b2[y]
    BY <1>1, <1>2, <1>4, <1>5 DEF Solvent
  <2> QED BY <1>2, <1>5, <1>7, <2>1
<1> QED BY <1>1, <1>3, <1>4, <1>7, <1>8, <1>9

\* The rows of a payment have a sender and an amount.
LEMMA RowTypes ==
  ASSUME NEW f \in All, NEW a \in Amounts
  PROVE  RowsOf(f, a) \subseteq All \X Nat
<1> DEFINE n == Tax(f, a)
<1>1. a \in Nat /\ n \in Nat
  BY DEF Tax
<1>2. n \div 2 \in Nat /\ n - n \div 2 \in Nat
  <2> HIDE DEF n
  <2> QED BY <1>1
<1>3. RowsOf(f, a) = {<<f, a>>} \cup {<<f, k>> : k \in {n \div 2, n - n \div 2} \ {0}}
  BY DEF RowsOf
<1> HIDE DEF n, All
<1> QED BY <1>1, <1>2, <1>3

\* A payment, or the stop in its place, keeps the balances in order.
LEMMA SendPosts ==
  ASSUME TypeOK, Solvent, NEW f \in All, NEW t \in All, NEW a \in Amounts, Send(f, t, a)
  PROVE  /\ wallets' \subseteq All /\ balance' \in [All -> Nat] /\ Solvent'
         /\ vanished' \in Nat /\ stop' \in BOOLEAN
         /\ black' \in [All -> {"no", "until", "forever"}] /\ recent' \subseteq All \X Nat
         /\ UNCHANGED <<locked, stake, granted, stranded>>
         /\ Sum(All, balance') + vanished' = Sum(All, balance) + vanished
<1>1. CASE Settles(f, t, a)
  <2>1. /\ balance' \in [All -> Nat] /\ Solvent' /\ wallets' \subseteq All /\ FeeOf[a] \in Nat
        /\ Sum(All, balance') = Sum(All, balance) - FeeOf[a] /\ Sum(All, balance) \in Nat
    BY <1>1, SettlesPosts DEF Send
  <2>2. /\ vanished' = vanished + FeeOf[a] /\ vanished \in Nat
        /\ UNCHANGED <<locked, stake, stop, black>>
        /\ recent' = recent \cup RowsOf(f, a)
    BY <1>1 DEF Settles, TypeOK, MoneyTypes, CourtTypes, PollTypes, OtherTypes
  <2>3. stop \in BOOLEAN /\ black \in [All -> {"no", "until", "forever"}]
        /\ recent \subseteq All \X Nat
    BY DEF TypeOK, MoneyTypes, CourtTypes, PollTypes, OtherTypes
  <2>4. UNCHANGED <<granted, stranded>>
    BY DEF Send
  <2>5. RowsOf(f, a) \subseteq All \X Nat
    BY RowTypes
  <2> HIDE DEF All
  <2> QED BY <2>1, <2>2, <2>3, <2>4, <2>5
<1>2. CASE TooLarge(a)
  <2>1. UNCHANGED <<ledger, black, recent, vanished, granted, stranded>> /\ stop' = TRUE
    BY <1>2 DEF TooLarge, Halt, Send
  <2> QED BY <2>1 DEF TypeOK, MoneyTypes, CourtTypes, PollTypes, OtherTypes, Solvent
<1>3. CASE DoubleSpend(f, a)
  <2>1. /\ UNCHANGED <<ledger, recent, vanished, granted, stranded>> /\ stop' = TRUE
        /\ black' = [black EXCEPT ![f] = "forever"]
    BY <1>3 DEF DoubleSpend, Send
  <2> QED BY <2>1 DEF TypeOK, MoneyTypes, CourtTypes, PollTypes, OtherTypes, Solvent
<1> QED BY <1>1, <1>2, <1>3 DEF Send

\* The types of a row of an escrow.
LEMMA EscrowTypes ==
  ASSUME TypeOK, NEW e \in Escrows
  PROVE  /\ escrow[e].from \in All /\ escrow[e].to \in All
         /\ escrow[e].amount \in Amounts \cup {0} /\ escrow[e].amount \in Nat
         /\ escrow[e].arbiter \in All \cup {Outsider}
         /\ escrow[e].status \in {"none", "locked", "disputed", "released", "refunded"}
<1>1. escrow[e] \in [status : {"none", "locked", "disputed", "released", "refunded"},
                     from : All, to : All, amount : Amounts \cup {0},
                     arbiter : All \cup {Outsider}]
  BY DEF TypeOK, MoneyTypes, CourtTypes, PollTypes, OtherTypes
<1>2. Amounts \cup {0} \subseteq Nat
  OBVIOUS
<1> HIDE DEF All
<1> QED BY <1>1, <1>2

\* A term is no more than the sum.
LEMMA SumBounds ==
  ASSUME NEW S, IsFiniteSet(S), NEW f, \A x \in S : f[x] \in Nat
  PROVE  Sum(S, f) \in Nat /\ \A x \in S : f[x] <= Sum(S, f)
<1>1. Sum(S, f) \in Nat /\ \A x \in S : Sum(S \ {x}, f) \in Nat /\ Sum(S, f) = Sum(S \ {x}, f) + f[x]
  BY SumSplits
<1>2. ASSUME NEW x \in S PROVE f[x] <= Sum(S, f)
  <2>1. Sum(S \ {x}, f) \in Nat /\ Sum(S, f) = Sum(S \ {x}, f) + f[x] /\ f[x] \in Nat
    BY <1>1
  <2> QED BY <2>1
<1> QED BY <1>1, <1>2

\* What is held is a number at every escrow and poll.
LEMMA HoldsAreNumbers ==
  ASSUME TypeOK, NEW w \in All
  PROVE  /\ \A e \in Escrows : HeldInEscrow(w)[e] \in Nat
         /\ \A p \in Proposals : HeldAsBond(w)[p] \in Nat
         /\ Sum(Escrows, HeldInEscrow(w)) \in Nat /\ Sum(Proposals, HeldAsBond(w)) \in Nat
<1>1. \A e \in Escrows : HeldInEscrow(w)[e] \in Nat
  BY EscrowTypes DEF HeldInEscrow
<1>2. \A p \in Proposals : HeldAsBond(w)[p] \in Nat
  BY DEF HeldAsBond
<1> QED BY <1>1, <1>2, SumSplits

\* An open escrow is covered by a lock of its sender, and so by the balance.
LEMMA EscrowIsCovered ==
  ASSUME LedgerInv, NEW e \in Escrows, escrow[e].status \in Open
  PROVE  /\ escrow[e].from \in All /\ escrow[e].to \in All /\ escrow[e].amount \in Nat
         /\ escrow[e].amount <= locked[escrow[e].from]
         /\ locked[escrow[e].from] <= balance[escrow[e].from]
<1> DEFINE w == escrow[e].from
<1>1. w \in All /\ escrow[e].to \in All /\ escrow[e].amount \in Nat
  BY EscrowTypes DEF LedgerInv
<1>2. HeldInEscrow(w)[e] = escrow[e].amount
  BY DEF HeldInEscrow
<1> HIDE DEF All, w
<1>3. /\ Sum(Escrows, HeldInEscrow(w)) \in Nat /\ Sum(Proposals, HeldAsBond(w)) \in Nat
      /\ \A x \in Escrows : HeldInEscrow(w)[x] \in Nat
  BY <1>1, HoldsAreNumbers DEF LedgerInv
<1>4. HeldInEscrow(w)[e] <= Sum(Escrows, HeldInEscrow(w))
  BY <1>3, SumBounds
<1>5. /\ locked[w] = Sum(Escrows, HeldInEscrow(w)) + Sum(Proposals, HeldAsBond(w))
                        + stake[w] + stranded[w]
      /\ stake[w] \in Nat /\ stranded[w] \in Nat /\ locked[w] <= balance[w]
  BY <1>1 DEF LedgerInv, LocksAreAccounted, Solvent, TypeOK, MoneyTypes, CourtTypes, PollTypes, OtherTypes
<1>6. escrow[e].amount <= locked[w] /\ locked[w] <= balance[w]
  BY <1>1, <1>2, <1>3, <1>4, <1>5
<1> QED BY <1>1, <1>6 DEF w

\* The bond of a running poll is covered by a lock of its creator.
LEMMA BondIsCovered ==
  ASSUME LedgerInv, NEW p \in Proposals, proposal[p].status = "active"
  PROVE  /\ proposal[p].creator \in All
         /\ Bond <= locked[proposal[p].creator]
         /\ locked[proposal[p].creator] <= balance[proposal[p].creator]
<1> DEFINE w == proposal[p].creator
<1>1. w \in All
  BY DEF LedgerInv, TypeOK, MoneyTypes, CourtTypes, PollTypes, OtherTypes
<1>2. HeldAsBond(w)[p] = Bond
  BY DEF HeldAsBond
<1> HIDE DEF All, w
<1>3. /\ Sum(Escrows, HeldInEscrow(w)) \in Nat /\ Sum(Proposals, HeldAsBond(w)) \in Nat
      /\ \A x \in Proposals : HeldAsBond(w)[x] \in Nat
  BY <1>1, HoldsAreNumbers DEF LedgerInv
<1>4. HeldAsBond(w)[p] <= Sum(Proposals, HeldAsBond(w))
  BY <1>3, SumBounds
<1>5. /\ locked[w] = Sum(Escrows, HeldInEscrow(w)) + Sum(Proposals, HeldAsBond(w))
                        + stake[w] + stranded[w]
      /\ stake[w] \in Nat /\ stranded[w] \in Nat /\ locked[w] <= balance[w]
  BY <1>1 DEF LedgerInv, LocksAreAccounted, Solvent, TypeOK, MoneyTypes, CourtTypes, PollTypes, OtherTypes
<1>6. Bond <= locked[w] /\ locked[w] <= balance[w]
  BY <1>1, <1>2, <1>3, <1>4, <1>5
<1> QED BY <1>1, <1>6 DEF w

\* The account stays right when an escrow turns and the lock follows it.
LEMMA EscrowTurns ==
  ASSUME TypeOK, TypeOK', LocksAreAccounted, NEW e \in Escrows,
         \A x \in Escrows \ {e} : escrow'[x] = escrow[x],
         UNCHANGED <<proposal, stake, stranded>>,
         \A w \in All : locked'[w] = locked[w] - HeldInEscrow(w)[e] + HeldInEscrow(w)'[e]
  PROVE  LocksAreAccounted'
<1> SUFFICES ASSUME NEW w \in All
             PROVE  locked'[w] = Sum(Escrows, HeldInEscrow(w)') + Sum(Proposals, HeldAsBond(w)')
                                   + stake'[w] + stranded'[w]
  BY DEF LocksAreAccounted
<1>1. HeldAsBond(w)' = HeldAsBond(w)
  BY DEF HeldAsBond
<1>2. /\ \A x \in Escrows : HeldInEscrow(w)[x] \in Nat /\ HeldInEscrow(w)'[x] \in Nat
      /\ \A x \in Escrows \ {e} : HeldInEscrow(w)[x] = HeldInEscrow(w)'[x]
  <2>1. \A x \in Escrows : HeldInEscrow(w)[x] \in Nat
    BY HoldsAreNumbers
  <2>2. \A x \in Escrows : escrow'[x].amount \in Nat
    <3>1. ASSUME NEW x \in Escrows
          PROVE  escrow'[x] \in [status : {"none", "locked", "disputed", "released", "refunded"},
                     from : All, to : All, amount : Amounts \cup {0},
                     arbiter : All \cup {Outsider}]
      BY DEF TypeOK, MoneyTypes, CourtTypes, PollTypes, OtherTypes
    <3>2. Amounts \cup {0} \subseteq Nat
      OBVIOUS
    <3> HIDE DEF All
    <3> QED BY <3>1, <3>2
  <2> QED BY <2>1, <2>2 DEF HeldInEscrow
<1>3. /\ Sum(Escrows, HeldInEscrow(w)')
           = Sum(Escrows, HeldInEscrow(w)) - HeldInEscrow(w)[e] + HeldInEscrow(w)'[e]
      /\ Sum(Escrows, HeldInEscrow(w)) \in Nat
  BY <1>2, SumChanges
<1>4. Sum(Proposals, HeldAsBond(w)) \in Nat
  BY HoldsAreNumbers
<1>5. /\ locked[w] = Sum(Escrows, HeldInEscrow(w)) + Sum(Proposals, HeldAsBond(w))
                        + stake[w] + stranded[w]
      /\ stake[w] \in Nat /\ stranded[w] \in Nat /\ locked[w] \in Nat
  BY DEF LocksAreAccounted, TypeOK, MoneyTypes, CourtTypes, PollTypes, OtherTypes
<1>6. locked'[w] = locked[w] - HeldInEscrow(w)[e] + HeldInEscrow(w)'[e]
  OBVIOUS
<1> HIDE DEF All
<1> QED BY <1>1, <1>2, <1>3, <1>4, <1>5, <1>6

\* The same of a poll, its bond and the stakes.
LEMMA PollTurns ==
  ASSUME TypeOK, TypeOK', LocksAreAccounted, NEW p \in Proposals,
         \A x \in Proposals \ {p} : proposal'[x] = proposal[x],
         UNCHANGED escrow,
         \A w \in All : locked'[w] - stake'[w] - stranded'[w] =
                           locked[w] - stake[w] - stranded[w]
                             - HeldAsBond(w)[p] + HeldAsBond(w)'[p]
  PROVE  LocksAreAccounted'
<1> SUFFICES ASSUME NEW w \in All
             PROVE  locked'[w] = Sum(Escrows, HeldInEscrow(w)') + Sum(Proposals, HeldAsBond(w)')
                                   + stake'[w] + stranded'[w]
  BY DEF LocksAreAccounted
<1>1. HeldInEscrow(w)' = HeldInEscrow(w)
  BY DEF HeldInEscrow
<1>2. /\ \A x \in Proposals : HeldAsBond(w)[x] \in Nat /\ HeldAsBond(w)'[x] \in Nat
      /\ \A x \in Proposals \ {p} : HeldAsBond(w)[x] = HeldAsBond(w)'[x]
  BY DEF TypeOK, MoneyTypes, CourtTypes, PollTypes, OtherTypes, HeldAsBond
<1>3. /\ Sum(Proposals, HeldAsBond(w)')
           = Sum(Proposals, HeldAsBond(w)) - HeldAsBond(w)[p] + HeldAsBond(w)'[p]
      /\ Sum(Proposals, HeldAsBond(w)) \in Nat
  <2> DEFINE h == HeldAsBond(w)
             k == HeldAsBond(w)'
  <2>1. IsFiniteSet(Proposals)
    OBVIOUS
  <2>2. /\ \A x \in Proposals : h[x] \in Nat /\ k[x] \in Nat
        /\ \A x \in Proposals \ {p} : h[x] = k[x]
    BY <1>2
  <2> HIDE DEF h, k, All
  <2>3. Sum(Proposals, k) = Sum(Proposals, h) - h[p] + k[p] /\ Sum(Proposals, h) \in Nat
    <3>1. Sum(Proposals \ {p}, h) = Sum(Proposals \ {p}, k)
      BY <2>2, SumAgrees
    <3>2. /\ Sum(Proposals, h) = Sum(Proposals \ {p}, h) + h[p]
          /\ Sum(Proposals \ {p}, h) \in Nat /\ Sum(Proposals, h) \in Nat
      BY <2>1, <2>2, SumSplits
    <3>3. Sum(Proposals, k) = Sum(Proposals \ {p}, k) + k[p]
      BY <2>1, <2>2, SumSplits
    <3>4. h[p] \in Nat /\ k[p] \in Nat
      BY <2>2
    <3> QED BY <3>1, <3>2, <3>3, <3>4
  <2> QED BY <2>3 DEF h, k
<1>4. Sum(Escrows, HeldInEscrow(w)) \in Nat
  BY HoldsAreNumbers
<1>5. /\ locked[w] = Sum(Escrows, HeldInEscrow(w)) + Sum(Proposals, HeldAsBond(w))
                        + stake[w] + stranded[w]
      /\ stake[w] \in Nat /\ stranded[w] \in Nat /\ locked[w] \in Nat
      /\ stake'[w] \in Nat /\ stranded'[w] \in Nat /\ locked'[w] \in Nat
  BY DEF LocksAreAccounted, TypeOK, MoneyTypes, CourtTypes, PollTypes, OtherTypes
<1>6. locked'[w] - stake'[w] - stranded'[w] =
        locked[w] - stake[w] - stranded[w] - HeldAsBond(w)[p] + HeldAsBond(w)'[p]
  OBVIOUS
<1> HIDE DEF All
<1> QED BY <1>1, <1>2, <1>3, <1>4, <1>5, <1>6

\* The account stays right when no escrow and no poll turns, and what is locked is
\* staked or stranded.
LEMMA HoldsStay ==
  ASSUME TypeOK, TypeOK', LocksAreAccounted, UNCHANGED <<escrow, proposal>>,
         \A w \in All : locked'[w] - stake'[w] - stranded'[w] =
                           locked[w] - stake[w] - stranded[w]
  PROVE  LocksAreAccounted'
<1> SUFFICES ASSUME NEW w \in All
             PROVE  locked'[w] = Sum(Escrows, HeldInEscrow(w)') + Sum(Proposals, HeldAsBond(w)')
                                   + stake'[w] + stranded'[w]
  BY DEF LocksAreAccounted
<1>1. HeldInEscrow(w)' = HeldInEscrow(w) /\ HeldAsBond(w)' = HeldAsBond(w)
  BY DEF HeldInEscrow, HeldAsBond
<1>2. Sum(Escrows, HeldInEscrow(w)) \in Nat /\ Sum(Proposals, HeldAsBond(w)) \in Nat
  BY HoldsAreNumbers
<1>3. /\ locked[w] = Sum(Escrows, HeldInEscrow(w)) + Sum(Proposals, HeldAsBond(w))
                        + stake[w] + stranded[w]
      /\ stake[w] \in Nat /\ stranded[w] \in Nat /\ locked[w] \in Nat
      /\ stake'[w] \in Nat /\ stranded'[w] \in Nat /\ locked'[w] \in Nat
  BY DEF LocksAreAccounted, TypeOK, MoneyTypes, CourtTypes, PollTypes, OtherTypes
<1>4. locked'[w] - stake'[w] - stranded'[w] = locked[w] - stake[w] - stranded[w]
  OBVIOUS
<1> HIDE DEF All
<1> QED BY <1>1, <1>2, <1>3, <1>4

-----------------------------------------------------------------------------
(* Steps                                                                   *)

\* The amounts and what is taken off them.
LEMMA Numbers ==
  /\ Share \in Nat /\ Grant \in Nat /\ Bond \in Nat /\ Income \in Nat
  /\ \A a \in Amounts : /\ a \in Nat /\ MarketOf[a] \in Nat /\ RoyaltyOf[a] \in Nat
                        /\ a - MarketOf[a] - RoyaltyOf[a] \in Nat /\ a - MarketOf[a] \in Nat
OBVIOUS

\* Payments keep the account: they move what is available.
LEMMA PaymentsKeep ==
  ASSUME LedgerInv, (Transfers \/ Payroll)
  PROVE  LedgerInv'
<1>1. \E f \in All, t \in All, a \in Amounts : Send(f, t, a)
      \/ UNCHANGED <<ledger, guards, granted, vanished, stranded>>
  <2>1. CASE Transfers
    BY <2>1, Constants DEF Transfers, Transfer
  <2>2. CASE \E c \in Citizens : Reward(c)
    BY <2>2, Constants DEF Reward
  <2>3. CASE \E o \in Officials : PaySalary(o) \/ CrashPaySalary(o)
    <3> PICK o \in Officials : PaySalary(o) \/ CrashPaySalary(o)
      BY <2>3
    <3> HIDE DEF All
    <3> QED BY Constants DEF PaySalary, CrashPaySalary
  <2> QED BY <2>1, <2>2, <2>3 DEF Payroll
<1>2. /\ wallets' \subseteq All /\ balance' \in [All -> Nat] /\ Solvent'
      /\ vanished' \in Nat /\ stop' \in BOOLEAN
      /\ black' \in [All -> {"no", "until", "forever"}] /\ recent' \subseteq All \X Nat
      /\ UNCHANGED <<locked, stake, granted, stranded>>
  <2>1. CASE UNCHANGED <<ledger, guards, granted, vanished, stranded>>
    BY <2>1 DEF LedgerInv, TypeOK, MoneyTypes, OtherTypes, Solvent
  <2>2. CASE \E f \in All, t \in All, a \in Amounts : Send(f, t, a)
    <3> HIDE DEF All
    <3> QED BY <2>2, SendPosts DEF LedgerInv
  <2> QED BY <1>1, <2>1, <2>2
<1>3. UNCHANGED <<courts, polls, art, due>> /\ crashes' \in Nat /\ salaried' \subseteq Officials
  BY DEF Transfers, Transfer, Payroll, Reward, PaySalary, CrashPaySalary,
         LedgerInv, TypeOK, MoneyTypes, OtherTypes
<1>4. TypeOK'
  BY <1>2, <1>3 DEF LedgerInv, TypeOK, MoneyTypes, CourtTypes, PollTypes, OtherTypes
<1>5. LocksAreAccounted'
  <2> HIDE DEF All
  <2> QED BY <1>2, <1>3, <1>4, HoldsStay DEF LedgerInv
<1> QED BY <1>2, <1>4, <1>5 DEF LedgerInv

\* New money keeps the account.
LEMMA IssuesKeep ==
  ASSUME LedgerInv, NEW c \in Citizens,
         CreateWallet(c) \/ PayIncome \/ ShareMemory(c) \/ Tick
  PROVE  LedgerInv'
<1>1. /\ wallets' \subseteq All /\ balance' \in [All -> Nat] /\ granted' \in Nat
      /\ \A w \in All : balance'[w] >= balance[w]
  <2>1. CASE CreateWallet(c)
    BY <2>1 DEF LedgerInv, TypeOK, MoneyTypes, CreateWallet, Add
  <2>2. CASE PayIncome
    <3> PICK paid \in SUBSET due :
          /\ balance' = [w \in All |-> IF w \in paid THEN balance[w] + Income ELSE balance[w]]
          /\ granted' = granted + Income * Cardinality(paid)
      BY <2>2 DEF PayIncome
    <3>1. IsFiniteSet(paid)
      BY FS_Subset DEF LedgerInv, TypeOK, OtherTypes
    <3>2. Cardinality(paid) \in Nat
      BY <3>1, FS_CardinalityType
    <3>3. Income * Cardinality(paid) \in Nat
      BY <3>2
    <3>4. balance \in [All -> Nat] /\ granted \in Nat /\ Income \in Nat
          /\ wallets' = wallets /\ wallets \subseteq All
      BY <2>2 DEF LedgerInv, TypeOK, MoneyTypes, PayIncome
    <3> HIDE DEF All
    <3> QED BY <3>3, <3>4
  <2>3. CASE ShareMemory(c)
    <3>1. balance' = Add(balance, c, Share) /\ granted' = granted + Share /\ wallets' = wallets
      BY <2>3 DEF ShareMemory
    <3> QED BY <3>1, Numbers DEF LedgerInv, TypeOK, MoneyTypes, Add
  <2>4. CASE Tick
    BY <2>4 DEF LedgerInv, TypeOK, MoneyTypes, Tick
  <2> QED BY <2>1, <2>2, <2>3, <2>4
<1>2. /\ UNCHANGED <<locked, stake, courts, polls, art, stop, black, vanished, stranded, crashes>>
      /\ recent' \subseteq recent /\ salaried' \subseteq salaried /\ due' \subseteq Citizens
  BY DEF CreateWallet, PayIncome, ShareMemory, Tick, LedgerInv, TypeOK, OtherTypes
<1>3. TypeOK'
  BY <1>1, <1>2 DEF LedgerInv, TypeOK, MoneyTypes, CourtTypes, PollTypes, OtherTypes
<1>4. Solvent'
  <2> SUFFICES ASSUME NEW w \in All PROVE locked[w] <= balance'[w]
    BY <1>2 DEF Solvent
  <2>1. locked[w] <= balance[w] /\ locked[w] \in Nat /\ balance[w] \in Nat /\ balance'[w] \in Nat
        /\ balance'[w] >= balance[w]
    BY <1>1 DEF LedgerInv, TypeOK, MoneyTypes, Solvent
  <2> QED BY <2>1
<1>5. LocksAreAccounted'
  <2> HIDE DEF All
  <2> QED BY <1>2, <1>3, HoldsStay DEF LedgerInv
<1> QED BY <1>3, <1>4, <1>5 DEF LedgerInv

\* The market moves what is available, and orders move nothing.
LEMMA MarketPosts ==
  ASSUME LedgerInv, NEW c \in Citizens, Buy(c)
  PROVE  /\ wallets' \subseteq All /\ balance' \in [All -> Nat] /\ vanished' \in Nat
         /\ \A w \in All : locked[w] <= balance'[w]
         /\ UNCHANGED <<locked, stake, courts, polls, guards, dole, granted, stranded, crashes>>
         /\ art' = [art EXCEPT !.owner = c, !.price = 0]
         /\ Sum(All, balance') + vanished' = Sum(All, balance) + vanished
<1> DEFINE a       == art.price
           royalty == IF art.owner = art.creator THEN 0 ELSE RoyaltyOf[a]
           lost    == IF art.creator \in wallets THEN 0 ELSE royalty
           net     == a - MarketOf[a] - royalty
           gain    == royalty - lost
           b1      == Add(balance, c, -a)
           b2      == Add(b1, art.owner, net)
           b3      == Add(b2, art.creator, gain)
<1>1. /\ balance' = Charged(b3, MarketOf[a])
      /\ a > 0 /\ Available(c) >= a /\ c # art.owner
      /\ wallets' = wallets \cup (IF MarketOf[a] > 0 THEN {Gov} ELSE {})
                             \cup (IF MarketOf[a] > 1 THEN {Burn} ELSE {})
      /\ vanished' = vanished + lost
      /\ art' = [art EXCEPT !.owner = c, !.price = 0]
      /\ UNCHANGED <<locked, stake, courts, polls, guards, dole, granted, stranded, crashes>>
  BY DEF Buy
<1>2. art.owner \in All /\ art.creator \in All /\ c \in All /\ a \in Amounts
  BY <1>1 DEF LedgerInv, TypeOK, OtherTypes
<1>3. /\ a \in Nat /\ MarketOf[a] \in Nat /\ royalty \in Nat /\ lost \in Nat
      /\ net \in Nat /\ gain \in Nat
  <2> HIDE DEF a
  <2>1. a \in Amounts
    BY <1>2
  <2> QED BY <2>1, Numbers
<1>4. /\ balance \in [All -> Nat] /\ locked \in [All -> Nat] /\ vanished \in Nat
      /\ \A w \in All : locked[w] <= balance[w]
      /\ wallets' \subseteq All
  BY <1>1 DEF LedgerInv, TypeOK, MoneyTypes, Solvent
<1>5. balance[c] - a >= locked[c]
  <2>1. balance[c] \in Nat /\ locked[c] \in Nat /\ a \in Nat /\ balance[c] - locked[c] >= a
    BY <1>1, <1>2, <1>3, <1>4 DEF Available
  <2> HIDE DEF a
  <2> QED BY <2>1
<1> HIDE DEF All, a, royalty, lost, net, gain
<1>6. /\ b1 \in [All -> Nat] /\ b1[c] = balance[c] + (-a)
      /\ \A y \in All \ {c} : b1[y] = balance[y]
      /\ Sum(All, b1) = Sum(All, balance) + (-a) /\ Sum(All, balance) \in Nat
  <2>1. balance[c] + (-a) >= 0 /\ -a \in Int
    BY <1>2, <1>3, <1>4, <1>5
  <2> QED BY <1>2, <1>4, <2>1, AddPosts
<1> HIDE DEF b1
<1>7. /\ b2 \in [All -> Nat] /\ b2[art.owner] = b1[art.owner] + net
      /\ \A y \in All \ {art.owner} : b2[y] = b1[y]
      /\ Sum(All, b2) = Sum(All, b1) + net
  <2>1. b1[art.owner] + net >= 0
    BY <1>2, <1>3, <1>6
  <2> QED BY <1>2, <1>3, <1>6, <2>1, AddPosts
<1> HIDE DEF b2
<1>8. /\ b3 \in [All -> Nat] /\ b3[art.creator] = b2[art.creator] + gain
      /\ \A y \in All \ {art.creator} : b3[y] = b2[y]
      /\ Sum(All, b3) = Sum(All, b2) + gain
  <2>1. b2[art.creator] + gain >= 0
    BY <1>2, <1>3, <1>7
  <2> QED BY <1>2, <1>3, <1>7, <2>1, AddPosts
<1> HIDE DEF b3
<1>9. /\ balance' \in [All -> Nat] /\ \A y \in All : balance'[y] >= b3[y]
      /\ Sum(All, balance') = Sum(All, b3) + MarketOf[a]
  BY <1>1, <1>3, <1>8, ChargedPosts
<1>10. Sum(All, balance') = Sum(All, balance) - lost
  BY <1>3, <1>6, <1>7, <1>8, <1>9 DEF net, gain
<1>11. ASSUME NEW w \in All PROVE locked[w] <= balance'[w]
  <2>1. locked[w] \in Nat /\ b1[w] \in Nat /\ b2[w] \in Nat /\ b3[w] \in Nat /\ balance'[w] \in Nat
    BY <1>4, <1>6, <1>7, <1>8, <1>9
  <2>2. locked[w] <= b1[w]
    BY <1>2, <1>3, <1>4, <1>5, <1>6
  <2>3. b1[w] <= b2[w]
    BY <1>2, <1>3, <1>6, <1>7, <2>1
  <2>4. b2[w] <= b3[w]
    BY <1>2, <1>3, <1>7, <1>8, <2>1
  <2>5. b3[w] <= balance'[w]
    BY <1>9, <2>1
  <2> QED BY <2>1, <2>2, <2>3, <2>4, <2>5
<1> QED BY <1>1, <1>3, <1>4, <1>6, <1>9, <1>10, <1>11

LEMMA MarketKeeps ==
  ASSUME LedgerInv, Market \/ Orders
  PROVE  LedgerInv'
<1>1. /\ wallets' \subseteq All /\ balance' \in [All -> Nat] /\ vanished' \in Nat
      /\ \A w \in All : locked[w] <= balance'[w]
      /\ UNCHANGED <<locked, stake, courts, polls, recent, dole, granted, stranded, crashes>>
      /\ stop' \in BOOLEAN /\ black' \in [All -> {"no", "until", "forever"}]
      /\ art' \in [creator : Citizens, owner : Citizens, price : Amounts \cup {0}]
  <2>1. CASE \E c \in Citizens : Buy(c)
    <3> PICK c \in Citizens : Buy(c)
      BY <2>1
    <3>1. art \in [creator : Citizens, owner : Citizens, price : Amounts \cup {0}]
          /\ stop \in BOOLEAN /\ black \in [All -> {"no", "until", "forever"}]
      BY DEF LedgerInv, TypeOK, OtherTypes
    <3>2. art' = [art EXCEPT !.owner = c, !.price = 0]
      BY MarketPosts
    <3>3. art' \in [creator : Citizens, owner : Citizens, price : Amounts \cup {0}]
      BY <3>1, <3>2
    <3> HIDE DEF All
    <3> QED BY <3>1, <3>3, MarketPosts
  <2>2. CASE \E a \in Amounts \cup {0} : SetForSale(a)
    <3> PICK a \in Amounts \cup {0} : SetForSale(a)
      BY <2>2
    <3>1. /\ art' = [art EXCEPT !.price = a]
          /\ UNCHANGED <<ledger, courts, polls, guards, dole, book>>
      BY DEF SetForSale
    <3>2. art' \in [creator : Citizens, owner : Citizens, price : Amounts \cup {0}]
      BY <3>1 DEF LedgerInv, TypeOK, OtherTypes
    <3> QED BY <3>1, <3>2 DEF LedgerInv, TypeOK, MoneyTypes, OtherTypes, Solvent
  <2>3. CASE Orders
    <3>1. UNCHANGED <<ledger, courts, polls, art, recent, dole, book>>
      BY <2>3 DEF Orders, TriggerStop, EndStop, Blacklist, Unlist
    <3>2. stop \in BOOLEAN /\ black \in [All -> {"no", "until", "forever"}]
      BY DEF LedgerInv, TypeOK, OtherTypes
    <3>3. stop' \in BOOLEAN
      BY <2>3, <3>2 DEF Orders, TriggerStop, EndStop, Blacklist, Unlist
    <3>4. black' \in [All -> {"no", "until", "forever"}]
      <4>1. CASE \E c \in Citizens : Blacklist(c) \/ Unlist(c)
        BY <3>2, <4>1 DEF Blacklist, Unlist
      <4>2. CASE TriggerStop \/ EndStop
        BY <3>2, <4>2 DEF TriggerStop, EndStop
      <4> QED BY <2>3, <4>1, <4>2 DEF Orders
    <3> QED BY <3>1, <3>3, <3>4 DEF LedgerInv, TypeOK, MoneyTypes, OtherTypes, Solvent
  <2> QED BY <2>1, <2>2, <2>3 DEF Market
<1>2. TypeOK'
  BY <1>1 DEF LedgerInv, TypeOK, MoneyTypes, CourtTypes, PollTypes, OtherTypes
<1>3. Solvent'
  BY <1>1 DEF Solvent
<1>4. LocksAreAccounted'
  <2> HIDE DEF All
  <2> QED BY <1>1, <1>2, HoldsStay DEF LedgerInv
<1> QED BY <1>2, <1>3, <1>4 DEF LedgerInv

\* Escrows lock and unlock what they hold.
LEMMA CourtsKeep ==
  ASSUME LedgerInv, Courts
  PROVE  LedgerInv'
<1> PICK e \in Escrows :
       \/ \E f, t \in Citizens, a \in Amounts : CreateEscrow(e, f, t, a)
       \/ \E by \in Citizens \cup {Outsider} : Release(e, by) \/ Refund(e, by)
       \/ \E c \in Citizens : Dispute(e, c) \/ CrashDispute(e, c) \/ FailDispute(e, c)
  BY DEF Courts
<1>1. /\ escrow[e].from \in All /\ escrow[e].to \in All /\ escrow[e].amount \in Amounts \cup {0}
      /\ escrow[e].amount \in Nat
  BY EscrowTypes DEF LedgerInv
<1>2. /\ wallets \subseteq All /\ balance \in [All -> Nat] /\ locked \in [All -> Nat]
      /\ stake \in [All -> Nat] /\ stranded \in [All -> Nat] /\ crashes \in Nat
      /\ \A w \in All : locked[w] <= balance[w]
  BY DEF LedgerInv, TypeOK, MoneyTypes, Solvent
<1>3. /\ escrow \in [Escrows -> [status : {"none", "locked", "disputed", "released", "refunded"},
                                from : All, to : All, amount : Amounts \cup {0},
                                arbiter : All \cup {Outsider}]]
      /\ dispute \in [Escrows -> [Citizens -> {"none", "open", "failed"}]]
      /\ reported \subseteq Citizens \X All
  BY DEF LedgerInv, TypeOK, CourtTypes
<1> DEFINE Keeps == UNCHANGED <<wallets, stake, polls, art, stop, black, dole, granted, vanished, stranded>>
           Money == /\ balance' \in [All -> Nat] /\ locked' \in [All -> Nat] /\ crashes' \in Nat
                    /\ \A w \in All : locked'[w] <= balance'[w]
           Notes == recent' \subseteq All \X Nat
           Turns == /\ \A x \in Escrows \ {e} : escrow'[x] = escrow[x]
                    /\ \A w \in All : locked'[w] = locked[w] - HeldInEscrow(w)[e] + HeldInEscrow(w)'[e]
<1>4. \A w \in All : locked[w] = locked[w] - HeldInEscrow(w)[e] + HeldInEscrow(w)[e]
  <2> SUFFICES ASSUME NEW w \in All
               PROVE  locked[w] = locked[w] - HeldInEscrow(w)[e] + HeldInEscrow(w)[e]
    OBVIOUS
  <2>1. HeldInEscrow(w)[e] \in Nat /\ locked[w] \in Nat
    BY <1>2, HoldsAreNumbers DEF LedgerInv
  <2> HIDE DEF All
  <2> QED BY <2>1
<1>5. recent \subseteq All \X Nat
  BY DEF LedgerInv, TypeOK, OtherTypes
<1>6. ASSUME NEW w \in All, NEW n \in Nat, recent' = recent \cup {<<w, n>>} PROVE Notes
  <2> HIDE DEF All
  <2> QED BY <1>5, <1>6
<1>7. ASSUME UNCHANGED <<balance, locked>>, crashes' \in Nat PROVE Money
  BY <1>2, <1>7
<1>8. ASSUME NEW s \in {"none", "locked", "disputed", "released", "refunded"},
             NEW arb \in All \cup {Outsider},
             \/ escrow' = [escrow EXCEPT ![e].status = s]
             \/ escrow' = [escrow EXCEPT ![e].status = s, ![e].arbiter = arb]
      PROVE  escrow' \in [Escrows ->
               [status : {"none", "locked", "disputed", "released", "refunded"},
                from : All, to : All, amount : Amounts \cup {0}, arbiter : All \cup {Outsider}]]
  <2> DEFINE Row == [status : {"none", "locked", "disputed", "released", "refunded"},
                     from : All, to : All, amount : Amounts \cup {0},
                     arbiter : All \cup {Outsider}]
             r == escrow[e]
  <2>1. r \in Row
    BY <1>3
  <2> HIDE DEF All, r
  <2>2. [r EXCEPT !.status = s] \in Row /\ [r EXCEPT !.status = s, !.arbiter = arb] \in Row
    BY <2>1
  <2> HIDE DEF Row
  <2>3. \/ escrow' = [escrow EXCEPT ![e] = [r EXCEPT !.status = s]]
        \/ escrow' = [escrow EXCEPT ![e] = [r EXCEPT !.status = s, !.arbiter = arb]]
    BY <1>3, <1>8 DEF r
  <2>4. escrow \in [Escrows -> Row]
    BY <1>3 DEF Row
  <2>5. escrow' \in [Escrows -> Row]
    BY <2>2, <2>3, <2>4
  <2> QED BY <2>5 DEF Row
<1>9. ASSUME escrow[e].status \in Open, NEW s \in {"released", "refunded"},
             escrow' = [escrow EXCEPT ![e].status = s],
             locked' = Add(locked, escrow[e].from, -escrow[e].amount)
      PROVE  /\ Turns /\ locked' \in [All -> Nat]
             /\ \A w \in All : locked'[w] =
                  IF w = escrow[e].from THEN locked[w] - escrow[e].amount ELSE locked[w]
             /\ escrow[e].amount <= locked[escrow[e].from]
  <2>1. escrow[e].amount <= locked[escrow[e].from]
    BY <1>9, EscrowIsCovered
  <2>2. locked[escrow[e].from] + (-escrow[e].amount) = locked[escrow[e].from] - escrow[e].amount
        /\ locked[escrow[e].from] - escrow[e].amount \in Nat
    BY <1>1, <1>2, <2>1
  <2>3. locked' = [locked EXCEPT ![escrow[e].from] = locked[escrow[e].from] - escrow[e].amount]
    BY <1>9, <2>2 DEF Add
  <2>4. \A w \in All : locked'[w] =
          IF w = escrow[e].from THEN locked[w] - escrow[e].amount ELSE locked[w]
    BY <1>2, <2>3
  <2>5. locked' \in [All -> Nat]
    BY <1>1, <1>2, <2>2, <2>3
  <2>6. \A w \in All : /\ HeldInEscrow(w)[e] = IF w = escrow[e].from THEN escrow[e].amount ELSE 0
                       /\ HeldInEscrow(w)'[e] = 0
    BY <1>3, <1>9 DEF HeldInEscrow, Open
  <2>7. \A x \in Escrows \ {e} : escrow'[x] = escrow[x]
    BY <1>3, <1>9
  <2>8. ASSUME NEW w \in All
        PROVE  locked'[w] = locked[w] - HeldInEscrow(w)[e] + HeldInEscrow(w)'[e]
    <3>1. locked[w] \in Nat
      BY <1>2
    <3> HIDE DEF All
    <3> QED BY <1>1, <2>4, <2>6, <3>1
  <2> QED BY <2>1, <2>4, <2>5, <2>7, <2>8
<1>10. Keeps /\ Notes /\ Money /\ CourtTypes' /\ Turns
  <2>1. ASSUME NEW f \in Citizens, NEW t \in Citizens, NEW a \in Amounts, CreateEscrow(e, f, t, a)
        PROVE  Keeps /\ Notes /\ Money /\ CourtTypes' /\ Turns
    <3>1. /\ escrow[e].status = "none"
          /\ Available(f) >= a /\ locked' = Add(locked, f, a)
          /\ escrow' = [escrow EXCEPT ![e] = [status |-> "locked", from |-> f, to |-> t,
                                             amount |-> a, arbiter |-> Gov]]
          /\ recent' = recent \cup {<<f, a>>}
          /\ UNCHANGED <<wallets, balance, stake, dispute, reported, polls, art, stop, black, dole, book>>
      BY <2>1 DEF CreateEscrow
    <3>2. f \in All /\ t \in All /\ Gov \in All /\ a \in Nat
      BY Numbers
    <3>3. locked[f] + a <= balance[f] /\ locked[f] + a \in Nat
      <4>1. locked[f] \in Nat /\ balance[f] \in Nat /\ balance[f] - locked[f] >= a
        BY <1>2, <3>1, <3>2 DEF Available
      <4> QED BY <3>2, <4>1
    <3>4. locked' = [locked EXCEPT ![f] = locked[f] + a]
      BY <3>1 DEF Add
    <3>5. Money
      BY <1>2, <3>1, <3>2, <3>3, <3>4
    <3>6. CourtTypes'
      BY <1>3, <3>1, <3>2 DEF CourtTypes
    <3>7. \A w \in All : /\ HeldInEscrow(w)[e] = 0
                         /\ HeldInEscrow(w)'[e] = IF w = f THEN a ELSE 0
      BY <1>3, <3>1 DEF HeldInEscrow, Open
    <3>8. Turns
      <4>1. \A x \in Escrows \ {e} : escrow'[x] = escrow[x]
        BY <1>3, <3>1
      <4>2. ASSUME NEW w \in All
            PROVE  locked'[w] = locked[w] - HeldInEscrow(w)[e] + HeldInEscrow(w)'[e]
        <5>1. locked[w] \in Nat /\ locked'[w] = IF w = f THEN locked[w] + a ELSE locked[w]
          BY <1>2, <3>4
        <5> HIDE DEF All
        <5> QED BY <3>2, <3>7, <5>1
      <4> QED BY <4>1, <4>2
    <3>9. Notes
      BY <1>6, <3>1, <3>2
    <3> QED BY <3>1, <3>5, <3>6, <3>8, <3>9
  <2>2. ASSUME NEW by \in Citizens \cup {Outsider}, Release(e, by)
        PROVE  Keeps /\ Notes /\ Money /\ CourtTypes' /\ Turns
    <3>1. /\ escrow[e].status \in Open
          /\ locked' = Add(locked, escrow[e].from, -escrow[e].amount)
          /\ balance' = Add(Add(balance, escrow[e].from, -escrow[e].amount),
                            escrow[e].to, escrow[e].amount)
          /\ escrow' = [escrow EXCEPT ![e].status = "released"]
          /\ recent' = recent \cup {<<escrow[e].from, escrow[e].amount>>}
          /\ UNCHANGED <<wallets, stake, dispute, reported, polls, art, stop, black, dole, book>>
      BY <2>2 DEF Release
    <3>2. /\ Turns /\ locked' \in [All -> Nat]
          /\ \A w \in All : locked'[w] =
               IF w = escrow[e].from THEN locked[w] - escrow[e].amount ELSE locked[w]
          /\ escrow[e].amount <= locked[escrow[e].from]
      BY <1>9, <3>1
    <3>3. CourtTypes'
      BY <1>3, <1>8, <3>1 DEF CourtTypes
    <3>4. Money
      <4> DEFINE b1 == Add(balance, escrow[e].from, -escrow[e].amount)
      <4>1. balance[escrow[e].from] + (-escrow[e].amount) >= locked[escrow[e].from] - escrow[e].amount
            /\ locked[escrow[e].from] - escrow[e].amount >= 0 /\ -escrow[e].amount \in Int
        BY <1>1, <1>2, <3>2
      <4>2. balance[escrow[e].from] + (-escrow[e].amount) >= 0
        BY <1>1, <1>2, <4>1
      <4> HIDE DEF All
      <4>3. /\ b1 \in [All -> Nat] /\ b1[escrow[e].from] = balance[escrow[e].from] + (-escrow[e].amount)
            /\ \A x \in All \ {escrow[e].from} : b1[x] = balance[x]
        BY <1>1, <1>2, <4>1, <4>2, AddPosts
      <4> HIDE DEF b1
      <4>4. b1[escrow[e].to] + escrow[e].amount >= 0 /\ escrow[e].amount \in Int
        BY <1>1, <4>3
      <4>5. balance' = Add(b1, escrow[e].to, escrow[e].amount)
        BY <3>1 DEF b1
      <4>6. /\ balance' \in [All -> Nat] /\ balance'[escrow[e].to] = b1[escrow[e].to] + escrow[e].amount
            /\ \A x \in All \ {escrow[e].to} : balance'[x] = b1[x]
        BY <1>1, <4>3, <4>4, <4>5, AddPosts
      <4>7. ASSUME NEW w \in All PROVE locked'[w] <= balance'[w]
        <5>1. locked[w] \in Nat /\ balance[w] \in Nat /\ locked[w] <= balance[w] /\ b1[w] \in Nat
          BY <1>2, <4>3
        <5>2. locked'[w] <= b1[w]
          BY <1>1, <3>2, <4>1, <4>3, <5>1
        <5>3. b1[w] <= balance'[w]
          BY <1>1, <4>6, <5>1
        <5> QED BY <3>2, <4>6, <5>1, <5>2, <5>3
      <4> QED BY <1>2, <3>1, <3>2, <4>6, <4>7
    <3>5. Notes
      BY <1>1, <1>6, <3>1
    <3> QED BY <3>1, <3>2, <3>3, <3>4, <3>5
  <2>3. ASSUME Refunded(e), escrow[e].status \in Open, UNCHANGED <<balance, crashes>>,
               UNCHANGED reported, Keeps,
               dispute' \in [Escrows -> [Citizens -> {"none", "open", "failed"}]]
        PROVE  Keeps /\ Notes /\ Money /\ CourtTypes' /\ Turns
    <3>1. /\ locked' = Add(locked, escrow[e].from, -escrow[e].amount)
          /\ escrow' = [escrow EXCEPT ![e].status = "refunded"]
          /\ recent' = recent \cup {<<escrow[e].to, escrow[e].amount>>}
      BY <2>3 DEF Refunded
    <3>2. /\ Turns /\ locked' \in [All -> Nat]
          /\ \A w \in All : locked'[w] =
               IF w = escrow[e].from THEN locked[w] - escrow[e].amount ELSE locked[w]
      BY <1>9, <2>3, <3>1
    <3>3. CourtTypes'
      BY <1>3, <1>8, <2>3, <3>1 DEF CourtTypes
    <3>4. ASSUME NEW w \in All PROVE locked'[w] <= balance'[w]
      <4>1. locked[w] \in Nat /\ balance[w] \in Nat /\ locked[w] <= balance[w] /\ balance' = balance
        BY <1>2, <2>3
      <4> HIDE DEF All
      <4> QED BY <1>1, <3>2, <4>1
    <3>5. Notes
      BY <1>1, <1>6, <3>1
    <3> QED BY <1>2, <2>3, <3>2, <3>3, <3>4, <3>5
  <2>4. ASSUME NEW by \in Citizens \cup {Outsider}, Refund(e, by)
        PROVE  Keeps /\ Notes /\ Money /\ CourtTypes' /\ Turns
    <3>1. /\ Refunded(e) /\ escrow[e].status \in Open
          /\ UNCHANGED <<wallets, balance, stake, dispute, reported, polls, art, stop, black, dole, book>>
      BY <2>4 DEF Refund, MayRefund
    <3> QED BY <1>3, <2>3, <3>1
  <2>5. ASSUME \A x \in Escrows \ {e} : escrow'[x] = escrow[x],
               \A w \in All : HeldInEscrow(w)'[e] = HeldInEscrow(w)[e],
               UNCHANGED <<balance, locked>>
        PROVE  Turns
    BY <1>4, <2>5
  <2>6. ASSUME NEW c \in Citizens, Dispute(e, c)
        PROVE  Keeps /\ Notes /\ Money /\ CourtTypes' /\ Turns
    <3>1. PICK arb \in Citizens \cup {Outsider} :
            escrow' = [escrow EXCEPT ![e].status = "disputed", ![e].arbiter = arb]
      BY <2>6 DEF Dispute
    <3>2. /\ escrow[e].status = "locked" /\ UNCHANGED <<ledger, polls, art, guards, dole, book>>
          /\ dispute' = [dispute EXCEPT ![e][c] = "open"]
          /\ reported' = reported \cup {<<c, Other(e, c)>>}
      BY <2>6 DEF Dispute, Reports
    <3>3. Other(e, c) \in All
      BY <1>1 DEF Other
    <3>4. escrow' \in [Escrows -> [status : {"none", "locked", "disputed", "released", "refunded"},
                                from : All, to : All, amount : Amounts \cup {0},
                                arbiter : All \cup {Outsider}]]
      BY <1>8, <3>1
    <3>5. CourtTypes'
      <4>1. dispute' \in [Escrows -> [Citizens -> {"none", "open", "failed"}]]
        BY <1>3, <3>2
      <4>2. reported' \subseteq Citizens \X All
        <5> HIDE DEF All
        <5> QED BY <1>3, <3>2, <3>3
      <4> QED BY <3>4, <4>1, <4>2 DEF CourtTypes
    <3>6. /\ \A x \in Escrows \ {e} : escrow'[x] = escrow[x]
          /\ \A w \in All : HeldInEscrow(w)'[e] = HeldInEscrow(w)[e]
      BY <1>3, <3>1, <3>2 DEF HeldInEscrow, Open
    <3>7. Turns
      BY <2>5, <3>2, <3>6
    <3> QED BY <1>2, <1>7, <1>5, <3>2, <3>5, <3>7
  <2>7. ASSUME UNCHANGED <<escrow, balance, locked>> PROVE Turns
    <3>1. \A w \in All : HeldInEscrow(w)' = HeldInEscrow(w)
      BY <2>7 DEF HeldInEscrow
    <3>2. \A x \in Escrows \ {e} : escrow'[x] = escrow[x]
      BY <2>7
    <3> QED BY <2>5, <2>7, <3>1, <3>2
  <2>8. ASSUME NEW c \in Citizens, CrashDispute(e, c)
        PROVE  Keeps /\ Notes /\ Money /\ CourtTypes' /\ Turns
    <3>1. /\ UNCHANGED <<ledger, escrow, polls, art, guards, dole, granted, vanished, stranded>>
          /\ crashes' = crashes + 1
          /\ dispute' = [dispute EXCEPT ![e][c] = "open"]
          /\ reported' = reported \cup {<<c, Other(e, c)>>}
      BY <2>8 DEF CrashDispute, Reports
    <3>2. Other(e, c) \in All
      BY <1>1 DEF Other
    <3>3. CourtTypes'
      <4>1. dispute' \in [Escrows -> [Citizens -> {"none", "open", "failed"}]]
        BY <1>3, <3>1
      <4>2. reported' \subseteq Citizens \X All
        <5> HIDE DEF All
        <5> QED BY <1>3, <3>1, <3>2
      <4> QED BY <1>3, <3>1, <4>1, <4>2 DEF CourtTypes
    <3> QED BY <1>2, <1>7, <1>5, <2>7, <3>1, <3>3
  <2>9. ASSUME NEW c \in Citizens, FailDispute(e, c)
        PROVE  Keeps /\ Notes /\ Money /\ CourtTypes' /\ Turns
    <3>1. /\ dispute' = [dispute EXCEPT ![e][c] = "failed"]
          /\ UNCHANGED <<wallets, balance, stake, reported, polls, art, stop, black, dole, book>>
          /\ \/ Refunded(e) /\ escrow[e].status \in Open
             \/ UNCHANGED <<locked, escrow, recent>>
      BY <2>9 DEF FailDispute, MayRefund
    <3>2. dispute' \in [Escrows -> [Citizens -> {"none", "open", "failed"}]]
      BY <1>3, <3>1
    <3>3. CASE UNCHANGED <<locked, escrow, recent>>
      <4>1. CourtTypes'
        BY <1>3, <3>1, <3>2, <3>3 DEF CourtTypes
      <4> QED BY <1>2, <1>7, <1>5, <2>7, <3>1, <3>3, <4>1
    <3>4. CASE Refunded(e) /\ escrow[e].status \in Open
      BY <2>3, <3>1, <3>2, <3>4
    <3> QED BY <3>1, <3>3, <3>4
  <2> QED BY <2>1, <2>2, <2>4, <2>6, <2>8, <2>9
<1>11. TypeOK'
  <2>1. wallets' = wallets /\ granted' = granted /\ vanished' = vanished
        /\ stake' = stake /\ stranded' = stranded /\ UNCHANGED <<polls, art, stop, black, dole>>
        /\ recent' \subseteq All \X Nat
    BY <1>10
  <2>2. MoneyTypes'
    BY <1>10, <2>1 DEF LedgerInv, TypeOK, MoneyTypes
  <2>3. PollTypes' /\ OtherTypes'
    BY <2>1 DEF LedgerInv, TypeOK, PollTypes, OtherTypes
  <2> QED BY <1>10, <2>2, <2>3 DEF TypeOK
<1>12. Solvent'
  BY <1>10 DEF Solvent
<1>13. LocksAreAccounted'
  <2>1. TypeOK /\ LocksAreAccounted /\ UNCHANGED <<proposal, stake, stranded>>
    BY <1>10 DEF LedgerInv
  <2> HIDE DEF All
  <2> QED BY <1>10, <1>11, <2>1, EscrowTurns
<1> QED BY <1>11, <1>12, <1>13 DEF LedgerInv

\* What is locked anew was available.
LEMMA LockGrows ==
  ASSUME LedgerInv, NEW c \in All, NEW n \in Nat, Available(c) >= n, locked' = Add(locked, c, n)
  PROVE  /\ locked' \in [All -> Nat]
         /\ \A w \in All : locked'[w] = IF w = c THEN locked[w] + n ELSE locked[w]
         /\ \A w \in All : locked'[w] <= balance[w]
<1>1. /\ balance \in [All -> Nat] /\ locked \in [All -> Nat]
      /\ \A w \in All : locked[w] <= balance[w]
  BY DEF LedgerInv, TypeOK, MoneyTypes, Solvent
<1>2. locked[c] + n <= balance[c] /\ locked[c] + n \in Nat
  <2>1. locked[c] \in Nat /\ balance[c] \in Nat /\ balance[c] - locked[c] >= n
    BY <1>1 DEF Available
  <2> QED BY <2>1
<1>3. locked' = [locked EXCEPT ![c] = locked[c] + n]
  BY DEF Add
<1> HIDE DEF All
<1> QED BY <1>1, <1>2, <1>3

\* The bond of a running poll goes back, or is taken, out of its lock.
LEMMA BondPosts ==
  ASSUME LedgerInv, NEW p \in Proposals, proposal[p].status = "active",
         NEW burned \in {FALSE, (Burn \in wallets)},
         ReturnBond(proposal[p].creator) \/ TakeBond(proposal[p].creator, burned)
  PROVE  /\ balance' \in [All -> Nat] /\ locked' \in [All -> Nat] /\ vanished' \in Nat
         /\ \A w \in All : locked'[w] = IF w = proposal[p].creator THEN locked[w] - Bond
                                        ELSE locked[w]
         /\ \A w \in All : locked'[w] <= balance'[w]
         /\ Sum(All, balance') + vanished' = Sum(All, balance) + vanished
<1> DEFINE c == proposal[p].creator
           b1 == Add(balance, c, -Bond)
<1>1. c \in All /\ Bond <= locked[c] /\ locked[c] <= balance[c]
  BY BondIsCovered
<1>2. /\ balance \in [All -> Nat] /\ locked \in [All -> Nat] /\ vanished \in Nat
      /\ \A w \in All : locked[w] <= balance[w]
  BY DEF LedgerInv, TypeOK, MoneyTypes, Solvent
<1>3. Bond \in Nat /\ Burn \in All
  BY Numbers
<1>4. locked' = Add(locked, c, -Bond)
  BY DEF ReturnBond, TakeBond
<1>6. \/ UNCHANGED <<balance, vanished>>
      \/ balance' = Add(b1, Burn, Bond) /\ UNCHANGED vanished
      \/ balance' = b1 /\ vanished' = vanished + Bond
  BY DEF ReturnBond, TakeBond
<1> HIDE DEF All, c
<1>7. locked[c] + (-Bond) >= 0 /\ balance[c] + (-Bond) >= 0 /\ -Bond \in Int
      /\ locked[c] \in Nat /\ balance[c] \in Nat
  BY <1>1, <1>2, <1>3
<1>8. /\ locked' \in [All -> Nat] /\ locked'[c] = locked[c] + (-Bond)
      /\ \A x \in All \ {c} : locked'[x] = locked[x]
  BY <1>1, <1>2, <1>4, <1>7, AddPosts
<1>9. /\ b1 \in [All -> Nat] /\ b1[c] = balance[c] + (-Bond)
      /\ \A x \in All \ {c} : b1[x] = balance[x]
      /\ Sum(All, b1) = Sum(All, balance) + (-Bond) /\ Sum(All, balance) \in Nat
  BY <1>1, <1>2, <1>7, AddPosts
<1>10. \A w \in All : locked'[w] = IF w = c THEN locked[w] - Bond ELSE locked[w]
  BY <1>3, <1>7, <1>8
<1>11. \A w \in All : locked'[w] <= b1[w] /\ b1[w] <= balance[w]
  <2>1. ASSUME NEW w \in All PROVE locked'[w] <= b1[w] /\ b1[w] <= balance[w]
    <3>1. locked[w] \in Nat /\ balance[w] \in Nat /\ locked[w] <= balance[w]
      BY <1>2
    <3> QED BY <1>1, <1>3, <1>7, <1>8, <1>9, <3>1
  <2> QED BY <2>1
<1> HIDE DEF b1
<1>12. /\ balance' \in [All -> Nat] /\ vanished' \in Nat
       /\ \A w \in All : locked'[w] <= balance'[w]
       /\ Sum(All, balance') + vanished' = Sum(All, balance) + vanished
  <2>1. CASE UNCHANGED <<balance, vanished>>
    <3>1. ASSUME NEW w \in All PROVE locked'[w] <= balance[w]
      <4>1. locked'[w] \in Nat /\ b1[w] \in Nat /\ balance[w] \in Nat
        BY <1>2, <1>8, <1>9
      <4> QED BY <1>11, <4>1
    <3> QED BY <1>2, <2>1, <3>1
  <2>2. CASE balance' = Add(b1, Burn, Bond) /\ UNCHANGED vanished
    <3>1. b1[Burn] \in Nat /\ b1[Burn] + Bond >= 0
      BY <1>3, <1>9
    <3>2. /\ balance' \in [All -> Nat] /\ balance'[Burn] = b1[Burn] + Bond
          /\ \A x \in All \ {Burn} : balance'[x] = b1[x]
          /\ Sum(All, balance') = Sum(All, b1) + Bond
      BY <1>3, <1>9, <2>2, <3>1, AddPosts
    <3>3. ASSUME NEW w \in All PROVE locked'[w] <= balance'[w]
      <4>1. locked'[w] \in Nat /\ b1[w] \in Nat /\ balance'[w] \in Nat
        BY <1>8, <1>9, <3>2
      <4> QED BY <1>3, <1>11, <3>2, <4>1
    <3>4. Sum(All, balance') = Sum(All, balance)
      BY <1>3, <1>9, <3>2
    <3> QED BY <1>2, <2>2, <3>2, <3>3, <3>4
  <2>3. CASE balance' = b1 /\ vanished' = vanished + Bond
    BY <1>2, <1>3, <1>9, <1>11, <2>3
  <2> QED BY <1>6, <2>1, <2>2, <2>3
<1> QED BY <1>8, <1>10, <1>12 DEF c

PollRow == [status : {"none", "active", "passed", "rejected", "executed"},
            kind : {"general", "constitutional"}, creator : All,
            bond : {"none", "locked", "refunded", "burned"},
            for : Nat, against : Nat, abstain : Nat, time : {"before", "end", "after"}]

\* Bonds and stakes lock and unlock what they hold.
LEMMA PollsKeep ==
  ASSUME LedgerInv, Polls
  PROVE  LedgerInv'
<1> DEFINE Keeps == UNCHANGED <<wallets, courts, art, guards, dole, granted>>
           Money == /\ balance' \in [All -> Nat] /\ locked' \in [All -> Nat] /\ crashes' \in Nat
                    /\ stake' \in [All -> Nat] /\ stranded' \in [All -> Nat] /\ vanished' \in Nat
                    /\ \A w \in All : locked'[w] <= balance'[w]
           Account(p) == \A w \in All : locked'[w] - stake'[w] - stranded'[w] =
                           locked[w] - stake[w] - stranded[w]
                             - HeldAsBond(w)[p] + HeldAsBond(w)'[p]
           Turns(p) == (\A x \in Proposals \ {p} : proposal'[x] = proposal[x]) /\ Account(p)
           Stays == UNCHANGED proposal /\ \A w \in All : locked'[w] - stake'[w] - stranded'[w] =
                                             locked[w] - stake[w] - stranded[w]
<1>1. /\ wallets \subseteq All /\ balance \in [All -> Nat] /\ locked \in [All -> Nat]
      /\ stake \in [All -> Nat] /\ stranded \in [All -> Nat] /\ crashes \in Nat
      /\ vanished \in Nat
      /\ \A w \in All : locked[w] <= balance[w]
  BY DEF LedgerInv, TypeOK, MoneyTypes, Solvent
<1>2. proposal \in [Proposals -> PollRow] /\ voted \subseteq Proposals \X Citizens
  BY DEF LedgerInv, TypeOK, PollTypes, PollRow
<1>3. Bond \in Nat /\ \A n \in Amounts \cup {0} : n \in Nat
  BY Numbers
<1>4. \A w \in All, p \in Proposals : HeldAsBond(w)[p] \in Nat
  BY HoldsAreNumbers DEF LedgerInv
<1>5. \A w \in All : locked[w] \in Nat /\ stake[w] \in Nat /\ stranded[w] \in Nat
  BY <1>1
\* A row with another value in one column is a row.
<1>6. ASSUME NEW p \in Proposals
      PROVE  /\ \A s \in {"active", "passed", "rejected", "executed"} :
                  [proposal EXCEPT ![p].status = s] \in [Proposals -> PollRow]
             /\ \A s \in {"passed", "rejected"}, b \in {"refunded", "burned"} :
                  [proposal EXCEPT ![p].status = s, ![p].bond = b] \in [Proposals -> PollRow]
             /\ \A t \in {"before", "end", "after"} :
                  [proposal EXCEPT ![p].time = t] \in [Proposals -> PollRow]
             /\ \A k \in Nat, side \in {"for", "against", "abstain"} :
                  [proposal EXCEPT ![p][side] = @ + k] \in [Proposals -> PollRow]
  <2> DEFINE r == proposal[p]
  <2>1. r \in PollRow
    BY <1>2
  <2>2. \A q \in PollRow : [proposal EXCEPT ![p] = q] \in [Proposals -> PollRow]
    BY <1>2
  <2>3. \A s \in {"active", "passed", "rejected", "executed"} :
          [proposal EXCEPT ![p].status = s] = [proposal EXCEPT ![p] = [r EXCEPT !.status = s]]
    BY <1>2
  <2>4. \A s \in {"passed", "rejected"}, b \in {"refunded", "burned"} :
          [proposal EXCEPT ![p].status = s, ![p].bond = b]
            = [proposal EXCEPT ![p] = [r EXCEPT !.status = s, !.bond = b]]
    BY <1>2
  <2>5. \A t \in {"before", "end", "after"} :
          [proposal EXCEPT ![p].time = t] = [proposal EXCEPT ![p] = [r EXCEPT !.time = t]]
    BY <1>2
  <2>6. \A k \in Nat, side \in {"for", "against", "abstain"} :
          [proposal EXCEPT ![p][side] = @ + k]
            = [proposal EXCEPT ![p] = [r EXCEPT ![side] = r[side] + k]]
    BY <1>2
  <2> HIDE DEF r, All
  <2>7. \A s \in {"active", "passed", "rejected", "executed"} : [r EXCEPT !.status = s] \in PollRow
    BY <2>1 DEF PollRow
  <2>8. \A s \in {"passed", "rejected"}, b \in {"refunded", "burned"} :
          [r EXCEPT !.status = s, !.bond = b] \in PollRow
    BY <2>1 DEF PollRow
  <2>9. \A t \in {"before", "end", "after"} : [r EXCEPT !.time = t] \in PollRow
    BY <2>1 DEF PollRow
  <2>10. ASSUME NEW k \in Nat, NEW side \in {"for", "against", "abstain"}
         PROVE  [r EXCEPT ![side] = r[side] + k] \in PollRow
    <3>1. CASE side = "for"
      BY <2>1, <3>1 DEF PollRow
    <3>2. CASE side = "against"
      BY <2>1, <3>2 DEF PollRow
    <3>3. CASE side = "abstain"
      BY <2>1, <3>3 DEF PollRow
    <3> QED BY <3>1, <3>2, <3>3
  <2>11. \A s \in {"active", "passed", "rejected", "executed"} :
           [proposal EXCEPT ![p].status = s] \in [Proposals -> PollRow]
    BY <2>2, <2>3, <2>7
  <2>12. \A s \in {"passed", "rejected"}, b \in {"refunded", "burned"} :
           [proposal EXCEPT ![p].status = s, ![p].bond = b] \in [Proposals -> PollRow]
    BY <2>2, <2>4, <2>8
  <2>13. \A t \in {"before", "end", "after"} :
           [proposal EXCEPT ![p].time = t] \in [Proposals -> PollRow]
    BY <2>2, <2>5, <2>9
  <2>14. \A k \in Nat, side \in {"for", "against", "abstain"} :
           [proposal EXCEPT ![p][side] = @ + k] \in [Proposals -> PollRow]
    BY <2>2, <2>6, <2>10
  <2> QED BY <2>11, <2>12, <2>13, <2>14
\* A step that touches no bond of p and keeps the locks keeps the account.
<1>7. ASSUME NEW p \in Proposals, UNCHANGED <<locked, stake, stranded>>,
             \A x \in Proposals \ {p} : proposal'[x] = proposal[x],
             \A w \in All : HeldAsBond(w)'[p] = HeldAsBond(w)[p]
      PROVE  Turns(p)
  <2> HIDE DEF All
  <2> QED BY <1>4, <1>5, <1>7
\* The four steps that lock.
<1>8. ASSUME NEW c \in Citizens, LocksBond(c)
      PROVE  /\ locked' \in [All -> Nat]
             /\ \A w \in All : locked'[w] = IF w = c THEN locked[w] + Bond ELSE locked[w]
             /\ \A w \in All : locked'[w] <= balance[w]
  BY <1>3, <1>8, LockGrows DEF LocksBond
<1>9. ASSUME NEW c \in Citizens, NEW n \in Amounts \cup {0}, Stakes(c, n)
      PROVE  /\ locked' \in [All -> Nat]
             /\ \A w \in All : locked'[w] = IF w = c THEN locked[w] + n ELSE locked[w]
             /\ \A w \in All : locked'[w] <= balance[w]
  <2>1. n \in Nat /\ c \in All /\ locked' = Add(locked, c, n)
    BY <1>3, <1>9 DEF Stakes
  <2>2. Available(c) >= n
    <3>1. locked[c] \in Nat /\ balance[c] \in Nat /\ locked[c] <= balance[c]
      BY <1>1
    <3> QED BY <1>9, <2>1, <3>1 DEF Stakes, Available
  <2> QED BY <2>1, <2>2, LockGrows
<1>10. \A c \in Citizens : c \in All
  OBVIOUS
<1>11. \/ Keeps /\ Money /\ PollTypes' /\ Stays
       \/ \E p \in Proposals : Keeps /\ Money /\ PollTypes' /\ Turns(p)
  <2>1. ASSUME NEW c \in Citizens, CrashPropose(c)
        PROVE  Keeps /\ Money /\ PollTypes' /\ Stays
    <3>1. /\ LocksBond(c) /\ stranded' = Add(stranded, c, Bond) /\ crashes' = crashes + 1
          /\ UNCHANGED <<wallets, balance, stake, courts, polls, art, guards, dole, granted, vanished>>
      BY <2>1 DEF CrashPropose
    <3>2. stranded' \in [All -> Nat]
          /\ \A w \in All : stranded'[w] = IF w = c THEN stranded[w] + Bond ELSE stranded[w]
      <4>1. c \in All /\ Bond \in Nat /\ stranded \in [All -> Nat]
        BY <1>1, <1>3, <1>10
      <4> HIDE DEF All
      <4>2. /\ Add(stranded, c, Bond) \in [All -> Nat]
            /\ \A w \in All : Add(stranded, c, Bond)[w]
                                = IF w = c THEN stranded[w] + Bond ELSE stranded[w]
        <5>1. stranded[c] + Bond >= 0 /\ stranded[c] \in Nat /\ Bond \in Int
          BY <4>1
        <5>2. /\ Add(stranded, c, Bond) \in [All -> Nat] /\ Add(stranded, c, Bond)[c] = stranded[c] + Bond
              /\ \A w \in All \ {c} : Add(stranded, c, Bond)[w] = stranded[w]
          BY <4>1, <5>1, AddPosts
        <5> QED BY <5>2
      <4> QED BY <3>1, <4>2
    <3>3. Money
      BY <1>1, <1>8, <3>1, <3>2
    <3>4. Stays
      <4>1. UNCHANGED <<proposal, stake>>
        BY <3>1
      <4>2. \A w \in All : locked'[w] = IF w = c THEN locked[w] + Bond ELSE locked[w]
        BY <1>8, <3>1
      <4> HIDE DEF All
      <4> QED BY <1>3, <1>5, <3>2, <4>1, <4>2
    <3>5. PollTypes'
      BY <1>2, <3>1 DEF PollTypes, PollRow
    <3> QED BY <3>1, <3>3, <3>4, <3>5
  <2>2. ASSUME NEW p \in Proposals, NEW c \in Citizens, Propose(p, c)
        PROVE  Keeps /\ Money /\ PollTypes' /\ Turns(p)
    <3>1. /\ proposal[p].status = "none" /\ LocksBond(c)
          /\ UNCHANGED <<wallets, balance, stake, voted, courts, art, guards, dole, book>>
      BY <2>2 DEF Propose
    <3> PICK k \in {"general", "constitutional"} :
               proposal' = [proposal EXCEPT ![p] = [NoProposal EXCEPT !.status = "active",
                              !.kind = k, !.creator = c, !.bond = "locked"]]
      BY <2>2 DEF Propose
    <3>2. [NoProposal EXCEPT !.status = "active", !.kind = k, !.creator = c, !.bond = "locked"]
            \in PollRow
      BY DEF NoProposal, PollRow
    <3>3. PollTypes'
      BY <1>2, <3>1, <3>2 DEF PollTypes, PollRow
    <3>4. Money
      BY <1>1, <1>8, <3>1
    <3>5. \A x \in Proposals \ {p} : proposal'[x] = proposal[x]
      BY <1>2
    <3>6. proposal'[p].status = "active" /\ proposal'[p].creator = c
      BY <1>2 DEF NoProposal
    <3>7. \A w \in All : HeldAsBond(w)[p] = 0 /\ HeldAsBond(w)'[p] = IF w = c THEN Bond ELSE 0
      BY <3>1, <3>6 DEF HeldAsBond
    <3>8. Account(p)
      <4>1. UNCHANGED <<stranded, stake>>
        BY <3>1
      <4>2. \A w \in All : locked'[w] = IF w = c THEN locked[w] + Bond ELSE locked[w]
        BY <1>8, <3>1
      <4> HIDE DEF All
      <4> QED BY <1>3, <1>5, <3>7, <4>1, <4>2
    <3> QED BY <3>1, <3>3, <3>4, <3>5, <3>8
  <2>3. ASSUME NEW p \in Proposals, NEW c \in Citizens, NEW n \in Amounts \cup {0}, Vote(p, c, n)
        PROVE  Keeps /\ Money /\ PollTypes' /\ Turns(p)
    <3>1. /\ Stakes(c, n) /\ stake' = Add(stake, c, n) /\ voted' = voted \cup {<<p, c>>}
          /\ UNCHANGED <<wallets, balance, courts, art, guards, dole, book>>
      BY <2>3 DEF Vote
    <3> PICK k \in 0..WeightOf[n], side \in {"for", "against", "abstain"} :
               proposal' = [proposal EXCEPT ![p][side] = @ + k]
      BY <2>3 DEF Vote
    <3>2. k \in Nat /\ n \in Nat
      BY <1>3
    <3>3. PollTypes'
      <4>1. proposal' \in [Proposals -> PollRow]
        BY <1>6, <3>2
      <4> QED BY <1>2, <3>1, <4>1 DEF PollTypes, PollRow
    <3>4. stake' \in [All -> Nat] /\ \A w \in All : stake'[w] = IF w = c THEN stake[w] + n ELSE stake[w]
      <4>1. c \in All /\ stake \in [All -> Nat] /\ stranded \in [All -> Nat]
        BY <1>1, <1>10
      <4> HIDE DEF All
      <4>2. /\ Add(stranded, c, n) \in [All -> Nat]
            /\ \A w \in All : Add(stranded, c, n)[w] = IF w = c THEN stranded[w] + n ELSE stranded[w]
        <5>1. stranded[c] + n >= 0 /\ stranded[c] \in Nat /\ n \in Int
          BY <3>2, <4>1
        <5>2. /\ Add(stranded, c, n) \in [All -> Nat] /\ Add(stranded, c, n)[c] = stranded[c] + n
              /\ \A w \in All \ {c} : Add(stranded, c, n)[w] = stranded[w]
          BY <4>1, <5>1, AddPosts
        <5> QED BY <5>2
      <4>3. /\ Add(stake, c, n) \in [All -> Nat]
            /\ \A w \in All : Add(stake, c, n)[w] = IF w = c THEN stake[w] + n ELSE stake[w]
        <5>1. stake[c] + n >= 0 /\ stake[c] \in Nat /\ n \in Int
          BY <3>2, <4>1
        <5>2. /\ Add(stake, c, n) \in [All -> Nat] /\ Add(stake, c, n)[c] = stake[c] + n
              /\ \A w \in All \ {c} : Add(stake, c, n)[w] = stake[w]
          BY <4>1, <5>1, AddPosts
        <5> QED BY <5>2
      <4> QED BY <3>1, <4>1, <4>2, <4>3
    <3>5. Money
      BY <1>1, <1>9, <3>1, <3>4
    <3>6. /\ \A x \in Proposals \ {p} : proposal'[x] = proposal[x]
          /\ \A w \in All : HeldAsBond(w)'[p] = HeldAsBond(w)[p]
      <4>1. proposal' = [proposal EXCEPT ![p] = [proposal[p] EXCEPT ![side] = proposal[p][side] + k]]
        BY <1>2
      <4>2. proposal[p] \in PollRow
        BY <1>2
      <4>3. /\ [proposal[p] EXCEPT ![side] = proposal[p][side] + k].status = proposal[p].status
            /\ [proposal[p] EXCEPT ![side] = proposal[p][side] + k].creator = proposal[p].creator
        BY <4>2 DEF PollRow
      <4>4. proposal'[p].status = proposal[p].status /\ proposal'[p].creator = proposal[p].creator
            /\ \A x \in Proposals \ {p} : proposal'[x] = proposal[x]
        BY <1>2, <4>1, <4>3
      <4> QED BY <4>4 DEF HeldAsBond
    <3>7. Account(p)
      <4>1. UNCHANGED stranded
        BY <3>1
      <4>2. \A w \in All : locked'[w] = IF w = c THEN locked[w] + n ELSE locked[w]
        BY <1>9, <3>1
      <4> HIDE DEF All
      <4> QED BY <1>4, <1>5, <3>2, <3>4, <3>6, <4>1, <4>2
    <3> QED BY <3>1, <3>3, <3>5, <3>6, <3>7
  <2>4. ASSUME NEW p \in Proposals, NEW c \in Citizens, NEW n \in Amounts \cup {0}, CrashVote(p, c, n)
        PROVE  Keeps /\ Money /\ PollTypes' /\ Stays
    <3>1. /\ Stakes(c, n) /\ crashes' = crashes + 1
          /\ \/ stranded' = Add(stranded, c, n) /\ UNCHANGED stake
             \/ stake' = Add(stake, c, n) /\ UNCHANGED stranded
          /\ UNCHANGED <<wallets, balance, courts, polls, art, guards, dole, granted, vanished>>
      BY <2>4 DEF CrashVote
    <3>2. n \in Nat
      BY <1>3
    <3>3. /\ stake' \in [All -> Nat] /\ stranded' \in [All -> Nat]
          /\ \/ /\ \A w \in All : stranded'[w] = IF w = c THEN stranded[w] + n ELSE stranded[w]
                /\ stake' = stake
             \/ /\ \A w \in All : stake'[w] = IF w = c THEN stake[w] + n ELSE stake[w]
                /\ stranded' = stranded
      <4>1. c \in All /\ stake \in [All -> Nat] /\ stranded \in [All -> Nat]
        BY <1>1, <1>10
      <4> HIDE DEF All
      <4>2. /\ Add(stranded, c, n) \in [All -> Nat]
            /\ \A w \in All : Add(stranded, c, n)[w] = IF w = c THEN stranded[w] + n ELSE stranded[w]
        <5>1. stranded[c] + n >= 0 /\ stranded[c] \in Nat /\ n \in Int
          BY <3>2, <4>1
        <5>2. /\ Add(stranded, c, n) \in [All -> Nat] /\ Add(stranded, c, n)[c] = stranded[c] + n
              /\ \A w \in All \ {c} : Add(stranded, c, n)[w] = stranded[w]
          BY <4>1, <5>1, AddPosts
        <5> QED BY <5>2
      <4>3. /\ Add(stake, c, n) \in [All -> Nat]
            /\ \A w \in All : Add(stake, c, n)[w] = IF w = c THEN stake[w] + n ELSE stake[w]
        <5>1. stake[c] + n >= 0 /\ stake[c] \in Nat /\ n \in Int
          BY <3>2, <4>1
        <5>2. /\ Add(stake, c, n) \in [All -> Nat] /\ Add(stake, c, n)[c] = stake[c] + n
              /\ \A w \in All \ {c} : Add(stake, c, n)[w] = stake[w]
          BY <4>1, <5>1, AddPosts
        <5> QED BY <5>2
      <4> QED BY <3>1, <4>1, <4>2, <4>3
    <3>4. Money
      <4> HIDE DEF All
      <4> QED BY <1>1, <1>9, <3>1, <3>3
    <3>5. Stays
      <4>1. UNCHANGED proposal
        BY <3>1
      <4>2. \A w \in All : locked'[w] = IF w = c THEN locked[w] + n ELSE locked[w]
        BY <1>9, <3>1
      <4> HIDE DEF All
      <4>3. ASSUME NEW w \in All PROVE locked'[w] - stake'[w] - stranded'[w] =
                                             locked[w] - stake[w] - stranded[w]
        <5>1. CASE w = c
          BY <1>5, <3>2, <3>3, <4>2, <5>1
        <5>2. CASE w # c
          BY <1>5, <3>2, <3>3, <4>2, <5>2
        <5> QED BY <5>1, <5>2
      <4> QED BY <4>1, <4>3
    <3>6. PollTypes'
      BY <1>2, <3>1 DEF PollTypes, PollRow
    <3> QED BY <3>1, <3>4, <3>5, <3>6
  <2>5. ASSUME NEW p \in Proposals, PollTime(p)
        PROVE  Keeps /\ Money /\ PollTypes' /\ Turns(p)
    <3>1. /\ proposal[p].time \in {"before", "end"}
          /\ proposal' = [proposal EXCEPT ![p].time = IF @ = "before" THEN "end" ELSE "after"]
          /\ UNCHANGED <<ledger, courts, voted, art, guards, dole, book>>
      BY <1>2, <2>5 DEF PollTime, PollRow
    <3>0. \E t \in {"before", "end", "after"} : proposal' = [proposal EXCEPT ![p].time = t]
      <4>1. proposal' = [proposal EXCEPT ![p].time =
                          IF proposal[p].time = "before" THEN "end" ELSE "after"]
        BY <1>2, <3>1
      <4> QED BY <4>1
    <3> PICK t \in {"before", "end", "after"} : proposal' = [proposal EXCEPT ![p].time = t]
      BY <3>0
    <3>2. PollTypes'
      <4>1. proposal' \in [Proposals -> PollRow]
        BY <1>6
      <4> QED BY <1>2, <3>1, <4>1 DEF PollTypes, PollRow
    <3>3. /\ \A x \in Proposals \ {p} : proposal'[x] = proposal[x]
          /\ \A w \in All : HeldAsBond(w)'[p] = HeldAsBond(w)[p]
      BY <1>2 DEF HeldAsBond
    <3> QED BY <1>1, <1>7, <3>1, <3>2, <3>3
  <2>6. ASSUME NEW p \in Proposals, Execute(p)
        PROVE  Keeps /\ Money /\ PollTypes' /\ Turns(p)
    <3>1. /\ proposal[p].status = "passed"
          /\ proposal' = [proposal EXCEPT ![p].status = "executed"]
          /\ UNCHANGED <<ledger, voted, courts, art, guards, dole, book>>
      BY <2>6 DEF Execute
    <3>2. PollTypes'
      BY <1>2, <1>6, <3>1 DEF PollTypes, PollRow
    <3>3. /\ \A x \in Proposals \ {p} : proposal'[x] = proposal[x]
          /\ \A w \in All : HeldAsBond(w)'[p] = HeldAsBond(w)[p]
      BY <1>2, <3>1 DEF HeldAsBond
    <3> QED BY <1>1, <1>7, <3>1, <3>2, <3>3
  <2>7. ASSUME NEW p \in Proposals, NEW burned \in {FALSE, (Burn \in wallets)},
               proposal[p].status = "active", proposal'[p].status # "active",
               ReturnBond(proposal[p].creator) \/ TakeBond(proposal[p].creator, burned),
               \A x \in Proposals \ {p} : proposal'[x] = proposal[x],
               UNCHANGED <<stake, stranded>>, crashes' \in Nat
        PROVE  Money /\ Turns(p)
    <3>1. /\ balance' \in [All -> Nat] /\ locked' \in [All -> Nat] /\ vanished' \in Nat
          /\ \A w \in All : locked'[w] = IF w = proposal[p].creator THEN locked[w] - Bond
                                         ELSE locked[w]
          /\ \A w \in All : locked'[w] <= balance'[w]
      BY <2>7, BondPosts
    <3>2. \A w \in All : /\ HeldAsBond(w)[p] = IF w = proposal[p].creator THEN Bond ELSE 0
                         /\ HeldAsBond(w)'[p] = 0
      BY <2>7 DEF HeldAsBond
    <3>3. Account(p)
      <4> HIDE DEF All
      <4> QED BY <1>3, <1>5, <2>7, <3>1, <3>2
    <3> QED BY <1>1, <2>7, <3>1, <3>3
  <2>8. ASSUME NEW p \in Proposals, Finalize(p)
        PROVE  Keeps /\ Money /\ PollTypes' /\ Turns(p)
    <3> PICK s \in {"passed", "rejected"}, b \in {"refunded", "burned"} :
               proposal' = [proposal EXCEPT ![p].status = s, ![p].bond = b]
      BY <2>8 DEF Finalize, Verdict
    <3>1. /\ proposal[p].status = "active"
          /\ ReturnBond(proposal[p].creator) \/ TakeBond(proposal[p].creator, Burn \in wallets)
          /\ UNCHANGED <<wallets, stake, voted, courts, art, guards, dole, granted, stranded, crashes>>
      BY <2>8 DEF Finalize, MayFinalize
    <3>2. PollTypes'
      BY <1>2, <1>6, <3>1 DEF PollTypes, PollRow
    <3>3. /\ \A x \in Proposals \ {p} : proposal'[x] = proposal[x]
          /\ proposal'[p].status # "active"
      BY <1>2 DEF PollRow
    <3> QED BY <1>1, <2>7, <3>1, <3>2, <3>3
  <2>9. ASSUME NEW p \in Proposals, CrashFinalize(p)
        PROVE  Keeps /\ Money /\ PollTypes' /\ Turns(p)
    <3> PICK s \in {"passed", "rejected"} : proposal' = [proposal EXCEPT ![p].status = s]
      BY <2>9 DEF CrashFinalize, Verdict
    <3>1. /\ proposal[p].status = "active" /\ crashes' = crashes + 1
          /\ UNCHANGED <<wallets, stake, voted, courts, art, guards, dole, granted>>
      BY <2>9 DEF CrashFinalize, MayFinalize
    <3>2. PollTypes'
      BY <1>2, <1>6, <3>1 DEF PollTypes, PollRow
    <3>3. /\ \A x \in Proposals \ {p} : proposal'[x] = proposal[x]
          /\ proposal'[p].status # "active"
      BY <1>2 DEF PollRow
    <3>4. CASE /\ stranded' = Add(stranded, proposal[p].creator, Bond)
               /\ UNCHANGED <<locked, balance, vanished>>
      <4>1. proposal[p].creator \in All
        BY BondIsCovered, <3>1
      <4>2. stranded[proposal[p].creator] + Bond \in Nat
        BY <1>1, <1>3, <4>1
      <4>3. /\ stranded' \in [All -> Nat]
            /\ \A w \in All : stranded'[w] = IF w = proposal[p].creator THEN stranded[w] + Bond
                                             ELSE stranded[w]
        <5> HIDE DEF All
        <5> QED BY <1>1, <3>4, <4>1, <4>2 DEF Add
      <4>4. \A w \in All : /\ HeldAsBond(w)[p] = IF w = proposal[p].creator THEN Bond ELSE 0
                           /\ HeldAsBond(w)'[p] = 0
        BY <3>1, <3>3 DEF HeldAsBond
      <4>5. Account(p)
        <5>1. locked' = locked /\ stake' = stake
          BY <3>1, <3>4
        <5> HIDE DEF All
        <5> QED BY <1>3, <1>5, <4>3, <4>4, <5>1
      <4> QED BY <1>1, <3>1, <3>2, <3>3, <3>4, <4>3, <4>5
    <3>5. CASE /\ \/ ReturnBond(proposal[p].creator)
                  \/ \E burned \in {FALSE, (Burn \in wallets)} : TakeBond(proposal[p].creator, burned)
               /\ UNCHANGED stranded
      <4>1. crashes' \in Nat
        BY <1>1, <3>1
      <4> QED BY <2>7, <3>1, <3>2, <3>3, <3>5, <4>1
    <3> QED BY <2>9, <3>4, <3>5 DEF CrashFinalize
  <2> QED BY <2>1, <2>2, <2>3, <2>4, <2>5, <2>6, <2>8, <2>9 DEF Polls
<1>12. TypeOK'
  <2>1. MoneyTypes'
    BY <1>11 DEF LedgerInv, TypeOK, MoneyTypes
  <2>2. CourtTypes' /\ OtherTypes'
    BY <1>11 DEF LedgerInv, TypeOK, CourtTypes, OtherTypes
  <2> QED BY <1>11, <2>1, <2>2 DEF TypeOK
<1>13. Solvent'
  BY <1>11 DEF Solvent
<1>14. LocksAreAccounted'
  <2>1. TypeOK /\ LocksAreAccounted /\ UNCHANGED escrow
    BY <1>11 DEF LedgerInv
  <2>2. CASE Stays
    <3> HIDE DEF All
    <3> QED BY <1>12, <2>1, <2>2, HoldsStay
  <2>3. ASSUME NEW p \in Proposals, Turns(p) PROVE LocksAreAccounted'
    <3> HIDE DEF All
    <3> QED BY <1>12, <2>1, <2>3, PollTurns
  <2> QED BY <1>11, <2>2, <2>3
<1> QED BY <1>12, <1>13, <1>14 DEF LedgerInv

-----------------------------------------------------------------------------
LEMMA LedgerStarts == Init => LedgerInv
<1> SUFFICES ASSUME Init PROVE LedgerInv
  OBVIOUS
<1>1. TypeOK
  <2>1. MoneyTypes
    BY DEF Init, MoneyTypes
  <2>2. CourtTypes
    BY DEF Init, CourtTypes, NoEscrow
  <2>3. PollTypes
    BY DEF Init, PollTypes, NoProposal
  <2>4. OtherTypes
    <3>1. PICK c \in Citizens : art = [creator |-> c, owner |-> c, price |-> 0]
      BY DEF Init
    <3>2. /\ stop = FALSE /\ black = [w \in All |-> "no"] /\ recent = {}
          /\ salaried = {} /\ due = Citizens
      BY DEF Init
    <3>3. stop \in BOOLEAN
      BY <3>2
    <3>4. black \in [All -> {"no", "until", "forever"}]
      BY <3>2
    <3> QED BY <3>1, <3>2, <3>3, <3>4 DEF OtherTypes
  <2> QED BY <2>1, <2>2, <2>3, <2>4 DEF TypeOK
<1>2. Solvent
  BY DEF Init, Solvent
<1>3. LocksAreAccounted
  <2> SUFFICES ASSUME NEW w \in All
               PROVE  locked[w] = Sum(Escrows, HeldInEscrow(w)) + Sum(Proposals, HeldAsBond(w))
                                    + stake[w] + stranded[w]
    BY DEF LocksAreAccounted
  <2>1. Sum(Escrows, HeldInEscrow(w)) = 0
    <3>1. \A e \in Escrows : HeldInEscrow(w)[e] = 0
      BY DEF Init, HeldInEscrow, NoEscrow, Open
    <3> QED BY <3>1, SumOfZeros
  <2>2. Sum(Proposals, HeldAsBond(w)) = 0
    <3>1. \A p \in Proposals : HeldAsBond(w)[p] = 0
      BY DEF Init, HeldAsBond, NoProposal
    <3> QED BY <3>1, SumOfZeros
  <2>3. locked[w] = 0 /\ stake[w] = 0 /\ stranded[w] = 0
    BY DEF Init
  <2> QED BY <2>1, <2>2, <2>3
<1> QED BY <1>1, <1>2, <1>3 DEF LedgerInv

LEMMA LedgerStep == LedgerInv /\ [Next]_vars => LedgerInv'
<1> SUFFICES ASSUME LedgerInv, [Next]_vars PROVE LedgerInv'
  OBVIOUS
<1>1. CASE UNCHANGED vars
  <2>1. TypeOK' /\ Solvent'
    BY <1>1 DEF vars, LedgerInv, TypeOK, MoneyTypes, CourtTypes, PollTypes, OtherTypes, Solvent
  <2>2. LocksAreAccounted'
    BY <1>1 DEF vars, LedgerInv, LocksAreAccounted, HeldInEscrow, HeldAsBond
  <2> QED BY <2>1, <2>2 DEF LedgerInv
<1>2. CASE Tick
  <2>1. TypeOK'
    BY <1>2 DEF Tick, LedgerInv, TypeOK, MoneyTypes, CourtTypes, PollTypes, OtherTypes
  <2>2. Solvent' /\ LocksAreAccounted'
    BY <1>2 DEF Tick, LedgerInv, Solvent, LocksAreAccounted, HeldInEscrow, HeldAsBond
  <2> QED BY <2>1, <2>2 DEF LedgerInv
<1>3. CASE \E c \in Citizens : CreateWallet(c)
  BY <1>3, IssuesKeep
<1>4. CASE Issues
  <2>1. CASE PayIncome
    <3>1. PICK c \in Citizens : TRUE
      BY <2>1 DEF PayIncome, LedgerInv, TypeOK, OtherTypes
    <3> QED BY <2>1, IssuesKeep
  <2> QED BY <1>4, <2>1, IssuesKeep DEF Issues
<1> QED BY <1>1, <1>2, <1>3, <1>4, PaymentsKeep, CourtsKeep, PollsKeep, MarketKeeps DEF Next

\* The columns of the tables keep their types: no balance, lock or stake is ever negative.
THEOREM TreasuryTypes == Spec => []TypeOK
<1>1. LedgerInv => TypeOK
  BY DEF LedgerInv
<1> QED BY <1>1, LedgerStarts, LedgerStep, PTL DEF Spec

\* What is locked is covered by the balance, in every wallet and at every time.
THEOREM NobodyOwes == Spec => []Solvent
<1>1. LedgerInv => Solvent
  BY DEF LedgerInv
<1> QED BY <1>1, LedgerStarts, LedgerStep, PTL DEF Spec

\* Every locked coin is claimed by an open escrow, a running poll or a stake, or has been
\* stranded by a crash.
THEOREM LocksHaveOwners == Spec => []LocksAreAccounted
<1>1. LedgerInv => LocksAreAccounted
  BY DEF LedgerInv
<1> QED BY <1>1, LedgerStarts, LedgerStep, PTL DEF Spec

-----------------------------------------------------------------------------
(* Conservation                                                            *)

\* One more posting to a wallet.
LEMMA SupplyGrows ==
  ASSUME LedgerInv, NEW c \in Citizens, NEW n \in Nat, balance' = Add(balance, c, n)
  PROVE  Supply' = Supply + n
<1>1. c \in All /\ balance \in [All -> Nat] /\ balance[c] + n >= 0 /\ n \in Int
  BY DEF LedgerInv, TypeOK, MoneyTypes
<1> HIDE DEF All
<1>2. Sum(All, Add(balance, c, n)) = Sum(All, balance) + n
  BY <1>1, AddPosts
<1> QED BY <1>2 DEF Supply

LEMMA Conserves == LedgerInv /\ MoneyIsConserved /\ [Next]_vars => MoneyIsConserved'
<1> SUFFICES ASSUME LedgerInv, MoneyIsConserved, [Next]_vars PROVE MoneyIsConserved'
  OBVIOUS
<1>1. Supply \in Nat /\ vanished \in Nat /\ granted \in Nat /\ balance \in [All -> Nat]
      /\ Supply + vanished = granted
  <2>1. balance \in [All -> Nat] /\ vanished \in Nat /\ granted \in Nat
    BY DEF LedgerInv, TypeOK, MoneyTypes
  <2>2. Supply \in Nat
    <3> HIDE DEF All
    <3> QED BY <2>1, Constants, SumSplits DEF Supply
  <2> QED BY <2>1, <2>2 DEF MoneyIsConserved
\* A step that moves money, or nothing.
<1>2. ASSUME Sum(All, balance') + vanished' = Sum(All, balance) + vanished, UNCHANGED granted
      PROVE  MoneyIsConserved'
  <2> HIDE DEF All
  <2> QED BY <1>1, <1>2 DEF MoneyIsConserved, Supply
<1>3. ASSUME UNCHANGED <<balance, vanished, granted>> PROVE MoneyIsConserved'
  BY <1>2, <1>3
\* A step that issues it.
<1>4. ASSUME NEW n \in Nat, Supply' = Supply + n, granted' = granted + n, UNCHANGED vanished
      PROVE  MoneyIsConserved'
  BY <1>1, <1>4 DEF MoneyIsConserved
<1>5. CASE UNCHANGED vars
  BY <1>3, <1>5 DEF vars
<1>6. CASE Tick
  BY <1>3, <1>6 DEF Tick
<1>7. CASE \E c \in Citizens : CreateWallet(c)
  <2> PICK c \in Citizens : CreateWallet(c)
    BY <1>7
  <2> QED BY <1>4, Numbers, SupplyGrows DEF CreateWallet
<1>8. CASE \E c \in Citizens : ShareMemory(c)
  <2> PICK c \in Citizens : ShareMemory(c)
    BY <1>8
  <2> QED BY <1>4, Numbers, SupplyGrows DEF ShareMemory
<1>9. CASE PayIncome
  <2> PICK paid \in SUBSET due :
        /\ balance' = [w \in All |-> IF w \in paid THEN balance[w] + Income ELSE balance[w]]
        /\ granted' = granted + Income * Cardinality(paid)
    BY <1>9 DEF PayIncome
  <2>1. paid \in SUBSET Citizens /\ paid \in SUBSET All /\ vanished' = vanished
    BY <1>9 DEF LedgerInv, TypeOK, OtherTypes, PayIncome
  <2>2. Cardinality(paid) \in Nat
    BY <2>1, FS_Subset, FS_CardinalityType
  <2>3. Income \in Nat /\ Income * Cardinality(paid) \in Nat
    BY <2>2, Numbers
  <2>4. Sum(All, balance') = Sum(All, balance) + Income * Cardinality(paid)
    <3>1. IsFiniteSet(All)
      BY Constants
    <3> HIDE DEF All
    <3> QED BY <1>1, <2>1, <2>3, <3>1, SumOfRaise
  <2>5. Supply' = Supply + Income * Cardinality(paid)
    BY <2>4 DEF Supply
  <2> QED BY <1>4, <2>1, <2>3, <2>5
<1>10. CASE Transfers \/ Payroll
  <2>1. CASE UNCHANGED <<ledger, guards, granted, vanished, stranded>>
    BY <1>3, <2>1
  <2>2. CASE \E f \in All, t \in All, a \in Amounts : Send(f, t, a)
    <3> HIDE DEF All
    <3> QED BY <1>2, <2>2, SendPosts DEF LedgerInv
  <2>3. CASE \E o \in Officials : PaySalary(o) \/ CrashPaySalary(o)
    <3> PICK o \in Officials : PaySalary(o) \/ CrashPaySalary(o)
      BY <2>3
    <3> HIDE DEF All
    <3> QED BY <2>1, <2>2, Constants DEF PaySalary, CrashPaySalary
  <2>4. CASE Transfers
    BY <2>2, <2>4, Constants DEF Transfers, Transfer
  <2>5. CASE \E c \in Citizens : Reward(c)
    BY <2>2, <2>5, Constants DEF Reward
  <2> QED BY <1>10, <2>3, <2>4, <2>5 DEF Payroll
<1>11. CASE Courts
  <2> PICK e \in Escrows :
       \/ \E f, t \in Citizens, a \in Amounts : CreateEscrow(e, f, t, a)
       \/ \E by \in Citizens \cup {Outsider} : Release(e, by) \/ Refund(e, by)
       \/ \E c \in Citizens : Dispute(e, c) \/ CrashDispute(e, c) \/ FailDispute(e, c)
    BY <1>11 DEF Courts
  <2>1. CASE \E by \in Citizens \cup {Outsider} : Release(e, by)
    <3>1. /\ escrow[e].status \in Open
          /\ balance' = Add(Add(balance, escrow[e].from, -escrow[e].amount),
                            escrow[e].to, escrow[e].amount)
          /\ UNCHANGED <<vanished, granted>>
      BY <2>1 DEF Release
    <3>2. /\ escrow[e].from \in All /\ escrow[e].to \in All /\ escrow[e].amount \in Nat
          /\ escrow[e].amount <= locked[escrow[e].from]
          /\ locked[escrow[e].from] <= balance[escrow[e].from]
      BY <3>1, EscrowIsCovered
    <3> DEFINE b1 == Add(balance, escrow[e].from, -escrow[e].amount)
    <3>3. balance[escrow[e].from] + (-escrow[e].amount) >= 0 /\ -escrow[e].amount \in Int
      <4>1. locked[escrow[e].from] \in Nat /\ balance[escrow[e].from] \in Nat
        BY <3>2 DEF LedgerInv, TypeOK, MoneyTypes
      <4> QED BY <3>2, <4>1
    <3> HIDE DEF All
    <3>4. /\ b1 \in [All -> Nat]
          /\ Sum(All, b1) = Sum(All, balance) + (-escrow[e].amount) /\ Sum(All, balance) \in Nat
      BY <1>1, <3>2, <3>3, AddPosts
    <3> HIDE DEF b1
    <3>5. b1[escrow[e].to] + escrow[e].amount >= 0 /\ escrow[e].amount \in Int
      BY <3>2, <3>4
    <3>6. Sum(All, Add(b1, escrow[e].to, escrow[e].amount)) = Sum(All, b1) + escrow[e].amount
      BY <3>2, <3>4, <3>5, AddPosts
    <3>7. balance' = Add(b1, escrow[e].to, escrow[e].amount)
      BY <3>1 DEF b1
    <3>8. Sum(All, balance') = Sum(All, balance)
      BY <3>2, <3>4, <3>6, <3>7
    <3> QED BY <1>2, <3>1, <3>8
  <2>2. CASE ~ \E by \in Citizens \cup {Outsider} : Release(e, by)
    BY <1>3, <2>2 DEF CreateEscrow, Refund, Dispute, CrashDispute, FailDispute
  <2> QED BY <2>1, <2>2
<1>12. CASE Polls
  <2>1. ASSUME NEW p \in Proposals, Finalize(p) \/ CrashFinalize(p) PROVE MoneyIsConserved'
    <3>1. proposal[p].status = "active" /\ UNCHANGED granted
      BY <2>1 DEF Finalize, CrashFinalize, MayFinalize
    <3>2. \/ UNCHANGED <<balance, vanished>>
          \/ \E burned \in {FALSE, (Burn \in wallets)} :
               ReturnBond(proposal[p].creator) \/ TakeBond(proposal[p].creator, burned)
      BY <2>1 DEF Finalize, CrashFinalize
    <3>3. CASE UNCHANGED <<balance, vanished>>
      BY <1>3, <3>1, <3>3
    <3>4. ASSUME NEW burned \in {FALSE, (Burn \in wallets)},
                 ReturnBond(proposal[p].creator) \/ TakeBond(proposal[p].creator, burned)
          PROVE  MoneyIsConserved'
      <4>1. Sum(All, balance') + vanished' = Sum(All, balance) + vanished
        BY <3>1, <3>4, BondPosts
      <4> QED BY <1>2, <3>1, <4>1
    <3> QED BY <3>2, <3>3, <3>4
  <2>2. CASE \E c \in Citizens : CrashPropose(c)
    BY <1>3, <2>2 DEF CrashPropose
  <2>3. ASSUME NEW p \in Proposals,
               \/ \E c \in Citizens : Propose(p, c)
               \/ \E c \in Citizens, n \in Amounts \cup {0} : Vote(p, c, n) \/ CrashVote(p, c, n)
               \/ PollTime(p) \/ Execute(p)
        PROVE  MoneyIsConserved'
    BY <1>3, <2>3 DEF Propose, Vote, CrashVote, PollTime, Execute
  <2> QED BY <1>12, <2>1, <2>2, <2>3 DEF Polls
<1>13. CASE Market \/ Orders
  <2>1. CASE \E c \in Citizens : Buy(c)
    BY <1>2, <2>1, MarketPosts
  <2>2. CASE Orders \/ \E a \in Amounts \cup {0} : SetForSale(a)
    BY <1>3, <2>2 DEF SetForSale, Orders, TriggerStop, EndStop, Blacklist, Unlist
  <2> QED BY <1>13, <2>1, <2>2 DEF Market
<1> QED BY <1>5, <1>6, <1>7, <1>8, <1>9, <1>10, <1>11, <1>12, <1>13 DEF Next, Issues

\* Nothing but grants, incomes and rewards makes money, and only fees, royalties of the
\* walletless and bonds without a grave lose it, whatever the rates and the amounts.
THEOREM MoneyStays == Spec => []MoneyIsConserved
<1>1. Init => MoneyIsConserved
  <2> SUFFICES ASSUME Init PROVE MoneyIsConserved
    OBVIOUS
  <2>1. \A w \in All : balance[w] = 0
    BY DEF Init
  <2>2. Sum(All, balance) = 0
    BY <2>1, SumOfZeros
  <2> QED BY <2>2 DEF Init, MoneyIsConserved, Supply
<1>2. LedgerInv /\ MoneyIsConserved /\ [Next]_vars => LedgerInv' /\ MoneyIsConserved'
  BY LedgerStep, Conserves
<1> QED BY <1>1, <1>2, LedgerStarts, PTL DEF Spec

-----------------------------------------------------------------------------
(* Verdicts                                                                *)

LEMMA VerdictStep == TypeOK /\ VerdictStands /\ [Next]_vars => VerdictStands'
<1> SUFFICES ASSUME TypeOK, VerdictStands, [Next]_vars PROVE VerdictStands'
  OBVIOUS
<1>1. proposal \in [Proposals -> PollRow]
  BY DEF TypeOK, PollTypes, PollRow
<1>2. CASE UNCHANGED proposal
  BY <1>2 DEF VerdictStands, Passes
\* A step on one poll leaves the others, whose verdicts stand.
<1>3. ASSUME NEW p \in Proposals, NEW q \in PollRow, proposal' = [proposal EXCEPT ![p] = q],
             q.status \in {"passed", "executed"} => Passes(q),
             q.status = "rejected" => ~Passes(q)
      PROVE  VerdictStands'
  <2> SUFFICES ASSUME NEW x \in Proposals
               PROVE  /\ proposal'[x].status \in {"passed", "executed"} => Passes(proposal'[x])
                      /\ proposal'[x].status = "rejected" => ~Passes(proposal'[x])
    BY DEF VerdictStands, Passes
  <2>1. CASE x = p
    <3>1. proposal'[x] = q
      BY <1>1, <1>3, <2>1
    <3> QED BY <1>3, <3>1
  <2>2. CASE x # p
    <3>1. proposal'[x] = proposal[x]
      BY <1>1, <1>3, <2>2
    <3> QED BY <3>1 DEF VerdictStands
  <2> QED BY <2>1, <2>2
<1>4. CASE Polls
  <2>1. CASE \E c \in Citizens : CrashPropose(c)
    BY <1>2, <2>1 DEF CrashPropose
  <2>2. ASSUME NEW p \in Proposals, NEW c \in Citizens, Propose(p, c) PROVE VerdictStands'
    <3> PICK k \in {"general", "constitutional"} :
          proposal' = [proposal EXCEPT ![p] = [NoProposal EXCEPT !.status = "active",
                         !.kind = k, !.creator = c, !.bond = "locked"]]
      BY <2>2 DEF Propose
    <3> DEFINE q == [NoProposal EXCEPT !.status = "active",
                       !.kind = k, !.creator = c, !.bond = "locked"]
    <3>1. q \in PollRow /\ q.status = "active"
      BY DEF NoProposal, PollRow
    <3> HIDE DEF q
    <3>2. proposal' = [proposal EXCEPT ![p] = q]
      BY DEF q
    <3> QED BY <1>3, <3>1, <3>2
  <2>3. ASSUME NEW p \in Proposals, NEW c \in Citizens, NEW n \in Amounts \cup {0},
               Vote(p, c, n)
        PROVE  VerdictStands'
    <3> PICK k \in 0..WeightOf[n], side \in {"for", "against", "abstain"} :
          proposal' = [proposal EXCEPT ![p][side] = @ + k]
      BY <2>3 DEF Vote
    <3> DEFINE r == proposal[p]
               q == [r EXCEPT ![side] = r[side] + k]
    <3>1. r \in PollRow /\ r.status = "active" /\ k \in Nat
      BY <1>1, <2>3 DEF Vote, MayVote
    <3>2. proposal' = [proposal EXCEPT ![p] = q]
      BY <1>1
    <3> HIDE DEF r, All
    <3>3. q \in PollRow /\ q.status = "active"
      <4>1. CASE side = "for"
        BY <3>1, <4>1 DEF PollRow
      <4>2. CASE side = "against"
        BY <3>1, <4>2 DEF PollRow
      <4>3. CASE side = "abstain"
        BY <3>1, <4>3 DEF PollRow
      <4> QED BY <4>1, <4>2, <4>3
    <3> HIDE DEF q
    <3> QED BY <1>3, <3>2, <3>3
  <2>4. ASSUME NEW p \in Proposals, NEW c \in Citizens, NEW n \in Amounts \cup {0},
               CrashVote(p, c, n)
        PROVE  VerdictStands'
    BY <1>2, <2>4 DEF CrashVote
  <2>5. ASSUME NEW p \in Proposals, PollTime(p) PROVE VerdictStands'
    <3> DEFINE r == proposal[p]
               q == [r EXCEPT !.time = IF r.time = "before" THEN "end" ELSE "after"]
    <3>1. r \in PollRow /\ proposal' = [proposal EXCEPT ![p] = q]
      BY <1>1, <2>5 DEF PollTime
    <3>2. /\ r.status \in {"passed", "executed"} => Passes(r)
          /\ r.status = "rejected" => ~Passes(r)
      BY DEF VerdictStands
    <3> HIDE DEF r, All
    <3>3. /\ q \in PollRow /\ q.status = r.status /\ q.kind = r.kind
          /\ q.for = r.for /\ q.against = r.against /\ q.abstain = r.abstain
      BY <3>1 DEF PollRow
    <3> HIDE DEF q
    <3>4. Passes(q) <=> Passes(r)
      BY <3>3 DEF Passes
    <3> QED BY <1>3, <3>1, <3>2, <3>3, <3>4
  <2>6. ASSUME NEW p \in Proposals, Finalize(p) \/ CrashFinalize(p) PROVE VerdictStands'
    <3> DEFINE r == proposal[p]
    <3>1. PICK b \in {"none", "locked", "refunded", "burned"} :
            proposal' = [proposal EXCEPT ![p] = [r EXCEPT !.status = Verdict(r), !.bond = b]]
      <4>1. CASE Finalize(p)
        <5>1. proposal' = [proposal EXCEPT ![p] = [r EXCEPT !.status = Verdict(r),
                            !.bond = IF Passes(r) THEN "refunded" ELSE "burned"]]
          BY <1>1, <4>1 DEF Finalize
        <5> QED BY <5>1
      <4>2. CASE CrashFinalize(p)
        <5>1. proposal' = [proposal EXCEPT ![p] = [r EXCEPT !.status = Verdict(r)]]
          BY <1>1, <4>2 DEF CrashFinalize
        <5>2. r \in PollRow
          BY <1>1
        <5> HIDE DEF r, All
        <5>3. r.bond \in {"none", "locked", "refunded", "burned"}
              /\ [r EXCEPT !.status = Verdict(r)] = [r EXCEPT !.status = Verdict(r), !.bond = r.bond]
          BY <5>2 DEF PollRow
        <5> QED BY <5>1, <5>3
      <4> QED BY <2>6, <4>1, <4>2
    <3>2. r \in PollRow
      BY <1>1
    <3> DEFINE q == [r EXCEPT !.status = Verdict(r), !.bond = b]
    <3> HIDE DEF r, All
    <3>3. /\ q \in PollRow /\ q.status = Verdict(r) /\ q.kind = r.kind
          /\ q.for = r.for /\ q.against = r.against /\ q.abstain = r.abstain
      BY <3>2 DEF PollRow, Verdict
    <3>4. proposal' = [proposal EXCEPT ![p] = q]
      BY <3>1
    <3> HIDE DEF q
    <3>5. Passes(q) <=> Passes(r)
      BY <3>3 DEF Passes
    <3> QED BY <1>3, <3>3, <3>4, <3>5 DEF Verdict
  <2>7. ASSUME NEW p \in Proposals, Execute(p) PROVE VerdictStands'
    <3> DEFINE r == proposal[p]
               q == [r EXCEPT !.status = "executed"]
    <3>1. r \in PollRow /\ proposal' = [proposal EXCEPT ![p] = q] /\ Passes(r)
      BY <1>1, <2>7 DEF Execute, VerdictStands
    <3> HIDE DEF r, All
    <3>2. /\ q \in PollRow /\ q.status = "executed" /\ q.kind = r.kind
          /\ q.for = r.for /\ q.against = r.against /\ q.abstain = r.abstain
      BY <3>1 DEF PollRow
    <3> HIDE DEF q
    <3>3. Passes(q) <=> Passes(r)
      BY <3>2 DEF Passes
    <3> QED BY <1>3, <3>1, <3>2, <3>3
  <2> QED BY <1>4, <2>1, <2>2, <2>3, <2>4, <2>5, <2>6, <2>7 DEF Polls
<1>5. CASE ~Polls
  <2>1. UNCHANGED proposal
    BY <1>5 DEF Next, vars, CreateWallet, Tick, Transfers, Transfer, Payroll, Reward, PaySalary,
       CrashPaySalary, Issues, PayIncome, ShareMemory, Courts, CreateEscrow, Release, Refund,
       Dispute, CrashDispute, FailDispute, Market, SetForSale, Buy, Orders, TriggerStop, EndStop,
       Blacklist, Unlist
  <2> QED BY <1>2, <2>1
<1> QED BY <1>4, <1>5

\* A verdict is what the count says, for every number of voters and every stake.
THEOREM VerdictsAreFinal == Spec => []VerdictStands
<1>1. Init => VerdictStands
  BY DEF Init, VerdictStands, NoProposal
<1>2. TypeOK /\ VerdictStands /\ [Next]_vars => VerdictStands'
  BY VerdictStep
<1> QED BY <1>1, <1>2, TreasuryTypes, PTL DEF Spec
=============================================================================
