--------------------------- MODULE TokenBucketProofs ---------------------------
(***************************************************************************)
(* The rate limit of AsyncTokenBucket, for any number of calls, any demands *)
(* and any delay of the sleepers.  The sums over calls come first: what a  *)
(* sum over a finite set is, without and with one of its elements.  Facts  *)
(* about all finite sets are proved from a smallest set that refutes them. *)
(***************************************************************************)
EXTENDS TokenBucket, FiniteSetTheorems, WellFoundedInduction, TLAPS

-----------------------------------------------------------------------------
(* Sums over finite sets *)

\* Of the subsets of a finite set that have a property, one is minimal.
LEMMA MinimalSubset ==
  ASSUME NEW S, IsFiniteSet(S), NEW Bad \in SUBSET (SUBSET S), Bad # {}
  PROVE  \E T \in Bad : \A U \in Bad : U \subseteq T => U = T
<1>1. IsWellFoundedOn(StrictSubsetOrdering(S), SUBSET S)
  BY FS_StrictSubsetOrderingWellFounded, FS_FiniteSubsetsOfFinite
<1>2. PICK T \in Bad : \A U \in Bad : <<U, T>> \notin StrictSubsetOrdering(S)
  BY <1>1, WFMin
<1> QED BY <1>2 DEF StrictSubsetOrdering

\* The element that a fold takes from a set.
Taken(s) == CHOOSE x \in s : TRUE

\* g sums f over the subsets of A, one element at a time.
Sums(g, f, A) ==
  g = [s \in SUBSET A |-> IF s = {} THEN 0 ELSE f[Taken(s)] + g[s \ {Taken(s)}]]

\* There is only one way to sum.
LEMMA SumsUnique ==
  ASSUME NEW A, IsFiniteSet(A), NEW B \in SUBSET A, NEW f, NEW g, NEW h,
         Sums(g, f, A), Sums(h, f, B)
  PROVE  \A s \in SUBSET B : g[s] = h[s]
<1> DEFINE Bad == {s \in SUBSET B : g[s] # h[s]}
<1>1. SUFFICES ASSUME Bad # {} PROVE FALSE
  OBVIOUS
<1>2. IsFiniteSet(B)
  BY FS_Subset
<1>3. PICK s \in Bad : \A u \in Bad : u \subseteq s => u = s
  <2>1. Bad \in SUBSET (SUBSET B)
    OBVIOUS
  <2> HIDE DEF Bad
  <2> QED BY <1>1, <1>2, <2>1, MinimalSubset
<1>4. s # {}
  BY DEF Sums
<1>5. Taken(s) \in s
  BY <1>4 DEF Taken
<1>6. s \ {Taken(s)} \in SUBSET B /\ g[s \ {Taken(s)}] = h[s \ {Taken(s)}]
  BY <1>3, <1>5
<1>7. g[s] = f[Taken(s)] + g[s \ {Taken(s)}]
  BY <1>4 DEF Sums
<1>8. h[s] = f[Taken(s)] + h[s \ {Taken(s)}]
  BY <1>4 DEF Sums
<1> QED BY <1>6, <1>7, <1>8

\* The recursive function of a fold exists.
LEMMA SumsExist ==
  ASSUME NEW A, IsFiniteSet(A), NEW f
  PROVE  \E g : Sums(g, f, A)
<1> DEFINE Bad == {s \in SUBSET A : ~ \E g : Sums(g, f, s)}
<1>1. SUFFICES ASSUME Bad # {} PROVE FALSE
  OBVIOUS
<1>2. PICK U \in Bad : \A V \in Bad : V \subseteq U => V = U
  <2>1. Bad \in SUBSET (SUBSET A)
    OBVIOUS
  <2> HIDE DEF Bad
  <2> QED BY <1>1, <2>1, MinimalSubset
<1> DEFINE G(s) == CHOOSE g : Sums(g, f, s)
           Rest(s) == s \ {Taken(s)}
           h == [s \in SUBSET U |-> IF s = {} THEN 0 ELSE f[Taken(s)] + G(Rest(s))[Rest(s)]]
<1>3. ASSUME NEW s \in SUBSET U, s # {}
      PROVE  /\ Taken(s) \in s /\ Rest(s) \in SUBSET U /\ Rest(s) # U
             /\ IsFiniteSet(Rest(s)) /\ Sums(G(Rest(s)), f, Rest(s))
  <2>1. Taken(s) \in s
    BY <1>3 DEF Taken
  <2>2. Rest(s) \in SUBSET A /\ Rest(s) \in SUBSET U /\ Rest(s) # U
    BY <2>1
  <2>3. \E g : Sums(g, f, Rest(s))
    BY <1>2, <2>2
  <2> QED BY <2>1, <2>2, <2>3, FS_Subset
<1>4. ASSUME NEW s \in SUBSET U, s # {}
      PROVE  h[Rest(s)] = G(Rest(s))[Rest(s)]
  <2> DEFINE v == Rest(s)
  <2>1. /\ v \in SUBSET U /\ IsFiniteSet(v) /\ Sums(G(v), f, v)
    BY <1>3, <1>4
  <2>2. CASE v = {}
    BY <2>1, <2>2 DEF Sums
  <2>3. CASE v # {}
    <3>1. /\ Taken(v) \in v /\ Rest(v) \in SUBSET v /\ IsFiniteSet(Rest(v)) /\ Sums(G(Rest(v)), f, Rest(v))
      BY <1>3, <2>1, <2>3
    <3>2. G(v)[Rest(v)] = G(Rest(v))[Rest(v)]
      <4> HIDE DEF G
      <4> QED BY <2>1, <3>1, SumsUnique
    <3>3. G(v)[v] = f[Taken(v)] + G(v)[Rest(v)]
      <4> HIDE DEF G
      <4> QED BY <2>1, <2>3 DEF Sums
    <3>4. h[v] = f[Taken(v)] + G(Rest(v))[Rest(v)]
      BY <2>1, <2>3
    <3> QED BY <3>2, <3>3, <3>4
  <2> QED BY <2>2, <2>3
<1>5. Sums(h, f, U)
  <2> HIDE DEF G
  <2>1. \A s \in SUBSET U :
          (IF s = {} THEN 0 ELSE f[Taken(s)] + G(Rest(s))[Rest(s)])
            = IF s = {} THEN 0 ELSE f[Taken(s)] + h[Rest(s)]
    BY <1>4
  <2>2. h = [s \in SUBSET U |-> IF s = {} THEN 0 ELSE f[Taken(s)] + h[Rest(s)]]
    <3> DEFINE k == [s \in SUBSET U |-> IF s = {} THEN 0 ELSE f[Taken(s)] + h[Rest(s)]]
    <3>1. \A s \in SUBSET U : h[s] = k[s]
      BY <2>1
    <3> QED BY <3>1
  <2> HIDE DEF h
  <2> QED BY <2>2 DEF Sums
<1> QED BY <1>2, <1>5

\* The sum of the community modules is that function.
LEMMA SumIsFold ==
  ASSUME NEW S, IsFiniteSet(S), NEW f
  PROVE  \E g : Sums(g, f, S) /\ SumFunctionOnSet(f, S) = g[S]
<1> DEFINE g == CHOOSE g : Sums(g, f, S)
<1>1. Sums(g, f, S)
  BY SumsExist
<1>2. SumFunctionOnSet(f, S) = g[S]
  BY DEF SumFunctionOnSet, FoldFunctionOnSet, MapThenFoldSet, Sums, Taken
<1> QED BY <1>1, <1>2

\* The sum over no element, and one element taken out of a sum.
LEMMA SumParts ==
  ASSUME NEW S, IsFiniteSet(S), NEW f
  PROVE  /\ S = {} => SumFunctionOnSet(f, S) = 0
         /\ S # {} => /\ Taken(S) \in S
                      /\ SumFunctionOnSet(f, S)
                           = f[Taken(S)] + SumFunctionOnSet(f, S \ {Taken(S)})
<1>1. PICK g : Sums(g, f, S) /\ SumFunctionOnSet(f, S) = g[S]
  BY SumIsFold
<1>2. CASE S = {}
  BY <1>1, <1>2 DEF Sums
<1>3. CASE S # {}
  <2> DEFINE R == S \ {Taken(S)}
  <2>1. Taken(S) \in S
    BY <1>3 DEF Taken
  <2>2. R \in SUBSET S /\ IsFiniteSet(R)
    BY FS_Subset
  <2> HIDE DEF R
  <2>3. PICK h : Sums(h, f, R) /\ SumFunctionOnSet(f, R) = h[R]
    BY <2>2, SumIsFold
  <2>4. g[R] = h[R]
    BY <1>1, <2>2, <2>3, SumsUnique
  <2>5. g[S] = f[Taken(S)] + g[R]
    BY <1>1, <1>3 DEF Sums, R
  <2> QED BY <1>1, <1>3, <2>1, <2>3, <2>4, <2>5 DEF R
<1> QED BY <1>2, <1>3

\* A sum of natural numbers is one.
LEMMA SumNat ==
  ASSUME NEW S, IsFiniteSet(S), NEW f, \A x \in S : f[x] \in Nat
  PROVE  SumFunctionOnSet(f, S) \in Nat
<1> DEFINE Bad == {s \in SUBSET S : SumFunctionOnSet(f, s) \notin Nat}
<1>1. SUFFICES ASSUME Bad # {} PROVE FALSE
  OBVIOUS
<1>2. PICK s \in Bad : \A u \in Bad : u \subseteq s => u = s
  <2>1. Bad \in SUBSET (SUBSET S)
    OBVIOUS
  <2> HIDE DEF Bad
  <2> QED BY <1>1, <2>1, MinimalSubset
<1>3. IsFiniteSet(s) /\ s # {}
  <2>1. IsFiniteSet(s) /\ SumFunctionOnSet(f, s) \notin Nat
    BY FS_Subset
  <2>2. s = {} => SumFunctionOnSet(f, s) = 0
    BY <2>1, SumParts
  <2> QED BY <2>1, <2>2
<1>4. /\ Taken(s) \in s
      /\ SumFunctionOnSet(f, s) = f[Taken(s)] + SumFunctionOnSet(f, s \ {Taken(s)})
  BY <1>3, SumParts
<1>5. s \ {Taken(s)} \in SUBSET S /\ s \ {Taken(s)} \notin Bad
  BY <1>2, <1>4
<1> QED BY <1>4, <1>5

\* Any element may be taken out of a sum.
LEMMA SumRemove ==
  ASSUME NEW S, IsFiniteSet(S), NEW f, \A x \in S : f[x] \in Nat, NEW c \in S
  PROVE  SumFunctionOnSet(f, S) = f[c] + SumFunctionOnSet(f, S \ {c})
<1> DEFINE Bad == {s \in SUBSET S :
                     \E x \in s : SumFunctionOnSet(f, s) # f[x] + SumFunctionOnSet(f, s \ {x})}
<1>1. SUFFICES ASSUME Bad # {} PROVE FALSE
  OBVIOUS
<1>2. PICK s \in Bad : \A u \in Bad : u \subseteq s => u = s
  <2>1. Bad \in SUBSET (SUBSET S)
    OBVIOUS
  <2> HIDE DEF Bad
  <2> QED BY <1>1, <2>1, MinimalSubset
<1>3. PICK x \in s : SumFunctionOnSet(f, s) # f[x] + SumFunctionOnSet(f, s \ {x})
  OBVIOUS
<1> DEFINE p == Taken(s)
<1>4. IsFiniteSet(s) /\ s # {} /\ s \in SUBSET S
  BY <1>3, FS_Subset
<1>5. p \in s /\ SumFunctionOnSet(f, s) = f[p] + SumFunctionOnSet(f, s \ {p})
  BY <1>4, SumParts
<1>6. x # p
  BY <1>3, <1>5
<1>7. /\ s \ {p} \in SUBSET S /\ s \ {p} \notin Bad /\ x \in s \ {p}
      /\ s \ {x} \in SUBSET S /\ s \ {x} \notin Bad /\ p \in s \ {x}
  BY <1>2, <1>4, <1>5, <1>6
<1>8. SumFunctionOnSet(f, s \ {p}) = f[x] + SumFunctionOnSet(f, (s \ {p}) \ {x})
  BY <1>7
<1>9. SumFunctionOnSet(f, s \ {x}) = f[p] + SumFunctionOnSet(f, (s \ {x}) \ {p})
  BY <1>7
<1>10. (s \ {p}) \ {x} = (s \ {x}) \ {p}
  OBVIOUS
<1>11. /\ f[x] \in Nat /\ f[p] \in Nat
       /\ SumFunctionOnSet(f, (s \ {p}) \ {x}) \in Nat
  <2>1. (s \ {p}) \ {x} \in SUBSET S
    BY <1>4
  <2>2. IsFiniteSet((s \ {p}) \ {x})
    BY <2>1, FS_Subset
  <2> QED BY <1>4, <1>5, <2>1, <2>2, SumNat
<1> HIDE DEF Bad, p
<1> QED BY <1>3, <1>5, <1>8, <1>9, <1>10, <1>11

\* One more element.
LEMMA SumAdd ==
  ASSUME NEW S, IsFiniteSet(S), NEW f, NEW c, c \notin S, \A x \in S \cup {c} : f[x] \in Nat
  PROVE  SumFunctionOnSet(f, S \cup {c}) = SumFunctionOnSet(f, S) + f[c]
<1>1. IsFiniteSet(S \cup {c}) /\ (S \cup {c}) \ {c} = S
  BY FS_AddElement
<1>2. SumFunctionOnSet(f, S \cup {c}) = f[c] + SumFunctionOnSet(f, S)
  BY <1>1, SumRemove
<1> QED BY <1>2, SumNat

\* A sum over fewer natural numbers is not larger.
LEMMA SumSubset ==
  ASSUME NEW S, IsFiniteSet(S), NEW f, \A x \in S : f[x] \in Nat, NEW T \in SUBSET S
  PROVE  SumFunctionOnSet(f, T) <= SumFunctionOnSet(f, S)
<1> DEFINE Bad == {s \in SUBSET S : T \subseteq s /\ ~(SumFunctionOnSet(f, T) <= SumFunctionOnSet(f, s))}
<1>1. SUFFICES ASSUME Bad # {} PROVE FALSE
  OBVIOUS
<1>2. PICK s \in Bad : \A u \in Bad : u \subseteq s => u = s
  <2>1. Bad \in SUBSET (SUBSET S)
    OBVIOUS
  <2> HIDE DEF Bad
  <2> QED BY <1>1, <2>1, MinimalSubset
<1>3. /\ IsFiniteSet(T) /\ IsFiniteSet(s) /\ s \in SUBSET S /\ T \subseteq s
      /\ SumFunctionOnSet(f, T) \in Nat
  BY FS_Subset, SumNat
<1>4. T # s
  BY <1>3
<1>5. PICK x \in s : x \notin T
  BY <1>3, <1>4
<1>6. s \ {x} \notin Bad /\ s \ {x} \in SUBSET S /\ T \subseteq s \ {x} /\ IsFiniteSet(s \ {x})
  BY <1>2, <1>3, <1>5, FS_Subset
<1>7. SumFunctionOnSet(f, T) <= SumFunctionOnSet(f, s \ {x})
  BY <1>6
<1>8. SumFunctionOnSet(f, s) = f[x] + SumFunctionOnSet(f, s \ {x})
  BY <1>3, SumRemove
<1>9. f[x] \in Nat /\ SumFunctionOnSet(f, s \ {x}) \in Nat
  BY <1>3, <1>6, SumNat
<1>10. ~(SumFunctionOnSet(f, T) <= SumFunctionOnSet(f, s))
  OBVIOUS
<1> HIDE DEF Bad
<1> QED BY <1>3, <1>7, <1>8, <1>9, <1>10

-----------------------------------------------------------------------------
(* The invariant *)

Ordinary == {c \in Calls : demand[c] <= MaxTokens}

\* The calls whose tokens have been taken from the bucket.
Spent == {c \in Calls : call[c] \in {"returned", "drain"}}

\* Those of them that have returned, or may return, by time t.
Due(t) == {c \in Calls : call[c] = "returned" \/ (call[c] = "drain" /\ wakeAt[c] <= t)}

BucketTypeOK ==
  /\ now \in Nat /\ tokens \in Int /\ tokens <= MaxTokens
  /\ lastUpdate \in {Unset} \cup (0..now)
  /\ demand \in [Calls -> Demands]
  /\ call \in [Calls -> {"new", "sleep", "drain", "returned"}]
  /\ \A c \in Calls : call[c] = "drain" => demand[c] > MaxTokens
  /\ wakeAt \in [Calls -> Int] /\ returnedAt \in [Calls -> 0..now]

\* What is in the bucket counts against every window, as long as it is not
\* negative; and an oversized call sleeps until all that was spent up to it has
\* accrued, so nobody is due before that.
BalanceInv ==
  /\ \A from \in 0..now :
       /\ Granted(Ordinary, from) <= MaxTokens + (now - from)
       /\ Granted(Ordinary, from) + Refilled <= MaxTokens + (now - from)
  /\ SumFunctionOnSet(demand, Spent) + Refilled <= MaxTokens + now
  /\ \A t \in Nat : now <= t => SumFunctionOnSet(demand, Due(t)) <= MaxTokens + t

BucketInv == BucketTypeOK /\ BalanceInv

\* The sums are natural numbers.
LEMMA DemandSums ==
  ASSUME BucketTypeOK
  PROVE  /\ MaxTokens \in Nat /\ Unset \notin Nat
         /\ \A c \in Calls : demand[c] \in Nat /\ demand[c] >= 1
         /\ \A who \in SUBSET Calls : IsFiniteSet(who) /\ SumFunctionOnSet(demand, who) \in Nat
<1>1. MaxTokens \in Nat /\ Unset \notin Nat /\ IsFiniteSet(Calls)
  BY BucketAssumption
<1>2. \A c \in Calls : demand[c] \in Nat /\ demand[c] >= 1
  <2>1. \A c \in Calls : demand[c] \in Demands
    BY DEF BucketTypeOK
  <2>2. \A d \in Demands : d \in Nat /\ d >= 1
    BY BucketAssumption
  <2> QED BY <2>1, <2>2
<1>3. ASSUME NEW who \in SUBSET Calls
      PROVE  IsFiniteSet(who) /\ SumFunctionOnSet(demand, who) \in Nat
  <2>1. IsFiniteSet(who) /\ \A c \in who : demand[c] \in Nat
    BY <1>1, <1>2, FS_Subset
  <2> QED BY <2>1, SumNat
<1> QED BY <1>1, <1>2, <1>3

\* The balance is at most the capacity, and a new balance that is written down
\* now is the balance.
LEMMA Balance ==
  ASSUME BucketTypeOK
  PROVE  /\ Refilled \in Int /\ Refilled <= MaxTokens
         /\ lastUpdate' = now /\ now' = now /\ tokens' \in Int /\ tokens' <= MaxTokens
              => Refilled' = tokens'
         /\ Tick => Refilled' \in Int /\ Refilled' <= MaxTokens /\ Refilled' <= Refilled + 1
<1>1. MaxTokens \in Nat /\ Unset \notin Nat
  BY DemandSums
<1>2. tokens \in Int /\ now \in Nat /\ (lastUpdate # Unset => lastUpdate \in 0..now)
  BY DEF BucketTypeOK
<1>3. Refilled \in Int /\ Refilled <= MaxTokens
  BY <1>1, <1>2 DEF Refilled
<1>4. ASSUME lastUpdate' = now, now' = now, tokens' \in Int, tokens' <= MaxTokens
      PROVE  Refilled' = tokens'
  <2>1. lastUpdate' # Unset
    BY <1>1, <1>2, <1>4
  <2>2. tokens' + (now' - lastUpdate') = tokens'
    <3>1. now' - lastUpdate' = now - now
      BY <1>4
    <3>2. now - now = 0
      BY <1>2
    <3>3. \A t \in Int : t + 0 = t
      OBVIOUS
    <3> QED BY <3>1, <3>2, <3>3, <1>4
  <2>3. tokens' < MaxTokens \/ tokens' = MaxTokens
    BY <1>1, <1>4
  <2> QED BY <2>1, <2>2, <2>3 DEF Refilled
<1>5. ASSUME Tick PROVE Refilled' \in Int /\ Refilled' <= MaxTokens /\ Refilled' <= Refilled + 1
  BY <1>1, <1>2, <1>5 DEF Refilled, Tick
<1> QED BY <1>3, <1>4, <1>5

\* Time alone lets tokens accrue at the rate of the limit.
LEMMA TickKeeps ==
  ASSUME BucketInv, Tick
  PROVE  BucketInv'
<1>0. BucketTypeOK /\ BalanceInv
  BY DEF BucketInv
<1>1. now \in Nat /\ now' = now + 1 /\ UNCHANGED <<tokens, lastUpdate, demand, call, wakeAt, returnedAt>>
  BY <1>0 DEF Tick, BucketTypeOK
<1>2. BucketTypeOK'
  BY <1>0, <1>1 DEF BucketTypeOK
<1>3. /\ MaxTokens \in Nat /\ Refilled \in Int /\ Refilled' \in Int /\ Refilled' <= Refilled + 1
      /\ Refilled' <= MaxTokens
  BY <1>0, Balance, DemandSums
<1>4. Ordinary' = Ordinary /\ Spent' = Spent /\ \A t : Due(t)' = Due(t)
  BY <1>1 DEF Ordinary, Spent, Due
<1>5. /\ \A from \in 0..now : Granted(Ordinary, from) \in Nat
      /\ SumFunctionOnSet(demand, Spent) \in Nat
      /\ \A t \in Nat : SumFunctionOnSet(demand, Due(t)) \in Nat
  BY <1>0, DemandSums DEF Granted, Ordinary, Spent, Due
<1>6. ASSUME NEW from \in 0..now'
      PROVE  /\ Granted(Ordinary, from)' <= MaxTokens + (now' - from)
             /\ Granted(Ordinary, from)' + Refilled' <= MaxTokens + (now' - from)
  <2>1. CASE from \in 0..now
    <3>1. Granted(Ordinary, from)' = Granted(Ordinary, from)
      BY <1>1, <1>4 DEF Granted
    <3> QED BY <1>0, <1>1, <1>3, <1>5, <2>1, <3>1 DEF BalanceInv
  <2>2. CASE from = now + 1
    <3>1. {c \in Ordinary : call[c] = "returned" /\ returnedAt[c] >= from} = {}
      BY <1>0, <1>1, <2>2 DEF BucketTypeOK, Ordinary
    <3>2. Granted(Ordinary, from)' = 0
      <4>1. SumFunctionOnSet(demand, {}) = 0
        BY SumParts, FS_EmptySet
      <4> QED BY <1>1, <1>4, <3>1, <4>1 DEF Granted
    <3> QED BY <1>1, <1>3, <2>2, <3>2
  <2> QED BY <1>1, <2>1, <2>2
<1>7. SumFunctionOnSet(demand, Spent)' + Refilled' <= MaxTokens + now'
  BY <1>0, <1>1, <1>3, <1>4, <1>5 DEF BalanceInv
<1>8. \A t \in Nat : now' <= t => SumFunctionOnSet(demand, Due(t))' <= MaxTokens + t
  BY <1>0, <1>1, <1>4 DEF BalanceInv
<1> QED BY <1>2, <1>6, <1>7, <1>8 DEF BucketInv, BalanceInv

\* A call that takes its tokens and returns pays with the balance.
LEMMA GrantKeeps ==
  ASSUME BucketInv, NEW c \in Calls, Acquire(c), Refilled >= demand[c]
  PROVE  BucketInv'
<1>0. BucketTypeOK /\ BalanceInv
  BY DEF BucketInv
<1>1. /\ now' = now /\ demand' = demand /\ lastUpdate' = now
      /\ tokens' = Refilled - demand[c] /\ demand[c] <= MaxTokens
      /\ call[c] \in {"new", "sleep"} /\ call' = [call EXCEPT ![c] = "returned"]
      /\ returnedAt' = [returnedAt EXCEPT ![c] = now] /\ wakeAt' = wakeAt
  <2>1. Refilled \in Int /\ demand[c] \in Int
    BY <1>0, Balance, DemandSums
  <2> QED BY <2>1 DEF Acquire, Returns, Sleeps
<1>2. /\ MaxTokens \in Nat /\ demand[c] \in Nat /\ demand[c] >= 1 /\ now \in Nat
      /\ Refilled \in Int /\ Refilled <= MaxTokens
  BY <1>0, Balance, DemandSums DEF BucketTypeOK
<1>3. tokens' \in Int /\ tokens' <= MaxTokens /\ Refilled' = Refilled - demand[c]
  <2>1. tokens' \in Int /\ tokens' <= MaxTokens
    BY <1>1, <1>2
  <2> QED BY <1>0, <1>1, <2>1, Balance
<1>4. BucketTypeOK'
  BY <1>0, <1>1, <1>2, <1>3 DEF BucketTypeOK
<1>5. /\ Ordinary' = Ordinary /\ c \in Ordinary /\ c \notin Spent /\ Spent' = Spent \cup {c}
      /\ \A t \in Nat : c \notin Due(t) /\ Due(t)' = Due(t) \cup {c} /\ Due(t) \subseteq Spent
  BY <1>0, <1>1 DEF BucketTypeOK, Ordinary, Spent, Due
<1>6. /\ Ordinary \subseteq Calls /\ Spent \in SUBSET Calls /\ IsFiniteSet(Spent)
      /\ SumFunctionOnSet(demand, Spent) \in Nat /\ \A d \in Calls : demand[d] \in Nat
  BY <1>0, DemandSums DEF Ordinary, Spent
<1>7. ASSUME NEW from \in 0..now
      PROVE  Granted(Ordinary, from)' = Granted(Ordinary, from) + demand[c]
             /\ Granted(Ordinary, from) \in Nat
  <2> DEFINE W == {d \in Ordinary : call[d] = "returned" /\ returnedAt[d] >= from}
  <2>1. {d \in Ordinary : call'[d] = "returned" /\ returnedAt'[d] >= from} = W \cup {c}
    BY <1>0, <1>1, <1>5, <1>6 DEF BucketTypeOK
  <2>2. c \notin W /\ W \in SUBSET Calls
    BY <1>1, <1>6
  <2>3. IsFiniteSet(W) /\ SumFunctionOnSet(demand, W) \in Nat
    BY <1>0, <2>2, DemandSums
  <2>4. /\ Granted(Ordinary, from)' = SumFunctionOnSet(demand, W \cup {c})
        /\ Granted(Ordinary, from) = SumFunctionOnSet(demand, W)
    BY <1>1, <1>5, <2>1 DEF Granted
  <2> HIDE DEF W
  <2>5. SumFunctionOnSet(demand, W \cup {c}) = SumFunctionOnSet(demand, W) + demand[c]
    BY <1>6, <2>2, <2>3, SumAdd
  <2> QED BY <2>3, <2>4, <2>5
<1>8. SumFunctionOnSet(demand, Spent)' = SumFunctionOnSet(demand, Spent) + demand[c]
  <2>1. SumFunctionOnSet(demand, Spent \cup {c}) = SumFunctionOnSet(demand, Spent) + demand[c]
    BY <1>5, <1>6, SumAdd
  <2> QED BY <1>1, <1>5, <2>1
<1>9. ASSUME NEW t \in Nat, now <= t
      PROVE  SumFunctionOnSet(demand, Due(t))' <= MaxTokens + t
  <2>1. Due(t)' \in SUBSET (Spent \cup {c}) /\ IsFiniteSet(Spent \cup {c})
    BY <1>5, <1>6, FS_AddElement
  <2>2. SumFunctionOnSet(demand, Due(t)') <= SumFunctionOnSet(demand, Spent \cup {c})
    BY <1>6, <2>1, SumSubset
  <2>3. /\ SumFunctionOnSet(demand, Spent \cup {c}) = SumFunctionOnSet(demand, Spent) + demand[c]
        /\ SumFunctionOnSet(demand, Due(t)') \in Nat
    <3>1. Due(t)' \in SUBSET Calls
      BY <1>6, <2>1
    <3> QED BY <1>0, <1>1, <1>5, <1>8, <3>1, DemandSums
  <2>4. SumFunctionOnSet(demand, Spent) + Refilled <= MaxTokens + now
    BY <1>0 DEF BalanceInv
  <2>5. SumFunctionOnSet(demand, Due(t)') <= MaxTokens + t
    BY <1>2, <1>6, <1>9, <2>2, <2>3, <2>4
  <2> QED BY <1>1, <2>5
<1>10. \A from \in 0..now' :
         /\ Granted(Ordinary, from)' <= MaxTokens + (now' - from)
         /\ Granted(Ordinary, from)' + Refilled' <= MaxTokens + (now' - from)
  BY <1>0, <1>1, <1>2, <1>3, <1>7 DEF BalanceInv
<1>11. SumFunctionOnSet(demand, Spent)' + Refilled' <= MaxTokens + now'
  BY <1>0, <1>1, <1>2, <1>3, <1>6, <1>8 DEF BalanceInv
<1> QED BY <1>1, <1>4, <1>9, <1>10, <1>11 DEF BucketInv, BalanceInv

\* A call that must wait takes nothing.
LEMMA WaitKeeps ==
  ASSUME BucketInv, NEW c \in Calls, Acquire(c), ~(Refilled >= demand[c])
  PROVE  BucketInv'
<1>0. BucketTypeOK /\ BalanceInv
  BY DEF BucketInv
<1>1. /\ now' = now /\ demand' = demand /\ lastUpdate' = now
      /\ tokens' = Refilled
      /\ call[c] \in {"new", "sleep"} /\ call' = [call EXCEPT ![c] = "sleep"]
      /\ wakeAt' = [wakeAt EXCEPT ![c] = now + (demand[c] - Refilled)] /\ returnedAt' = returnedAt
  BY DEF Acquire, Returns, Sleeps
<1>2. /\ MaxTokens \in Nat /\ demand[c] \in Nat /\ now \in Nat
      /\ Refilled \in Int /\ Refilled <= MaxTokens
  BY <1>0, Balance, DemandSums DEF BucketTypeOK
<1>3. Refilled' = Refilled
  BY <1>0, <1>1, <1>2, Balance
<1>4. BucketTypeOK'
  BY <1>0, <1>1, <1>2 DEF BucketTypeOK
<1>5. Ordinary' = Ordinary /\ Spent' = Spent /\ \A t : Due(t)' = Due(t)
  BY <1>0, <1>1 DEF BucketTypeOK, Ordinary, Spent, Due
<1>6. \A from : Granted(Ordinary, from)' = Granted(Ordinary, from)
  <2> TAKE from
  <2>1. {d \in Ordinary : call'[d] = "returned" /\ returnedAt'[d] >= from}
          = {d \in Ordinary : call[d] = "returned" /\ returnedAt[d] >= from}
    BY <1>0, <1>1 DEF BucketTypeOK, Ordinary
  <2> QED BY <1>1, <1>5, <2>1 DEF Granted
<1>7. BalanceInv'
  BY <1>0, <1>1, <1>3, <1>5, <1>6 DEF BalanceInv
<1> QED BY <1>4, <1>7 DEF BucketInv

\* An oversized call overdraws the bucket, and sleeps until the overdraft has
\* accrued.
LEMMA OversizedKeeps ==
  ASSUME BucketInv, NEW c \in Calls, AcquireOversized(c)
  PROVE  BucketInv'
<1>0. BucketTypeOK /\ BalanceInv
  BY DEF BucketInv
<1> DEFINE wake == now + (demand[c] - Refilled)
<1>1. /\ now' = now /\ demand' = demand /\ lastUpdate' = now
      /\ tokens' = Refilled - demand[c] /\ demand[c] > MaxTokens
      /\ call[c] = "new" /\ call' = [call EXCEPT ![c] = "drain"]
      /\ wakeAt' = [wakeAt EXCEPT ![c] = wake] /\ returnedAt' = returnedAt
  BY DEF AcquireOversized, Sleeps
<1>2. /\ MaxTokens \in Nat /\ demand[c] \in Nat /\ demand[c] >= 1 /\ now \in Nat
      /\ Refilled \in Int /\ Refilled <= MaxTokens /\ wake \in Int
  BY <1>0, Balance, DemandSums DEF BucketTypeOK
<1> HIDE DEF wake
<1>3. tokens' \in Int /\ tokens' <= MaxTokens /\ Refilled' = Refilled - demand[c]
  <2>1. tokens' \in Int /\ tokens' <= MaxTokens
    BY <1>1, <1>2
  <2> QED BY <1>0, <1>1, <2>1, Balance
<1>4. BucketTypeOK'
  BY <1>0, <1>1, <1>2, <1>3 DEF BucketTypeOK
<1>5. /\ Ordinary' = Ordinary /\ c \notin Spent /\ Spent' = Spent \cup {c}
      /\ \A t \in Nat : /\ Due(t) \subseteq Spent
                        /\ Due(t)' = IF wake <= t THEN Due(t) \cup {c} ELSE Due(t)
  BY <1>0, <1>1 DEF BucketTypeOK, Ordinary, Spent, Due
<1>6. /\ Spent \in SUBSET Calls /\ IsFiniteSet(Spent)
      /\ SumFunctionOnSet(demand, Spent) \in Nat /\ \A d \in Calls : demand[d] \in Nat
  BY <1>0, DemandSums DEF Spent
<1>7. \A from \in 0..now : /\ Granted(Ordinary, from)' = Granted(Ordinary, from)
                           /\ Granted(Ordinary, from) \in Nat
  <2> TAKE from \in 0..now
  <2>1. {d \in Ordinary : call'[d] = "returned" /\ returnedAt'[d] >= from}
          = {d \in Ordinary : call[d] = "returned" /\ returnedAt[d] >= from}
    BY <1>0, <1>1 DEF BucketTypeOK, Ordinary
  <2>2. Granted(Ordinary, from) \in Nat
    BY <1>0, DemandSums DEF Granted, Ordinary
  <2> QED BY <1>1, <1>5, <2>1, <2>2 DEF Granted
<1>8. SumFunctionOnSet(demand, Spent)' = SumFunctionOnSet(demand, Spent) + demand[c]
  <2>1. SumFunctionOnSet(demand, Spent \cup {c}) = SumFunctionOnSet(demand, Spent) + demand[c]
    BY <1>5, <1>6, SumAdd
  <2> QED BY <1>1, <1>5, <2>1
<1>9. ASSUME NEW t \in Nat, now <= t
      PROVE  SumFunctionOnSet(demand, Due(t))' <= MaxTokens + t
  <2>1. CASE wake <= t
    <3>1. Due(t)' \in SUBSET (Spent \cup {c}) /\ IsFiniteSet(Spent \cup {c})
      BY <1>5, <1>6, FS_AddElement
    <3>2. SumFunctionOnSet(demand, Due(t)') <= SumFunctionOnSet(demand, Spent \cup {c})
      BY <1>6, <3>1, SumSubset
    <3>3. /\ SumFunctionOnSet(demand, Spent \cup {c}) = SumFunctionOnSet(demand, Spent) + demand[c]
          /\ SumFunctionOnSet(demand, Due(t)') \in Nat
      <4>1. Due(t)' \in SUBSET Calls
        BY <1>6, <3>1
      <4> QED BY <1>0, <1>1, <1>5, <1>8, <4>1, DemandSums
    <3>4. SumFunctionOnSet(demand, Spent) + Refilled <= MaxTokens + now
      BY <1>0 DEF BalanceInv
    <3>5. SumFunctionOnSet(demand, Due(t)') <= MaxTokens + t
      BY <1>2, <1>6, <2>1, <3>2, <3>3, <3>4 DEF wake
    <3> QED BY <1>1, <3>5
  <2>2. CASE ~(wake <= t)
    BY <1>0, <1>1, <1>5, <1>9, <2>2 DEF BalanceInv
  <2> QED BY <2>1, <2>2
<1>10. \A from \in 0..now' :
         /\ Granted(Ordinary, from)' <= MaxTokens + (now' - from)
         /\ Granted(Ordinary, from)' + Refilled' <= MaxTokens + (now' - from)
  BY <1>0, <1>1, <1>2, <1>3, <1>7 DEF BalanceInv
<1>11. SumFunctionOnSet(demand, Spent)' + Refilled' <= MaxTokens + now'
  BY <1>0, <1>1, <1>2, <1>3, <1>6, <1>8 DEF BalanceInv
<1> QED BY <1>1, <1>4, <1>9, <1>10, <1>11 DEF BucketInv, BalanceInv

\* An oversized call that wakes was due.
LEMMA DrainedKeeps ==
  ASSUME BucketInv, NEW c \in Calls, Drained(c)
  PROVE  BucketInv'
<1>0. BucketTypeOK /\ BalanceInv
  BY DEF BucketInv
<1>1. /\ UNCHANGED <<now, tokens, lastUpdate, demand, wakeAt>>
      /\ call[c] = "drain" /\ wakeAt[c] <= now /\ call' = [call EXCEPT ![c] = "returned"]
      /\ returnedAt' = [returnedAt EXCEPT ![c] = now]
  BY DEF Drained, Returns
<1>2. now \in Nat /\ MaxTokens \in Nat /\ demand[c] \in Nat /\ demand[c] > MaxTokens /\ wakeAt[c] \in Int
  BY <1>0, <1>1, DemandSums DEF BucketTypeOK
<1>3. Refilled' = Refilled
  BY <1>1 DEF Refilled
<1>4. BucketTypeOK'
  BY <1>0, <1>1, <1>2 DEF BucketTypeOK
<1>5. /\ Ordinary' = Ordinary /\ c \notin Ordinary /\ Spent' = Spent
      /\ \A t \in Nat : now <= t => Due(t)' = Due(t)
  <2>1. \A t \in Nat : now <= t => wakeAt[c] <= t
    BY <1>1, <1>2
  <2>2. Ordinary' = Ordinary /\ c \notin Ordinary /\ Spent' = Spent
    BY <1>0, <1>1, <1>2 DEF BucketTypeOK, Ordinary, Spent
  <2>3. \A t \in Nat : now <= t => Due(t)' = Due(t)
    BY <1>0, <1>1, <2>1 DEF BucketTypeOK, Due
  <2> QED BY <2>2, <2>3
<1>6. \A from : Granted(Ordinary, from)' = Granted(Ordinary, from)
  <2> TAKE from
  <2>1. {d \in Ordinary : call'[d] = "returned" /\ returnedAt'[d] >= from}
          = {d \in Ordinary : call[d] = "returned" /\ returnedAt[d] >= from}
    BY <1>0, <1>1, <1>5 DEF BucketTypeOK, Ordinary
  <2> QED BY <1>1, <1>5, <2>1 DEF Granted
<1>7. BalanceInv'
  BY <1>0, <1>1, <1>3, <1>5, <1>6 DEF BalanceInv
<1> QED BY <1>4, <1>7 DEF BucketInv

\* The balance covers all that was spent, whatever the calls ask for and however
\* late they wake.
THEOREM BucketInvHolds == BucketSpec => []BucketInv
<1>1. BucketInit => BucketInv
  <2> SUFFICES ASSUME BucketInit PROVE BucketInv
    OBVIOUS
  <2>1. MaxTokens \in Nat /\ Unset \notin Nat /\ SumFunctionOnSet(demand, {}) = 0
    BY BucketAssumption, SumParts, FS_EmptySet
  <2>2. BucketTypeOK
    BY <2>1 DEF BucketInit, BucketTypeOK
  <2>3. Refilled = MaxTokens /\ now = 0
    BY <2>1 DEF BucketInit, Refilled
  <2>4. /\ Spent = {} /\ \A t : Due(t) = {}
        /\ \A from : {c \in Ordinary : call[c] = "returned" /\ returnedAt[c] >= from} = {}
    BY DEF BucketInit, Spent, Due, Ordinary
  <2>5. \A from : Granted(Ordinary, from) = 0
    BY <2>1, <2>4 DEF Granted
  <2> QED BY <2>1, <2>2, <2>3, <2>4, <2>5 DEF BucketInv, BalanceInv
<1>2. BucketInv /\ [BucketNext]_bucketVars => BucketInv'
  <2> SUFFICES ASSUME BucketInv, [BucketNext]_bucketVars PROVE BucketInv'
    OBVIOUS
  <2>1. CASE UNCHANGED bucketVars
    <3>1. UNCHANGED <<BucketTypeOK, Refilled, Ordinary, Spent>>
      BY <2>1 DEF bucketVars, BucketTypeOK, Refilled, Ordinary, Spent
    <3>2. \A t : Due(t)' = Due(t)
      BY <2>1 DEF bucketVars, Due
    <3>3. \A from : Granted(Ordinary, from)' = Granted(Ordinary, from)
      BY <2>1, <3>1 DEF bucketVars, Granted
    <3> QED BY <2>1, <3>1, <3>2, <3>3 DEF bucketVars, BucketInv, BalanceInv
  <2>2. CASE Tick
    BY <2>2, TickKeeps
  <2>3. CASE CallStep
    BY <2>3, GrantKeeps, WaitKeeps, OversizedKeeps, DrainedKeeps DEF CallStep
  <2> QED BY <2>1, <2>2, <2>3 DEF BucketNext
<1> QED BY <1>1, <1>2, PTL DEF BucketSpec

\* RateHeld: over any window of time the calls of ordinary size get no more than
\* the capacity and what accrues in it, however oversized calls overdraw the
\* bucket in between; and since the start that holds for all calls.
THEOREM RateHeldHolds == BucketSpec => []RateHeld
<1>1. BucketInv => RateHeld
  <2> SUFFICES ASSUME BucketInv PROVE RateHeld
    OBVIOUS
  <2>0. BucketTypeOK /\ BalanceInv
    BY DEF BucketInv
  <2> DEFINE R == {c \in Calls : call[c] = "returned" /\ returnedAt[c] >= 0}
  <2>1. R \in SUBSET Due(now) /\ Due(now) \in SUBSET Calls /\ now \in Nat
    BY <2>0 DEF Due, BucketTypeOK
  <2>2. SumFunctionOnSet(demand, R) <= SumFunctionOnSet(demand, Due(now))
    <3> HIDE DEF R
    <3>1. IsFiniteSet(Due(now)) /\ \A c \in Due(now) : demand[c] \in Nat
      BY <2>0, <2>1, DemandSums
    <3> QED BY <2>1, <3>1, SumSubset
  <2>3. SumFunctionOnSet(demand, Due(now)) <= MaxTokens + now
    BY <2>0, <2>1 DEF BalanceInv
  <2>4. /\ SumFunctionOnSet(demand, R) \in Nat /\ SumFunctionOnSet(demand, Due(now)) \in Nat
        /\ MaxTokens \in Nat
    BY <2>0, <2>1, DemandSums
  <2>5. Granted(Calls, 0) <= MaxTokens + now
    BY <2>1, <2>2, <2>3, <2>4 DEF Granted
  <2>6. \A from \in 0..now : Granted(Ordinary, from) <= MaxTokens + (now - from)
    BY <2>0 DEF BalanceInv
  <2> QED BY <2>5, <2>6 DEF RateHeld, Ordinary
<1> QED BY <1>1, BucketInvHolds, PTL
==============================================================================
