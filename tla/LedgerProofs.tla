---------------------------- MODULE LedgerProofs ----------------------------
(***************************************************************************)
(* Proofs about the ledger for any set of concurrent requests, any chart   *)
(* of accounts and any bounds: the journal and the trial balance stay      *)
(* balanced, reversals stay paired with what they reverse, events are only *)
(* sent for committed data and a period's opening entry is the one the     *)
(* period refers to; and what more holds while handlers do not overlap.    *)
(*                                                                         *)
(* The invariants are not inductive alone: a save step trusts what the     *)
(* load step of the same request saw.  InFlight states what of it is still *)
(* true whatever other requests do in between; it is preserved because     *)
(* other requests only ever grow the tables (Grows below).                 *)
(*                                                                         *)
(* Facts about sums are proved by induction on the set summed over: a set  *)
(* of subsets that contains every subset whose proper subsets it contains  *)
(* contains them all (SubsetInduction).                                    *)
(***************************************************************************)
EXTENDS Ledger, TLAPS, SequenceTheorems, FiniteSetTheorems, WellFoundedInduction

IInv ==
    /\ TypeOK
    /\ PostedBalanced
    /\ ReversalMirrors
    /\ PublishedCommitted
    /\ OpeningEntryLinked
    /\ InFlight

\* What a step of any request may do to the tables: rows stay, lines and dates
\* stay, an entry that left Draft never returns, a closed period stays closed.
Grows ==
    /\ Len(entries) <= Len(entries')
    /\ \A i \in DOMAIN entries :
          /\ entries'[i].lines = entries[i].lines
          /\ entries[i].status # "Draft" => entries'[i].status # "Draft"
          /\ entries'[i].date = entries[i].date
          /\ entries'[i].source = entries[i].source
    /\ Len(periods) <= Len(periods')
    /\ \A p \in DOMAIN periods :
          /\ periods'[p].end = periods[p].end
          /\ periods[p].status = "Closed" => periods'[p].status = "Closed"

\* The step of request r leaves the other requests alone.
Frame(r) ==
    \A q \in Requests \ {r} :
        pc'[q] = pc[q] /\ target'[q] = target[q] /\ adds'[q] = adds[q]

-----------------------------------------------------------------------------
(* Sums over finite sets, as the library's Functions module defines them.  *)

\* The recursion of the library's sum over a set.
SumsUp(g, f, S) ==
    g = [s \in SUBSET S |->
            IF s = {} THEN 0
            ELSE LET x == CHOOSE x \in s : TRUE IN f[x] + g[s \ {x}]]

\* What holds of a set whenever it holds of its proper subsets holds of every
\* finite set.
LEMMA SubsetInduction ==
    ASSUME NEW S, IsFiniteSet(S), NEW W,
           \A U \in SUBSET S : (\A V \in SUBSET U : V # U => V \in W) => U \in W
    PROVE  S \in W
  <1> DEFINE T == (SUBSET S) \ W
             R == StrictSubsetOrdering(S)
  <1>1. SUFFICES ASSUME S \notin W
                 PROVE  FALSE
    OBVIOUS
  <1>2. T # {} /\ T \subseteq FiniteSubsetsOf(S)
    BY <1>1, FS_Subset DEF FiniteSubsetsOf
  <1>3. PICK U \in T : \A V \in T : <<V, U>> \notin R
    <2>1. IsWellFoundedOn(R, FiniteSubsetsOf(S))
      BY FS_StrictSubsetOrderingWellFounded
    <2> HIDE DEF T, R
    <2> QED
      BY <1>2, <2>1, WFMin
  <1>4. \A V \in SUBSET U : V # U => V \in W
    BY <1>3 DEF StrictSubsetOrdering
  <1> QED
    BY <1>3, <1>4

\* SumFunctionOnSet, unfolded down to that recursion.
LEMMA SumUnfold ==
    ASSUME NEW f, NEW S
    PROVE  SumFunctionOnSet(f, S) = (CHOOSE g : SumsUp(g, f, S))[S]
  BY DEF SumFunctionOnSet, FoldFunctionOnSet, MapThenFoldSet, SumsUp

\* Two such recursions agree wherever both are defined.
LEMMA SumsUnique ==
    ASSUME NEW f, NEW S, NEW T, NEW g, NEW h, SumsUp(g, f, S), SumsUp(h, f, T),
           NEW U \in SUBSET (S \cap T), IsFiniteSet(U)
    PROVE  g[U] = h[U]
  <1> DEFINE W == {V \in SUBSET U : g[V] = h[V]}
  <1>1. ASSUME NEW V \in SUBSET U, \A X \in SUBSET V : X # V => X \in W
        PROVE  V \in W
    <2> DEFINE x == CHOOSE x \in V : TRUE
    <2>1. V # {} => x \in V
      OBVIOUS
    <2>2. V # {} => g[V \ {x}] = h[V \ {x}]
      BY <1>1, <2>1
    <2>3. g[V] = IF V = {} THEN 0 ELSE f[x] + g[V \ {x}]
      BY DEF SumsUp
    <2>4. h[V] = IF V = {} THEN 0 ELSE f[x] + h[V \ {x}]
      BY DEF SumsUp
    <2> QED
      BY <2>2, <2>3, <2>4
  <1>2. U \in W
    <2> HIDE DEF W
    <2> QED BY <1>1, SubsetInduction
  <1> QED
    BY <1>2

\* The recursion has a solution on every finite set: the sums of its subsets.
LEMMA SumsExist ==
    ASSUME NEW f, NEW S, IsFiniteSet(S)
    PROVE  SumsUp(CHOOSE g : SumsUp(g, f, S), f, S)
  <1> DEFINE W == {V \in SUBSET S : \E g : SumsUp(g, f, V)}
  <1>1. ASSUME NEW U \in SUBSET S, \A V \in SUBSET U : V # U => V \in W
        PROVE  U \in W
    <2> DEFINE h(V) == CHOOSE g : SumsUp(g, f, V)
               x(s) == CHOOSE x \in s : TRUE
               G == [s \in SUBSET U |-> IF s = {} THEN 0 ELSE f[x(s)] + h(s \ {x(s)})[s \ {x(s)}]]
    <2>1. \A s \in SUBSET U : s # {} => x(s) \in s
      OBVIOUS
    <2>2. ASSUME NEW V \in SUBSET U, V # U
          PROVE  SumsUp(h(V), f, V)
      <3>1. \E g : SumsUp(g, f, V)
        BY <1>1, <2>2
      <3> QED
        BY <3>1
    <2>3. ASSUME NEW V \in SUBSET U, V # U
          PROVE  h(V)[V] = G[V]
      <3>1. h(V)[V] = IF V = {} THEN 0 ELSE f[x(V)] + h(V)[V \ {x(V)}]
        <4>1. SumsUp(h(V), f, V)
          BY <2>2, <2>3
        <4> HIDE DEF h
        <4> QED
          BY <4>1 DEF SumsUp
      <3>2. CASE V = {}
        BY <3>1, <3>2
      <3>3. CASE V # {}
        <4> DEFINE Y == V \ {x(V)}
        <4>1. Y \in SUBSET U /\ Y # U /\ Y \in SUBSET (V \cap Y)
          BY <2>1, <2>3, <3>3
        <4>2. SumsUp(h(V), f, V) /\ SumsUp(h(Y), f, Y)
          BY <2>2, <2>3, <4>1
        <4>3. IsFiniteSet(Y)
          BY <4>1, FS_Subset
        <4> HIDE DEF h
        <4>4. h(V)[Y] = h(Y)[Y]
          BY <4>1, <4>2, <4>3, SumsUnique
        <4> QED
          BY <3>1, <3>3, <4>4
      <3> QED BY <3>2, <3>3
    <2>4. ASSUME NEW s \in SUBSET U, s # {}
          PROVE  G[s \ {x(s)}] = h(s \ {x(s)})[s \ {x(s)}]
      <3>1. s \ {x(s)} \in SUBSET U /\ s \ {x(s)} # U
        BY <2>1, <2>4
      <3> QED
        BY <2>3, <3>1
    <2>5. SumsUp(G, f, U)
      <3> DEFINE H == [s \in SUBSET U |-> IF s = {} THEN 0 ELSE f[x(s)] + G[s \ {x(s)}]]
      <3>1. \A s \in SUBSET U : G[s] = IF s = {} THEN 0 ELSE f[x(s)] + G[s \ {x(s)}]
        <4>1. \A s \in SUBSET U : G[s] = IF s = {} THEN 0 ELSE f[x(s)] + h(s \ {x(s)})[s \ {x(s)}]
          BY Zenon
        <4> HIDE DEF h, G, x
        <4> QED BY <2>4, <4>1
      <3>2. \A s \in SUBSET U : H[s] = IF s = {} THEN 0 ELSE f[x(s)] + G[s \ {x(s)}]
        <4> HIDE DEF h, G, x
        <4> QED OBVIOUS
      <3>3. G = H
        <4>1. G = [s \in SUBSET U |-> G[s]]
          <5> HIDE DEF h, x
          <5> QED OBVIOUS
        <4>2. H = [s \in SUBSET U |-> H[s]]
          <5> HIDE DEF h, x
          <5> QED OBVIOUS
        <4> HIDE DEF G, H, h
        <4> QED BY <3>1, <3>2, <4>1, <4>2
      <3> HIDE DEF h, G
      <3> QED BY <3>3 DEF SumsUp
    <2> QED
      BY <2>5
  <1>2. S \in W
    <2> HIDE DEF W
    <2> QED BY <1>1, SubsetInduction
  <1> QED
    BY <1>2

\* The sum over a set is the recursion of any larger set, read there.
LEMMA SumInside ==
    ASSUME NEW f, NEW S, IsFiniteSet(S), NEW T \in SUBSET S
    PROVE  SumFunctionOnSet(f, T) = (CHOOSE g : SumsUp(g, f, S))[T]
  <1>1. IsFiniteSet(T)
    BY FS_Subset
  <1>2. SumsUp(CHOOSE g : SumsUp(g, f, S), f, S) /\ SumsUp(CHOOSE g : SumsUp(g, f, T), f, T)
    BY <1>1, SumsExist
  <1>3. T \in SUBSET (S \cap T)
    OBVIOUS
  <1> QED
    BY <1>1, <1>2, <1>3, SumsUnique, SumUnfold

\* Nothing sums up to zero.
LEMMA SumEmpty ==
    ASSUME NEW f
    PROVE  SumFunctionOnSet(f, {}) = 0
  BY SumsExist, SumUnfold, FS_EmptySet DEF SumsUp

\* The element a sum takes first.
Some(S) == CHOOSE x \in S : TRUE

\* A sum is that element's value and the sum of the others.
LEMMA SumFirst ==
    ASSUME NEW f, NEW S, IsFiniteSet(S), S # {}
    PROVE  /\ Some(S) \in S
           /\ SumFunctionOnSet(f, S) = f[Some(S)] + SumFunctionOnSet(f, S \ {Some(S)})
  <1> DEFINE G == CHOOSE g : SumsUp(g, f, S)
  <1>1. Some(S) \in S
    BY DEF Some
  <1>2. SumsUp(G, f, S)
    BY SumsExist
  <1>3. G[S] = f[Some(S)] + G[S \ {Some(S)}]
    <2> HIDE DEF G
    <2> QED BY <1>2 DEF SumsUp, Some
  <1>4. SumFunctionOnSet(f, S) = G[S] /\ SumFunctionOnSet(f, S \ {Some(S)}) = G[S \ {Some(S)}]
    <2>1. S \in SUBSET S /\ S \ {Some(S)} \in SUBSET S
      OBVIOUS
    <2> QED BY <2>1, SumInside
  <1> QED
    BY <1>1, <1>3, <1>4

\* Induction along a sum.
LEMMA SumInduction ==
    ASSUME NEW S, IsFiniteSet(S), NEW W, {} \in W,
           \A U \in SUBSET S : IsFiniteSet(U) /\ U # {} /\ U \ {Some(U)} \in W => U \in W
    PROVE  S \in W
  <1>1. ASSUME NEW U \in SUBSET S, \A V \in SUBSET U : V # U => V \in W
        PROVE  U \in W
    <2>1. IsFiniteSet(U)
      BY FS_Subset
    <2>2. U # {} => U \ {Some(U)} \in SUBSET U /\ U \ {Some(U)} # U
      BY DEF Some
    <2> QED
      BY <1>1, <2>1, <2>2
  <1> QED
    BY <1>1, SubsetInduction

\* A sum of integers is an integer.
LEMMA SumInt ==
    ASSUME NEW f, NEW S, IsFiniteSet(S), \A x \in S : f[x] \in Int
    PROVE  SumFunctionOnSet(f, S) \in Int
  <1> DEFINE W == {U \in SUBSET S : SumFunctionOnSet(f, U) \in Int}
  <1>1. {} \in W
    BY SumEmpty
  <1>2. ASSUME NEW U \in SUBSET S, IsFiniteSet(U), U # {}, U \ {Some(U)} \in W
        PROVE  U \in W
    BY <1>2, SumFirst
  <1>3. S \in W
    <2> HIDE DEF W
    <2> QED BY <1>1, <1>2, SumInduction
  <1> QED
    BY <1>3

\* A sum depends on the values over the set alone.
LEMMA SumCongruent ==
    ASSUME NEW f, NEW g, NEW S, IsFiniteSet(S), \A x \in S : f[x] = g[x]
    PROVE  SumFunctionOnSet(f, S) = SumFunctionOnSet(g, S)
  <1> DEFINE W == {U \in SUBSET S : SumFunctionOnSet(f, U) = SumFunctionOnSet(g, U)}
  <1>1. {} \in W
    BY SumEmpty
  <1>2. ASSUME NEW U \in SUBSET S, IsFiniteSet(U), U # {}, U \ {Some(U)} \in W
        PROVE  U \in W
    <2>1. Some(U) \in S
      BY <1>2, SumFirst
    <2> QED
      BY <1>2, <2>1, SumFirst
  <1>3. S \in W
    <2> HIDE DEF W
    <2> QED BY <1>1, <1>2, SumInduction
  <1> QED
    BY <1>3

\* Zeros sum up to zero.
LEMMA SumZero ==
    ASSUME NEW f, NEW S, IsFiniteSet(S), \A x \in S : f[x] = 0
    PROVE  SumFunctionOnSet(f, S) = 0
  <1> DEFINE W == {U \in SUBSET S : SumFunctionOnSet(f, U) = 0}
  <1>1. {} \in W
    BY SumEmpty
  <1>2. ASSUME NEW U \in SUBSET S, IsFiniteSet(U), U # {}, U \ {Some(U)} \in W
        PROVE  U \in W
    BY <1>2, SumFirst
  <1>3. S \in W
    <2> HIDE DEF W
    <2> QED BY <1>1, <1>2, SumInduction
  <1> QED
    BY <1>3

\* Any element may be taken out of a sum of integers.
LEMMA SumRemove ==
    ASSUME NEW f, NEW S, IsFiniteSet(S), \A x \in S : f[x] \in Int, NEW y \in S
    PROVE  SumFunctionOnSet(f, S) = f[y] + SumFunctionOnSet(f, S \ {y})
  <1> DEFINE W == {U \in SUBSET S : \A z \in U :
                     SumFunctionOnSet(f, U) = f[z] + SumFunctionOnSet(f, U \ {z})}
  <1>1. ASSUME NEW U \in SUBSET S, \A V \in SUBSET U : V # U => V \in W
        PROVE  U \in W
    <2> SUFFICES ASSUME NEW z \in U
                 PROVE  SumFunctionOnSet(f, U) = f[z] + SumFunctionOnSet(f, U \ {z})
      OBVIOUS
    <2> DEFINE x == Some(U)
    <2>1. IsFiniteSet(U) /\ U # {}
      BY FS_Subset
    <2>2. x \in U /\ SumFunctionOnSet(f, U) = f[x] + SumFunctionOnSet(f, U \ {x})
      BY <2>1, SumFirst
    <2>3. CASE x = z
      BY <2>2, <2>3
    <2>4. CASE x # z
      <3> HIDE DEF x
      <3>1. SumFunctionOnSet(f, U \ {x}) = f[z] + SumFunctionOnSet(f, (U \ {x}) \ {z})
        <4>1. U \ {x} \in W /\ z \in U \ {x}
          BY <1>1, <2>2, <2>4
        <4> QED BY <4>1
      <3>2. SumFunctionOnSet(f, U \ {z}) = f[x] + SumFunctionOnSet(f, (U \ {z}) \ {x})
        <4>1. U \ {z} \in W /\ x \in U \ {z}
          BY <1>1, <2>2, <2>4
        <4> QED BY <4>1
      <3>3. (U \ {z}) \ {x} = (U \ {x}) \ {z}
        OBVIOUS
      <3>4. SumFunctionOnSet(f, (U \ {x}) \ {z}) \in Int
        <4>1. IsFiniteSet((U \ {x}) \ {z}) /\ \A w \in (U \ {x}) \ {z} : f[w] \in Int
          BY <2>1, FS_Subset
        <4> QED BY <4>1, SumInt
      <3>5. f[x] \in Int /\ f[z] \in Int
        BY <2>2
      <3>6. PICK rest \in Int : rest = SumFunctionOnSet(f, (U \ {x}) \ {z})
        BY <3>4
      <3>7. /\ SumFunctionOnSet(f, U) = f[x] + (f[z] + rest)
            /\ SumFunctionOnSet(f, U \ {z}) = f[x] + rest
        BY <2>2, <3>1, <3>2, <3>3, <3>6
      <3>8. f[x] + (f[z] + rest) = f[z] + (f[x] + rest)
        BY <3>5
      <3> QED
        BY <3>7, <3>8
    <2> QED
      BY <2>3, <2>4
  <1>2. S \in W
    <2> HIDE DEF W
    <2> QED BY <1>1, SubsetInduction
  <1> QED
    BY <1>2

\* Sums add up.
LEMMA SumAdd ==
    ASSUME NEW f, NEW g, NEW h, NEW S, IsFiniteSet(S),
           \A x \in S : f[x] \in Int /\ g[x] \in Int /\ h[x] = f[x] + g[x]
    PROVE  SumFunctionOnSet(h, S) = SumFunctionOnSet(f, S) + SumFunctionOnSet(g, S)
  <1> DEFINE W == {U \in SUBSET S :
                     SumFunctionOnSet(h, U) = SumFunctionOnSet(f, U) + SumFunctionOnSet(g, U)}
  <1>1. {} \in W
    BY SumEmpty
  <1>2. ASSUME NEW U \in SUBSET S, IsFiniteSet(U), U # {}, U \ {Some(U)} \in W
        PROVE  U \in W
    <2> DEFINE x == Some(U)
               V == U \ {Some(U)}
    <2>1. x \in S
      BY <1>2, SumFirst
    <2>2. /\ SumFunctionOnSet(f, U) = f[x] + SumFunctionOnSet(f, V)
          /\ SumFunctionOnSet(g, U) = g[x] + SumFunctionOnSet(g, V)
          /\ SumFunctionOnSet(h, U) = h[x] + SumFunctionOnSet(h, V)
      BY <1>2, SumFirst
    <2>3. SumFunctionOnSet(f, V) \in Int /\ SumFunctionOnSet(g, V) \in Int
      <3>1. IsFiniteSet(V) /\ V \subseteq S
        BY <1>2, FS_Subset
      <3> HIDE DEF V
      <3> QED BY <3>1, SumInt
    <2>4. SumFunctionOnSet(h, V) = SumFunctionOnSet(f, V) + SumFunctionOnSet(g, V)
      BY <1>2
    <2> HIDE DEF x, V
    <2>5. f[x] \in Int /\ g[x] \in Int /\ h[x] = f[x] + g[x]
      BY <2>1
    <2> QED
      BY <2>2, <2>3, <2>4, <2>5
  <1>3. S \in W
    <2> HIDE DEF W
    <2> QED BY <1>1, <1>2, SumInduction
  <1> QED
    BY <1>3

\* A sum of naturals is not negative, and positive when one of them is.
LEMMA SumNat ==
    ASSUME NEW f, NEW S, IsFiniteSet(S), \A x \in S : f[x] \in Nat
    PROVE  /\ SumFunctionOnSet(f, S) \in Nat
           /\ (\E x \in S : f[x] > 0) => SumFunctionOnSet(f, S) > 0
  <1> DEFINE W == {U \in SUBSET S : SumFunctionOnSet(f, U) \in Nat}
  <1>1. {} \in W
    BY SumEmpty
  <1>2. ASSUME NEW U \in SUBSET S, IsFiniteSet(U), U # {}, U \ {Some(U)} \in W
        PROVE  U \in W
    BY <1>2, SumFirst
  <1>3. \A T \in SUBSET S : T \in W
    <2> SUFFICES ASSUME NEW T \in SUBSET S
                 PROVE  T \in W
      OBVIOUS
    <2>1. IsFiniteSet(T)
      BY FS_Subset
    <2>2. \A U \in SUBSET T : U \in SUBSET S
      OBVIOUS
    <2> HIDE DEF W
    <2> QED BY <1>1, <1>2, <2>1, <2>2, SumInduction
  <1>4. ASSUME NEW x \in S, f[x] > 0
        PROVE  SumFunctionOnSet(f, S) > 0
    <2>1. SumFunctionOnSet(f, S) = f[x] + SumFunctionOnSet(f, S \ {x})
      BY SumRemove
    <2>2. PICK n \in Nat : n = SumFunctionOnSet(f, S \ {x})
      BY <1>3
    <2>3. f[x] + n > 0
      BY <1>4
    <2> QED
      BY <2>1, <2>2, <2>3
  <1>5. S \in W
    BY <1>3
  <1> QED
    BY <1>4, <1>5

\* Elements that count for nothing may be left out of a sum.
LEMMA SumRestrict ==
    ASSUME NEW f, NEW S, IsFiniteSet(S), NEW T \in SUBSET S,
           \A x \in S : f[x] \in Int, \A x \in S \ T : f[x] = 0
    PROVE  SumFunctionOnSet(f, S) = SumFunctionOnSet(f, T)
  <1> DEFINE W == {U \in SUBSET S : SumFunctionOnSet(f, U) = SumFunctionOnSet(f, U \cap T)}
  <1>1. {} \in W
    <2>1. {} \cap T = {}
      OBVIOUS
    <2> QED BY <2>1
  <1>2. ASSUME NEW U \in SUBSET S, IsFiniteSet(U), U # {}, U \ {Some(U)} \in W
        PROVE  U \in W
    <2>1. PICK x : x = Some(U)
      OBVIOUS
    <2>2. x \in U /\ SumFunctionOnSet(f, U) = f[x] + SumFunctionOnSet(f, U \ {x})
      BY <1>2, <2>1, SumFirst
    <2>3. SumFunctionOnSet(f, U \ {x}) = SumFunctionOnSet(f, (U \ {x}) \cap T)
      BY <1>2, <2>1
    <2>4. CASE x \in T
      <3>1. PICK V \in SUBSET S : V = U \cap T
        OBVIOUS
      <3>2. IsFiniteSet(V) /\ x \in V /\ V \ {x} = (U \ {x}) \cap T
        BY <2>2, <2>4, <3>1, FS_Subset
      <3>3. SumFunctionOnSet(f, V) = f[x] + SumFunctionOnSet(f, V \ {x})
        BY <3>2, SumRemove
      <3> QED
        BY <2>2, <2>3, <3>1, <3>2, <3>3
    <2>5. CASE x \notin T
      <3>1. f[x] = 0 /\ (U \ {x}) \cap T = U \cap T
        BY <2>2, <2>5
      <3>2. PICK n \in Int : n = SumFunctionOnSet(f, U \cap T)
        <4>1. IsFiniteSet(U \cap T) /\ \A y \in U \cap T : f[y] \in Int
          BY FS_Subset
        <4> QED BY <4>1, SumInt
      <3>3. 0 + n = n
        OBVIOUS
      <3> QED
        BY <2>2, <2>3, <3>1, <3>2, <3>3
    <2> QED
      BY <2>4, <2>5
  <1>3. S \in W
    <2> HIDE DEF W
    <2> QED BY <1>1, <1>2, SumInduction
  <1>4. S \cap T = T
    OBVIOUS
  <1> QED
    BY <1>3, <1>4

\* Rows first or columns first: the sum of a table is the same.
LEMMA SumExchange ==
    ASSUME NEW A, IsFiniteSet(A), NEW I, IsFiniteSet(I), NEW F \in [A -> [I -> Int]],
           NEW S \in SUBSET I
    PROVE  SumFunctionOnSet([a \in A |-> SumFunctionOnSet(F[a], S)], A)
         = SumFunctionOnSet([i \in I |-> SumFunctionOnSet([a \in A |-> F[a][i]], A)], S)
  <1> DEFINE Row(U) == [a \in A |-> SumFunctionOnSet(F[a], U)]
             Col(i) == [a \in A |-> F[a][i]]
             Cols == [i \in I |-> SumFunctionOnSet(Col(i), A)]
             W == {U \in SUBSET S : SumFunctionOnSet(Row(U), A) = SumFunctionOnSet(Cols, U)}
  <1>1. {} \in W
    <2>1. \A a \in A : Row({})[a] = 0
      BY SumEmpty
    <2> HIDE DEF Row
    <2>2. SumFunctionOnSet(Row({}), A) = 0
      BY <2>1, SumZero
    <2> QED
      BY <2>2, SumEmpty
  <1>2. ASSUME NEW U \in SUBSET S, IsFiniteSet(U), U # {}, U \ {Some(U)} \in W
        PROVE  U \in W
    <2> DEFINE x == Some(U)
               V == U \ {Some(U)}
    <2>1. x \in U /\ x \in I
      BY <1>2, SumFirst
    <2>2. SumFunctionOnSet(Cols, U) = Cols[x] + SumFunctionOnSet(Cols, V)
      BY <1>2, SumFirst
    <2>3. IsFiniteSet(V) /\ V \subseteq I
      BY <1>2, FS_Subset
    <2>4. \A a \in A : Row(U)[a] = Col(x)[a] + Row(V)[a]
      <3> TAKE a \in A
      <3>1. SumFunctionOnSet(F[a], U) = F[a][x] + SumFunctionOnSet(F[a], V)
        BY <1>2, SumFirst
      <3> HIDE DEF x, V
      <3> QED BY <3>1
    <2>5. \A a \in A : Col(x)[a] \in Int
      BY <2>1
    <2>6. \A a \in A : Row(V)[a] \in Int
      <3> TAKE a \in A
      <3>1. \A i \in V : F[a][i] \in Int
        BY <2>3
      <3>2. SumFunctionOnSet(F[a], V) \in Int
        BY <2>3, <3>1, SumInt
      <3> HIDE DEF V
      <3> QED BY <3>2
    <2>7. SumFunctionOnSet(Row(U), A) = SumFunctionOnSet(Col(x), A) + SumFunctionOnSet(Row(V), A)
      <3> HIDE DEF Row, Col, x, V
      <3> QED BY <2>4, <2>5, <2>6, SumAdd
    <2>8. Cols[x] = SumFunctionOnSet(Col(x), A)
      BY <2>1
    <2>9. SumFunctionOnSet(Row(V), A) = SumFunctionOnSet(Cols, V)
      BY <1>2
    <2> HIDE DEF Row, Col, Cols, x, V
    <2> QED
      BY <2>2, <2>7, <2>8, <2>9
  <1>3. S \in W
    <2>1. IsFiniteSet(S)
      BY FS_Subset
    <2> HIDE DEF W
    <2> QED BY <1>1, <1>2, <2>1, SumInduction
  <1> QED
    BY <1>3

-----------------------------------------------------------------------------
(* The operators the ledger is built from.                                 *)

\* A reversal of a balanced entry is balanced: CreateReversal posts its entry
\* without running the check of JournalEntry.Post.
LEMMA SwapBalanced ==
    ASSUME NEW l \in Lines, IsBalanced(l)
    PROVE  IsBalanced(Swap(l))
<1>1. TotalDebits(Swap(l)) = TotalCredits(l)
  <2>1. [a \in Accounts |-> Swap(l)[a].debit] = [a \in Accounts |-> l[a].credit]
    BY DEF Swap
  <2> QED BY <2>1 DEF TotalDebits, TotalCredits
<1>2. TotalCredits(Swap(l)) = TotalDebits(l)
  <2>1. [a \in Accounts |-> Swap(l)[a].credit] = [a \in Accounts |-> l[a].debit]
    BY DEF Swap
  <2> QED BY <2>1 DEF TotalDebits, TotalCredits
<1> QED BY <1>1, <1>2 DEF IsBalanced

\* Swapping debits and credits keeps every amount within its column.
LEMMA SwapType == \A l \in Lines : Swap(l) \in Lines
BY DEF Lines, Swap, Amounts

\* JournalEntry.Create makes a well-typed draft.
LEMMA NewEntryType ==
    ASSUME NEW d \in Nat, NEW p \in Nat, NEW l \in Lines, NEW src \in Sources
    PROVE  NewEntry(d, p, l, src) \in Entry
BY DEF NewEntry, Entry, Statuses

\* The rows of the tables have their types.
LEMMA RowTypes ==
    ASSUME TypeOK
    PROVE  /\ \A i \in DOMAIN entries : i \in Nat /\ entries[i] \in Entry
           /\ \A p \in DOMAIN periods : p \in Nat /\ periods[p] \in Period
<1>1. entries \in Seq(Entry) /\ periods \in Seq(Period)
  BY DEF TypeOK
<1>2. /\ DOMAIN entries = 1 .. Len(entries) /\ Len(entries) \in Nat
      /\ DOMAIN periods = 1 .. Len(periods) /\ Len(periods) \in Nat
  BY <1>1, LenProperties
<1> QED BY <1>1, <1>2, ElementOfSeq

\* Adding rows to a table keeps the rows it had.
LEMMA ConcatRows ==
    ASSUME NEW S, NEW s \in Seq(S), NEW t \in Seq(S)
    PROVE  /\ s \o t \in Seq(S)
           /\ Len(s \o t) = Len(s) + Len(t)
           /\ DOMAIN (s \o t) = 1 .. Len(s) + Len(t)
           /\ \A i \in 1 .. Len(s) : (s \o t)[i] = s[i]
           /\ \A i \in Len(s) + 1 .. Len(s) + Len(t) :
                 i - Len(s) \in 1 .. Len(t) /\ (s \o t)[i] = t[i - Len(s)]
<1>1. Len(s) \in Nat /\ Len(t) \in Nat
  BY LenProperties
<1>2. s \o t \in Seq(S) /\ Len(s \o t) = Len(s) + Len(t)
      /\ \A i \in 1 .. Len(s) + Len(t) : (s \o t)[i] =
             IF i <= Len(s) THEN s[i] ELSE t[i - Len(s)]
  BY ConcatProperties
<1>3. DOMAIN (s \o t) = 1 .. Len(s) + Len(t)
  BY <1>2, LenProperties
<1> QED BY <1>1, <1>2, <1>3

\* One added row, as a sequence.
LEMMA SingletonRow ==
    ASSUME NEW S, NEW e \in S
    PROVE  <<e>> \in Seq(S) /\ Len(<<e>>) = 1 /\ <<e>>[1] = e
OBVIOUS

\* How a handler's step changes the request it serves.
LEMMA ProceedEffect ==
    ASSUME TypeOK, NEW r \in Requests, NEW step \in Steps, NEW id \in Nat,
           NEW ids \in SUBSET Nat, NEW new \in Seq(Entry),
           Proceed(r, step, id, ids, new)
    PROVE  /\ pc' \in [Requests -> Steps] /\ target' \in [Requests -> Nat]
           /\ seen' \in [Requests -> SUBSET Nat] /\ adds' \in [Requests -> Seq(Entry)]
           /\ pc'[r] = step /\ target'[r] = id /\ adds'[r] = new
           /\ Frame(r)
BY DEF TypeOK, Proceed, Frame

\* The end of a handler clears the request it serves.
LEMMA RespondEffect ==
    ASSUME TypeOK, NEW r \in Requests, Respond(r)
    PROVE  /\ pc' \in [Requests -> Steps] /\ target' \in [Requests -> Nat]
           /\ seen' \in [Requests -> SUBSET Nat] /\ adds' \in [Requests -> Seq(Entry)]
           /\ pc'[r] = "idle" /\ Frame(r) /\ InFlightOf(r)'
<1>1. << >> \in Seq(Entry) /\ "idle" \in Steps
  BY DEF Steps
<1> QED BY <1>1 DEF TypeOK, Respond, Frame, InFlightOf

\* A request that does not move keeps what it relies on while the tables grow.
LEMMA InFlightFrame ==
    ASSUME TypeOK, TypeOK', NEW r \in Requests, Frame(r), Grows,
           InFlight, InFlightOf(r)'
    PROVE  InFlight'
<1> SUFFICES ASSUME NEW q \in Requests, q # r
             PROVE  InFlightOf(q)'
  BY DEF InFlight
<1>1. InFlightOf(q) /\ pc'[q] = pc[q] /\ target'[q] = target[q] /\ adds'[q] = adds[q]
  BY DEF InFlight, Frame
<1>2. /\ DOMAIN entries = 1 .. Len(entries) /\ DOMAIN entries' = 1 .. Len(entries')
      /\ DOMAIN periods = 1 .. Len(periods) /\ DOMAIN periods' = 1 .. Len(periods')
      /\ Len(entries) \in Nat /\ Len(entries') \in Nat
      /\ Len(periods) \in Nat /\ Len(periods') \in Nat
  BY LenProperties DEF TypeOK
<1>3. \A i \in DOMAIN entries : i \in DOMAIN entries' /\ entries'[i].lines = entries[i].lines
          /\ (entries[i].status # "Draft" => entries'[i].status # "Draft")
  BY <1>2 DEF Grows
<1>4. \A p \in DOMAIN periods : p \in DOMAIN periods' /\ periods'[p].end = periods[p].end
          /\ (periods[p].status = "Closed" => periods'[p].status = "Closed")
  BY <1>2 DEF Grows
<1> QED BY <1>1, <1>3, <1>4 DEF InFlightOf

-----------------------------------------------------------------------------
(* Steps that leave the tables alone: loads, checks, publishing, aborts.   *)

\* A step of one request that leaves the tables alone keeps the invariant.
LEMMA QuietStep ==
    ASSUME IInv, NEW r \in Requests, UNCHANGED <<db, today, published>>,
           pc' \in [Requests -> Steps], target' \in [Requests -> Nat],
           seen' \in [Requests -> SUBSET Nat], adds' \in [Requests -> Seq(Entry)],
           Frame(r), InFlightOf(r)'
    PROVE  IInv'
<1>1. TypeOK'
  BY DEF IInv, TypeOK, db
<1>2. Grows
  <2>1. Len(entries) \in Nat /\ Len(periods) \in Nat
    BY LenProperties DEF IInv, TypeOK
  <2> QED BY <2>1 DEF db, Grows
<1>3. InFlight'
  BY <1>1, <1>2, InFlightFrame DEF IInv
<1>4. PostedBalanced' /\ ReversalMirrors' /\ PublishedCommitted' /\ OpeningEntryLinked'
  BY DEF IInv, PostedBalanced, ReversalMirrors, PublishedCommitted, OpeningEntryLinked, db
<1> QED BY <1>1, <1>3, <1>4 DEF IInv

\* CreateJournalEntry, up to the period check: nothing is written yet.
LEMMA CreateEntryStep ==
    ASSUME IInv, NEW r \in Requests, NEW d \in 1 .. MaxDate,
           NEW p \in 0 .. Len(periods) + 1, NEW l \in LineSets, CreateEntry(r, d, p, l)
    PROVE  IInv'
<1> DEFINE e == NewEntry(d, p, l, "none")
<1>1. d \in Nat /\ p \in Nat /\ l \in Lines /\ "none" \in Sources /\ "create" \in Steps
  BY LenProperties, BoundAssumption, LineAssumption DEF IInv, TypeOK, Sources, Steps
<1>2. <<e>> \in Seq(Entry) /\ Len(<<e>>) = 1 /\ <<e>>[1] = e
  BY <1>1, NewEntryType, SingletonRow
<1>3. e.status = "Draft" /\ e.reversedBy = 0 /\ e.reversalOf = 0
  BY DEF NewEntry
<1> HIDE DEF e
<1>4. CASE Proceed(r, "create", p, {}, <<e>>)
  <2>1. pc'[r] = "create" /\ adds'[r] = <<e>>
    BY <1>1, <1>2, <1>4, ProceedEffect DEF IInv
  <2>2. InFlightOf(r)'
    BY <1>2, <1>3, <2>1 DEF InFlightOf
  <2> QED BY <1>1, <1>2, <1>4, <2>2, ProceedEffect, QuietStep DEF IInv, CreateEntry
<1>5. CASE Respond(r)
  BY <1>5, RespondEffect, QuietStep DEF IInv, CreateEntry
<1> QED BY <1>4, <1>5 DEF CreateEntry, e

\* PostJournalEntry, load and check: a balanced entry stays balanced.
LEMMA PostEntryStep ==
    ASSUME IInv, NEW r \in Requests, NEW i \in 1 .. Len(entries) + 1, PostEntry(r, i)
    PROVE  IInv'
<1>1. i \in Nat /\ "post" \in Steps /\ << >> \in Seq(Entry)
  BY LenProperties DEF IInv, TypeOK, Steps
<1>2. CASE Proceed(r, "post", i, {}, << >>) /\ i \in DOMAIN entries
           /\ PostCheck(entries[i]) = "OK"
  <2>1. pc'[r] = "post" /\ target'[r] = i
    BY <1>1, <1>2, ProceedEffect DEF IInv
  <2>2. IsBalanced(entries[i].lines)
    BY <1>2 DEF PostCheck
  <2>3. InFlightOf(r)'
    BY <1>2, <2>1, <2>2 DEF InFlightOf, PostEntry, db
  <2> QED BY <1>1, <1>2, <2>3, ProceedEffect, QuietStep DEF IInv, PostEntry
<1>3. CASE Respond(r)
  BY <1>3, RespondEffect, QuietStep DEF IInv, PostEntry
<1> QED BY <1>2, <1>3 DEF PostEntry

\* ReverseJournalEntry, load and check: the mirror is of the loaded lines.
LEMMA ReverseEntryStep ==
    ASSUME IInv, NEW r \in Requests, NEW i \in 1 .. Len(entries) + 1, ReverseEntry(r, i)
    PROVE  IInv'
<1>1. i \in Nat /\ "reverse" \in Steps
  BY LenProperties DEF IInv, TypeOK, Steps
<1>2. CASE Proceed(r, "reverse", i, {}, <<Reversal(i)>>) /\ i \in DOMAIN entries
           /\ ReversalCheck(entries[i]) = "OK"
  <2>1. entries[i] \in Entry /\ entries[i].lines \in Lines
    BY <1>2, RowTypes DEF IInv, Entry
  <2>2. Reversal(i) \in Entry
    BY <1>1, <2>1, SwapType, BoundAssumption
    DEF Reversal, Entry, Statuses, Sources, IInv, TypeOK
  <2>3. IsBalanced(entries[i].lines)
    BY <1>2 DEF ReversalCheck, IInv, PostedBalanced
  <2>4. <<Reversal(i)>> \in Seq(Entry) /\ Len(<<Reversal(i)>>) = 1
        /\ <<Reversal(i)>>[1] = Reversal(i)
    BY <2>2, SingletonRow
  <2>5. pc'[r] = "reverse" /\ target'[r] = i /\ adds'[r] = <<Reversal(i)>>
    BY <1>1, <1>2, <2>4, ProceedEffect DEF IInv
  <2>6. /\ Reversal(i).status = "Posted" /\ Reversal(i).reversedBy = 0
        /\ Reversal(i).reversalOf = i /\ Reversal(i).lines = Swap(entries[i].lines)
    BY DEF Reversal
  <2>7. InFlightOf(r)'
    <3>1. entries' = entries
      BY DEF ReverseEntry, db
    <3>2. Len(adds'[r]) = 1 /\ adds'[r][1] = Reversal(i)
      BY <2>4, <2>5
    <3> QED BY <1>2, <2>3, <2>5, <2>6, <3>1, <3>2 DEF InFlightOf
  <2> QED BY <1>1, <1>2, <2>4, <2>7, ProceedEffect, QuietStep DEF IInv, ReverseEntry
<1>3. CASE Respond(r)
  BY <1>3, RespondEffect, QuietStep DEF IInv, ReverseEntry
<1> QED BY <1>2, <1>3 DEF ReverseEntry

\* CloseFiscalPeriod, load: only an existing open period goes on.
LEMMA ClosePeriodStep ==
    ASSUME IInv, NEW r \in Requests, NEW p \in 1 .. Len(periods) + 1, ClosePeriod(r, p)
    PROVE  IInv'
<1>1. p \in Nat /\ p # 0 /\ "closeEntries" \in Steps /\ << >> \in Seq(Entry)
  BY LenProperties DEF IInv, TypeOK, Steps
<1>2. CASE Proceed(r, "closeEntries", p, {}, << >>) /\ PeriodCheck(p) = "OK"
  <2>1. pc'[r] = "closeEntries" /\ target'[r] = p
    BY <1>1, <1>2, ProceedEffect DEF IInv
  <2>2. p \in DOMAIN periods
    BY <1>1, <1>2 DEF PeriodCheck
  <2>3. InFlightOf(r)'
    BY <2>1, <2>2 DEF InFlightOf, ClosePeriod, db
  <2> QED BY <1>1, <1>2, <2>3, ProceedEffect, QuietStep DEF IInv, ClosePeriod
<1>3. CASE Respond(r)
  BY <1>3, RespondEffect, QuietStep DEF IInv, ClosePeriod
<1> QED BY <1>1, <1>2, <1>3 DEF ClosePeriod

\* CloseFiscalPeriod, reading the entries of the period's dates.
LEMMA ClosePeriodReadEntriesStep ==
    ASSUME IInv, NEW r \in Requests, ClosePeriodReadEntries(r)
    PROVE  IInv'
<1> DEFINE p == target[r]
           ids == WithStatus(InRange(periods[p].start, periods[p].end), "Posted")
<1>1. p \in Nat /\ p \in DOMAIN periods
  BY DEF IInv, TypeOK, InFlight, InFlightOf, ClosePeriodReadEntries
<1>2. ids \in SUBSET Nat /\ "closeAccounts" \in Steps /\ << >> \in Seq(Entry)
  BY LenProperties DEF IInv, TypeOK, WithStatus, InRange, Steps
<1> HIDE DEF ids
<1>3. CASE Proceed(r, "closeAccounts", p, ids, << >>)
  <2>1. pc'[r] = "closeAccounts" /\ target'[r] = p
    BY <1>1, <1>2, <1>3, ProceedEffect DEF IInv
  <2>2. InFlightOf(r)'
    BY <1>1, <2>1 DEF InFlightOf, ClosePeriodReadEntries, db
  <2> QED BY <1>1, <1>2, <1>3, <2>2, ProceedEffect, QuietStep DEF IInv, ClosePeriodReadEntries
<1>4. CASE Respond(r)
  BY <1>4, RespondEffect, QuietStep DEF IInv, ClosePeriodReadEntries
<1> QED BY <1>3, <1>4 DEF ClosePeriodReadEntries, ids

\* What the close builds is posted, balanced and new; an opening entry comes last
\* and is dated the day after the period.
LEMMA CloseAdds ==
    ASSUME TypeOK, NEW p \in DOMAIN periods, NEW ids, CloseCheck(ids) = "OK"
    PROVE  LET new == ClosingEntries(p, ids) \o OpeningEntries(p, ids)
           IN /\ new \in Seq(Entry)
              /\ \A k \in DOMAIN new :
                    /\ new[k].status = "Posted" /\ IsBalanced(new[k].lines)
                    /\ new[k].reversedBy = 0 /\ new[k].reversalOf = 0
                    /\ new[k].source = "period_open" =>
                          k = Len(new) /\ new[k].date = periods[p].end + 1
<1> DEFINE cl == ClosingLines(ids)
           ol == OpeningLines(ids)
           c == Posted(NewEntry(periods[p].end, p, cl, "period_close"))
           o == Posted(NewEntry(periods[p].end + 1, 0, ol, "period_open"))
           good(e) == /\ e.status = "Posted" /\ IsBalanced(e.lines)
                      /\ e.reversedBy = 0 /\ e.reversalOf = 0
<1>1. cl \in Lines /\ (IsBalanced(ol) => ol \in Lines) /\ (cl = NoLines \/ IsBalanced(cl))
  <2> HIDE DEF cl, ol
  <2> QED BY DEF CloseCheck, Overflows, cl, ol
<1>2. p \in Nat /\ periods[p].end \in Nat /\ periods[p].end + 1 \in Nat
  BY RowTypes DEF Period
<1> HIDE DEF cl, ol
<1>3. c \in Entry /\ c.status = "Posted" /\ c.lines = cl /\ c.reversedBy = 0
      /\ c.reversalOf = 0 /\ c.source = "period_close"
  BY <1>1, <1>2 DEF Posted, NewEntry, Entry, Statuses, Sources
<1>4. /\ IsBalanced(ol) => o \in Entry
      /\ o.status = "Posted" /\ o.lines = ol /\ o.reversedBy = 0
      /\ o.reversalOf = 0 /\ o.source = "period_open" /\ o.date = periods[p].end + 1
  BY <1>1, <1>2 DEF Posted, NewEntry, Entry, Statuses, Sources
<1> HIDE DEF c, o
<1>5. ClosingEntries(p, ids) = << >> \/ (ClosingEntries(p, ids) = <<c>> /\ good(c))
  BY <1>1, <1>3 DEF ClosingEntries, cl, c
<1>6. OpeningEntries(p, ids) = << >> \/ (OpeningEntries(p, ids) = <<o>> /\ good(o))
  BY <1>1, <1>4 DEF OpeningEntries, ol, o
<1>o. good(o) => o \in Entry
  BY <1>4
<1> HIDE DEF good
<1>7. CASE ClosingEntries(p, ids) = << >> /\ OpeningEntries(p, ids) = << >>
  <2>1. << >> \o << >> = << >> /\ << >> \in Seq(Entry) /\ DOMAIN << >> = {}
    BY ConcatEmptySeq
  <2> QED BY <1>7, <2>1
<1>8. CASE ClosingEntries(p, ids) = << >> /\ OpeningEntries(p, ids) = <<o>> /\ good(o)
  <2>1. << >> \o <<o>> = <<o>> /\ o \in Entry
    BY <1>o, <1>8, ConcatEmptySeq, SingletonRow
  <2> QED BY <1>4, <1>8, <2>1 DEF good
<1>9. CASE ClosingEntries(p, ids) = <<c>> /\ good(c) /\ OpeningEntries(p, ids) = << >>
  <2>1. <<c>> \o << >> = <<c>>
    BY <1>3, ConcatEmptySeq, SingletonRow
  <2> QED BY <1>3, <1>9, <2>1 DEF good
<1>10. CASE /\ ClosingEntries(p, ids) = <<c>> /\ good(c)
            /\ OpeningEntries(p, ids) = <<o>> /\ good(o)
  <2> DEFINE co == <<c>> \o <<o>>
  <2>1. co \in Seq(Entry) /\ Len(co) = 2 /\ DOMAIN co = 1 .. 2 /\ co[1] = c /\ co[2] = o
    BY <1>3, <1>o, <1>10, ConcatRows, SingletonRow
  <2> HIDE DEF co
  <2>2. \A k \in DOMAIN co : (k = 1 /\ co[k] = c) \/ (k = Len(co) /\ co[k] = o)
    BY <2>1
  <2> QED BY <1>3, <1>4, <1>10, <2>1, <2>2 DEF good, co
<1> QED BY <1>5, <1>6, <1>7, <1>8, <1>9, <1>10

\* CloseFiscalPeriod, building its closing and opening entries.
LEMMA ClosePeriodReadAccountsStep ==
    ASSUME IInv, NEW r \in Requests, ClosePeriodReadAccounts(r)
    PROVE  IInv'
<1> DEFINE p == target[r]
           new == ClosingEntries(p, seen[r]) \o OpeningEntries(p, seen[r])
<1>1. p \in Nat /\ p \in DOMAIN periods
  BY DEF IInv, TypeOK, InFlight, InFlightOf, ClosePeriodReadAccounts
<1>2. CASE CloseCheck(seen[r]) = "OK" /\ Proceed(r, "close", p, {}, new)
  <2>1. /\ new \in Seq(Entry)
        /\ \A k \in DOMAIN new :
              /\ new[k].status = "Posted" /\ IsBalanced(new[k].lines)
              /\ new[k].reversedBy = 0 /\ new[k].reversalOf = 0
              /\ new[k].source = "period_open" =>
                    k = Len(new) /\ new[k].date = periods[p].end + 1
    BY <1>1, <1>2, CloseAdds DEF IInv
  <2> HIDE DEF new
  <2>2. "close" \in Steps
    BY DEF Steps
  <2>3. pc'[r] = "close" /\ target'[r] = p /\ adds'[r] = new
    BY <1>1, <1>2, <2>1, <2>2, ProceedEffect DEF IInv
  <2>4. periods' = periods
    BY DEF ClosePeriodReadAccounts, db
  <2>5. InFlightOf(r)'
    BY <1>1, <2>1, <2>3, <2>4 DEF InFlightOf
  <2> QED BY <1>1, <1>2, <2>1, <2>2, <2>5, ProceedEffect, QuietStep
          DEF IInv, ClosePeriodReadAccounts
<1>3. CASE Respond(r)
  BY <1>3, RespondEffect, QuietStep DEF IInv, ClosePeriodReadAccounts
<1> QED BY <1>2, <1>3 DEF ClosePeriodReadAccounts

\* A request that fails or dies between two awaits leaves the tables alone.
LEMMA AbortStep ==
    ASSUME IInv, NEW r \in Requests, Abort(r)
    PROVE  IInv'
BY RespondEffect, QuietStep DEF IInv, Abort

-----------------------------------------------------------------------------
(* Steps that save.                                                        *)

\* Adding entries that are drafts or balanced, and reverse nothing.
LEMMA AppendEntries ==
    ASSUME IInv, NEW new \in Seq(Entry), entries' = entries \o new,
           \A k \in DOMAIN new :
              /\ new[k].status # "Draft" => IsBalanced(new[k].lines)
              /\ new[k].reversedBy = 0 /\ new[k].reversalOf = 0
    PROVE  /\ entries' \in Seq(Entry)
           /\ Len(entries) \in Nat /\ Len(new) \in Nat
           /\ DOMAIN entries = 1 .. Len(entries)
           /\ Len(entries') = Len(entries) + Len(new)
           /\ DOMAIN entries' = 1 .. Len(entries')
           /\ \A i \in DOMAIN entries : i \in DOMAIN entries' /\ entries'[i] = entries[i]
           /\ \A i \in DOMAIN entries' \ DOMAIN entries :
                 i - Len(entries) \in DOMAIN new /\ entries'[i] = new[i - Len(entries)]
           /\ PostedBalanced' /\ ReversalMirrors'
<1>1. entries \in Seq(Entry)
  BY DEF IInv, TypeOK
<1>2. /\ Len(entries) \in Nat /\ DOMAIN entries = 1 .. Len(entries)
      /\ Len(new) \in Nat /\ DOMAIN new = 1 .. Len(new)
  BY <1>1, LenProperties
<1>3. /\ entries' \in Seq(Entry) /\ Len(entries') = Len(entries) + Len(new)
      /\ DOMAIN entries' = 1 .. Len(entries')
      /\ \A i \in 1 .. Len(entries) : entries'[i] = entries[i]
      /\ \A i \in Len(entries) + 1 .. Len(entries) + Len(new) :
            i - Len(entries) \in 1 .. Len(new) /\ entries'[i] = new[i - Len(entries)]
  BY <1>1, ConcatRows
<1>4. \A i \in DOMAIN entries : i \in DOMAIN entries' /\ entries'[i] = entries[i]
  BY <1>2, <1>3
<1>5. \A i \in DOMAIN entries' \ DOMAIN entries :
          i - Len(entries) \in DOMAIN new /\ entries'[i] = new[i - Len(entries)]
  BY <1>2, <1>3
<1>6. PostedBalanced'
  <2> SUFFICES ASSUME NEW i \in DOMAIN entries', entries'[i].status # "Draft"
               PROVE  IsBalanced(entries'[i].lines)
    BY DEF PostedBalanced, IsBalanced, TotalDebits, TotalCredits
  <2>1. CASE i \in DOMAIN entries
    BY <1>4, <2>1 DEF IInv, PostedBalanced
  <2>2. CASE i \notin DOMAIN entries
    BY <1>5, <2>2
  <2> QED BY <2>1, <2>2
<1>7. ReversalMirrors'
  <2> SUFFICES ASSUME NEW i \in DOMAIN entries'
               PROVE  /\ entries'[i].reversalOf # 0 =>
                            /\ entries'[i].reversalOf \in 1 .. i - 1
                            /\ entries'[i].lines = Swap(entries'[entries'[i].reversalOf].lines)
                            /\ entries'[entries'[i].reversalOf].reversedBy # 0
                      /\ entries'[i].reversedBy # 0 =>
                            /\ entries'[i].reversedBy \in DOMAIN entries'
                            /\ entries'[entries'[i].reversedBy].reversalOf = i
    BY DEF ReversalMirrors, Swap
  <2>1. CASE i \in DOMAIN entries
    <3>1. entries'[i] = entries[i]
      BY <1>4, <2>1
    <3>2. entries[i].reversalOf # 0 =>
              /\ entries[i].reversalOf \in 1 .. i - 1
              /\ entries[i].lines = Swap(entries[entries[i].reversalOf].lines)
              /\ entries[entries[i].reversalOf].reversedBy # 0
      BY <2>1 DEF IInv, ReversalMirrors
    <3>3. entries[i].reversedBy # 0 =>
              /\ entries[i].reversedBy \in DOMAIN entries
              /\ entries[entries[i].reversedBy].reversalOf = i
      BY <2>1 DEF IInv, ReversalMirrors
    <3>4. entries[i].reversalOf # 0 => entries[i].reversalOf \in DOMAIN entries
      BY <1>2, <2>1, <3>2
    <3> QED BY <1>4, <3>1, <3>2, <3>3, <3>4
  <2>2. CASE i \notin DOMAIN entries
    BY <1>5, <2>2
  <2> QED BY <2>1, <2>2
<1> QED BY <1>2, <1>3, <1>4, <1>5, <1>6, <1>7

\* CreateJournalEntry's SaveChanges appends one draft.
LEMMA CreateEntrySaveStep ==
    ASSUME IInv, NEW r \in Requests, CreateEntrySave(r)
    PROVE  IInv'
<1>1. /\ adds[r] \in Seq(Entry) /\ Len(adds[r]) = 1 /\ adds[r][1].status = "Draft"
      /\ adds[r][1].reversedBy = 0 /\ adds[r][1].reversalOf = 0
  BY DEF CreateEntrySave, IInv, TypeOK, InFlight, InFlightOf
<1>2. \A k \in DOMAIN adds[r] :
          /\ adds[r][k].status # "Draft" => IsBalanced(adds[r][k].lines)
          /\ adds[r][k].reversedBy = 0 /\ adds[r][k].reversalOf = 0
  <2>1. DOMAIN adds[r] = 1 .. 1
    BY <1>1, LenProperties
  <2>2. \A k \in DOMAIN adds[r] : k = 1
    BY <2>1
  <2> QED BY <1>1, <2>2
<1>3. /\ entries' \in Seq(Entry) /\ Len(entries) \in Nat
      /\ Len(entries) <= Len(entries')
      /\ \A i \in DOMAIN entries : i \in DOMAIN entries' /\ entries'[i] = entries[i]
      /\ PostedBalanced' /\ ReversalMirrors'
  <2>1. entries' = entries \o adds[r]
    BY DEF CreateEntrySave
  <2> HIDE DEF IInv
  <2>2. Len(entries') = Len(entries) + Len(adds[r]) /\ Len(adds[r]) \in Nat
    BY <1>1, <1>2, <2>1, AppendEntries
  <2> QED BY <1>1, <1>2, <2>1, <2>2, AppendEntries
<1>4. periods' = periods /\ active' = active /\ today' = today /\ published' = published
  BY DEF CreateEntrySave
<1>5. TypeOK' /\ Frame(r) /\ InFlightOf(r)'
  BY <1>3, <1>4, RespondEffect DEF CreateEntrySave, IInv, TypeOK
<1>6. Grows
  <2>1. Len(periods) \in Nat
    BY LenProperties DEF IInv, TypeOK
  <2> QED BY <1>3, <1>4, <2>1 DEF Grows
<1>7. InFlight'
  BY <1>5, <1>6, InFlightFrame DEF IInv
<1>8. PublishedCommitted' /\ OpeningEntryLinked'
  BY <1>3, <1>4 DEF IInv, PublishedCommitted, OpeningEntryLinked
<1> QED BY <1>3, <1>5, <1>7, <1>8 DEF IInv

\* PostJournalEntry's SaveChanges posts an entry whose lines are balanced.
LEMMA PostEntrySaveStep ==
    ASSUME IInv, NEW r \in Requests, PostEntrySave(r)
    PROVE  IInv'
<1> DEFINE t == target[r]
<1>1. t \in DOMAIN entries /\ IsBalanced(entries[t].lines)
  BY DEF PostEntrySave, IInv, InFlight, InFlightOf
<1>2. /\ entries \in Seq(Entry) /\ Len(entries) \in Nat
      /\ DOMAIN entries = 1 .. Len(entries) /\ entries[t] \in Entry /\ t \in Nat
  BY <1>1, LenProperties, RowTypes DEF IInv, TypeOK
<1>3. entries' = [entries EXCEPT ![t] = [entries[t] EXCEPT !.status = "Posted"]]
  BY <1>1, <1>2 DEF PostEntrySave
<1>4. [entries[t] EXCEPT !.status = "Posted"] \in Entry
  BY <1>2 DEF Entry, Statuses
<1>5. /\ entries' \in Seq(Entry) /\ Len(entries') = Len(entries)
      /\ DOMAIN entries' = DOMAIN entries
  BY <1>1, <1>2, <1>3, <1>4, ExceptSeq
<1>6. \A i \in DOMAIN entries :
          /\ entries'[i].lines = entries[i].lines
          /\ entries'[i].date = entries[i].date /\ entries'[i].source = entries[i].source
          /\ entries'[i].reversedBy = entries[i].reversedBy
          /\ entries'[i].reversalOf = entries[i].reversalOf
          /\ entries'[i].status = IF i = t THEN "Posted" ELSE entries[i].status
  BY <1>2, <1>3, RowTypes DEF IInv, Entry
<1>7. /\ periods' = periods /\ active' = active /\ today' = today
      /\ published' = published /\ Proceed(r, "postPublish", t, {}, << >>)
  BY DEF PostEntrySave
<1>8. TypeOK' /\ Frame(r) /\ pc'[r] = "postPublish" /\ target'[r] = t
  <2>1. "postPublish" \in Steps /\ << >> \in Seq(Entry)
    BY DEF Steps
  <2>2. /\ pc' \in [Requests -> Steps] /\ target' \in [Requests -> Nat]
        /\ seen' \in [Requests -> SUBSET Nat] /\ adds' \in [Requests -> Seq(Entry)]
        /\ pc'[r] = "postPublish" /\ target'[r] = t /\ Frame(r)
    BY <1>2, <1>7, <2>1, ProceedEffect DEF IInv
  <2> QED BY <1>5, <1>7, <2>2 DEF IInv, TypeOK
<1>9. InFlightOf(r)'
  BY <1>1, <1>5, <1>6, <1>8 DEF InFlightOf
<1>10. Grows
  <2>1. Len(periods) \in Nat
    BY LenProperties DEF IInv, TypeOK
  <2> QED BY <1>2, <1>5, <1>6, <1>7, <2>1 DEF Grows
<1>11. InFlight'
  BY <1>8, <1>9, <1>10, InFlightFrame DEF IInv
<1>12. PostedBalanced'
  <2> SUFFICES ASSUME NEW i \in DOMAIN entries', entries'[i].status # "Draft"
               PROVE  IsBalanced(entries'[i].lines)
    BY DEF PostedBalanced, IsBalanced, TotalDebits, TotalCredits
  <2> QED BY <1>1, <1>5, <1>6 DEF IInv, PostedBalanced
<1>13. ReversalMirrors'
  <2> SUFFICES ASSUME NEW i \in DOMAIN entries'
               PROVE  /\ entries'[i].reversalOf # 0 =>
                            /\ entries'[i].reversalOf \in 1 .. i - 1
                            /\ entries'[i].lines = Swap(entries'[entries'[i].reversalOf].lines)
                            /\ entries'[entries'[i].reversalOf].reversedBy # 0
                      /\ entries'[i].reversedBy # 0 =>
                            /\ entries'[i].reversedBy \in DOMAIN entries'
                            /\ entries'[entries'[i].reversedBy].reversalOf = i
    BY DEF ReversalMirrors, Swap
  <2>1. /\ entries[i].reversalOf # 0 =>
              /\ entries[i].reversalOf \in 1 .. i - 1
              /\ entries[i].lines = Swap(entries[entries[i].reversalOf].lines)
              /\ entries[entries[i].reversalOf].reversedBy # 0
        /\ entries[i].reversedBy # 0 =>
              /\ entries[i].reversedBy \in DOMAIN entries
              /\ entries[entries[i].reversedBy].reversalOf = i
    BY <1>5 DEF IInv, ReversalMirrors
  <2>2. entries[i].reversalOf # 0 => entries[i].reversalOf \in DOMAIN entries
    BY <1>2, <1>5, <2>1
  <2> QED BY <1>5, <1>6, <2>1, <2>2
<1>14. PublishedCommitted' /\ OpeningEntryLinked'
  BY <1>5, <1>6, <1>7 DEF IInv, PublishedCommitted, OpeningEntryLinked
<1> QED BY <1>8, <1>11, <1>12, <1>13, <1>14 DEF IInv

\* PostJournalEntry's event is about an entry that is no longer a draft.
LEMMA PostEntryPublishStep ==
    ASSUME IInv, NEW r \in Requests, PostEntryPublish(r)
    PROVE  IInv'
<1>1. /\ entries' = entries /\ periods' = periods /\ active' = active /\ today' = today
      /\ published' = published \cup {[name |-> "journal_entry.posted", id |-> target[r]]}
      /\ Respond(r)
  BY DEF PostEntryPublish, db
<1>2. target[r] \in Nat /\ target[r] \in DOMAIN entries /\ entries[target[r]].status # "Draft"
  BY DEF PostEntryPublish, IInv, TypeOK, InFlight, InFlightOf
<1>3. TypeOK' /\ Frame(r) /\ InFlightOf(r)'
  BY <1>1, <1>2, RespondEffect DEF IInv, TypeOK, Event
<1>4. Grows
  <2>1. Len(entries) \in Nat /\ Len(periods) \in Nat
    BY LenProperties DEF IInv, TypeOK
  <2> QED BY <1>1, <2>1 DEF Grows
<1>5. InFlight'
  BY <1>3, <1>4, InFlightFrame DEF IInv
<1>6. PublishedCommitted'
  BY <1>1, <1>2 DEF IInv, PublishedCommitted
<1>7. PostedBalanced' /\ ReversalMirrors' /\ OpeningEntryLinked'
  BY <1>1 DEF IInv, PostedBalanced, ReversalMirrors, OpeningEntryLinked
<1> QED BY <1>3, <1>5, <1>6, <1>7 DEF IInv

\* CloseFiscalPeriod's event is about a period that is closed.
LEMMA ClosePeriodPublishStep ==
    ASSUME IInv, NEW r \in Requests, ClosePeriodPublish(r)
    PROVE  IInv'
<1>1. /\ entries' = entries /\ periods' = periods /\ active' = active /\ today' = today
      /\ published' = published \cup {[name |-> "fiscal_period.closed", id |-> target[r]]}
      /\ Respond(r)
  BY DEF ClosePeriodPublish, db
<1>2. target[r] \in Nat /\ target[r] \in DOMAIN periods /\ periods[target[r]].status = "Closed"
  BY DEF ClosePeriodPublish, IInv, TypeOK, InFlight, InFlightOf
<1>3. TypeOK' /\ Frame(r) /\ InFlightOf(r)'
  BY <1>1, <1>2, RespondEffect DEF IInv, TypeOK, Event
<1>4. Grows
  <2>1. Len(entries) \in Nat /\ Len(periods) \in Nat
    BY LenProperties DEF IInv, TypeOK
  <2> QED BY <1>1, <2>1 DEF Grows
<1>5. InFlight'
  BY <1>3, <1>4, InFlightFrame DEF IInv
<1>6. PublishedCommitted'
  BY <1>1, <1>2 DEF IInv, PublishedCommitted
<1>7. PostedBalanced' /\ ReversalMirrors' /\ OpeningEntryLinked'
  BY <1>1 DEF IInv, PostedBalanced, ReversalMirrors, OpeningEntryLinked
<1> QED BY <1>3, <1>5, <1>6, <1>7 DEF IInv

\* Account.Update touches neither entries nor periods.
LEMMA UpdateAccountStep ==
    ASSUME IInv, NEW r \in Requests, NEW a \in PatchedAccounts, NEW isActive \in BOOLEAN,
           UpdateAccount(r, a, isActive)
    PROVE  IInv'
<1>1. /\ entries' = entries /\ periods' = periods /\ today' = today
      /\ published' = published /\ active' = [active EXCEPT ![a] = isActive] /\ Respond(r)
  BY DEF UpdateAccount
<1>2. active' \in [Accounts -> BOOLEAN]
  BY <1>1, LineAssumption DEF IInv, TypeOK
<1>3. TypeOK' /\ Frame(r) /\ InFlightOf(r)'
  BY <1>1, <1>2, RespondEffect DEF IInv, TypeOK
<1>4. Grows
  <2>1. Len(entries) \in Nat /\ Len(periods) \in Nat
    BY LenProperties DEF IInv, TypeOK
  <2> QED BY <1>1, <2>1 DEF Grows
<1>5. InFlight'
  BY <1>3, <1>4, InFlightFrame DEF IInv
<1>6. PostedBalanced' /\ ReversalMirrors' /\ PublishedCommitted' /\ OpeningEntryLinked'
  BY <1>1 DEF IInv, PostedBalanced, ReversalMirrors, PublishedCommitted, OpeningEntryLinked
<1> QED BY <1>3, <1>5, <1>6 DEF IInv

\* CreateFiscalPeriod appends an open period without opening entry.
LEMMA CreatePeriodStep ==
    ASSUME IInv, NEW r \in Requests, NEW range \in PeriodRanges, CreatePeriod(r, range)
    PROVE  IInv'
<1> DEFINE new == [start |-> range[1], end |-> range[2], status |-> "Open", opening |-> 0]
<1>1. /\ entries' = entries /\ active' = active /\ today' = today
      /\ published' = published /\ Respond(r)
      /\ (periods' = periods \/ periods' = Append(periods, new))
  BY DEF CreatePeriod
<1>2. new \in Period
  BY LineAssumption, BoundAssumption DEF Period
<1>3. periods \in Seq(Period) /\ Len(entries) \in Nat /\ Len(periods) \in Nat
      /\ DOMAIN periods = 1 .. Len(periods)
  BY LenProperties DEF IInv, TypeOK
<1> HIDE DEF new
<1>4. /\ periods' \in Seq(Period) /\ Len(periods) <= Len(periods')
      /\ \A p \in DOMAIN periods : p \in DOMAIN periods' /\ periods'[p] = periods[p]
      /\ \A p \in DOMAIN periods' \ DOMAIN periods : periods'[p] = new
  <2>1. CASE periods' = periods
    BY <1>3, <2>1
  <2>2. CASE periods' = Append(periods, new)
    <3>1. /\ periods' \in Seq(Period) /\ Len(periods') = Len(periods) + 1
          /\ \A p \in 1 .. Len(periods) : periods'[p] = periods[p]
          /\ periods'[Len(periods) + 1] = new
      BY <1>2, <1>3, <2>2, AppendProperties
    <3>2. DOMAIN periods' = 1 .. Len(periods) + 1
      BY <3>1, LenProperties
    <3> QED BY <1>3, <3>1, <3>2
  <2> QED BY <1>1, <2>1, <2>2
<1>5. TypeOK' /\ Frame(r) /\ InFlightOf(r)'
  BY <1>1, <1>4, RespondEffect DEF IInv, TypeOK
<1>6. Grows
  BY <1>1, <1>3, <1>4 DEF Grows
<1>7. InFlight'
  BY <1>5, <1>6, InFlightFrame DEF IInv
<1>8. OpeningEntryLinked'
  <2>1. \A p \in DOMAIN periods' : \/ p \in DOMAIN periods /\ periods'[p] = periods[p]
                                   \/ periods'[p].opening = 0
    BY <1>4 DEF new
  <2> QED BY <1>1, <2>1 DEF IInv, OpeningEntryLinked
<1>9. PostedBalanced' /\ ReversalMirrors' /\ PublishedCommitted'
  BY <1>1, <1>4 DEF IInv, PostedBalanced, ReversalMirrors, PublishedCommitted
<1> QED BY <1>5, <1>7, <1>8, <1>9 DEF IInv

\* ReverseJournalEntry's SaveChanges appends the mirror and marks the original.
LEMMA ReverseEntrySaveStep ==
    ASSUME IInv, NEW r \in Requests, ReverseEntrySave(r)
    PROVE  IInv'
<1> DEFINE t == target[r]
           n == Len(entries) + 1
           e == [entries[t] EXCEPT !.status = "Reversed", !.reversedBy = n]
           mid == [entries EXCEPT ![t] = e]
           rev == adds[r][1]
<1>1. t \in DOMAIN entries /\ IsBalanced(entries[t].lines)
  BY DEF ReverseEntrySave, IInv, InFlight, InFlightOf
<1>2. /\ Len(adds[r]) = 1 /\ rev.status = "Posted" /\ rev.reversedBy = 0
      /\ rev.reversalOf = t /\ rev.lines = Swap(entries[t].lines)
      /\ adds[r] \in Seq(Entry)
  BY DEF ReverseEntrySave, IInv, InFlight, InFlightOf, TypeOK
<1>3. /\ entries \in Seq(Entry) /\ Len(entries) \in Nat /\ n \in Nat
      /\ DOMAIN entries = 1 .. Len(entries) /\ entries[t] \in Entry /\ t \in Nat /\ t # 0
  BY <1>1, LenProperties, RowTypes DEF IInv, TypeOK
<1>4. e \in Entry /\ e.lines = entries[t].lines /\ e.date = entries[t].date
      /\ e.source = entries[t].source /\ e.reversalOf = entries[t].reversalOf
      /\ e.status = "Reversed" /\ e.reversedBy = n
  BY <1>3 DEF Entry, Statuses
<1>5. entries' = mid \o adds[r]
  BY <1>1, <1>3 DEF ReverseEntrySave
<1> HIDE DEF e
<1>6. /\ mid \in Seq(Entry) /\ Len(mid) = Len(entries)
      /\ \A i \in 1 .. Len(entries) : mid[i] = IF i = t THEN e ELSE entries[i]
  BY <1>1, <1>3, <1>4, ExceptSeq
<1> HIDE DEF mid
<1>7. /\ entries' \in Seq(Entry) /\ Len(entries') = n /\ DOMAIN entries' = 1 .. n
      /\ entries'[n] = rev
      /\ \A i \in DOMAIN entries : entries'[i] = IF i = t THEN e ELSE entries[i]
  <2>1. /\ mid \o adds[r] \in Seq(Entry)
        /\ Len(mid \o adds[r]) = Len(mid) + Len(adds[r])
        /\ DOMAIN (mid \o adds[r]) = 1 .. Len(mid) + Len(adds[r])
        /\ \A i \in 1 .. Len(mid) : (mid \o adds[r])[i] = mid[i]
        /\ \A i \in Len(mid) + 1 .. Len(mid) + Len(adds[r]) :
              (mid \o adds[r])[i] = adds[r][i - Len(mid)]
    <3>1. mid \in Seq(Entry) /\ adds[r] \in Seq(Entry)
      BY <1>2, <1>6
    <3> QED BY <3>1, ConcatRows
  <2> QED BY <1>2, <1>3, <1>5, <1>6, <2>1
<1>8. \A i \in DOMAIN entries : i \in DOMAIN entries' /\ i # n /\ i \in Nat
  BY <1>3, <1>7
<1>9. \A i \in DOMAIN entries :
          /\ entries'[i].lines = entries[i].lines /\ entries'[i].date = entries[i].date
          /\ entries'[i].source = entries[i].source
          /\ entries'[i].reversalOf = entries[i].reversalOf
          /\ entries'[i].status = IF i = t THEN "Reversed" ELSE entries[i].status
          /\ entries'[i].reversedBy = IF i = t THEN n ELSE entries[i].reversedBy
  BY <1>4, <1>7
<1>10. \A i \in DOMAIN entries' : i \in DOMAIN entries \/ i = n
  BY <1>3, <1>7
<1> HIDE DEF rev
<1>11. /\ periods' = periods /\ active' = active /\ today' = today
       /\ published' = published /\ Respond(r)
  BY DEF ReverseEntrySave
<1>12. TypeOK' /\ Frame(r) /\ InFlightOf(r)'
  BY <1>7, <1>11, RespondEffect DEF IInv, TypeOK
<1>13. Grows
  <2>1. Len(periods) \in Nat
    BY LenProperties DEF IInv, TypeOK
  <2> QED BY <1>3, <1>7, <1>9, <1>11, <2>1 DEF Grows
<1>14. InFlight'
  BY <1>12, <1>13, InFlightFrame DEF IInv
<1>15. PostedBalanced'
  <2> SUFFICES ASSUME NEW i \in DOMAIN entries', entries'[i].status # "Draft"
               PROVE  IsBalanced(entries'[i].lines)
    BY DEF PostedBalanced, IsBalanced, TotalDebits, TotalCredits
  <2>1. CASE i = n
    BY <1>1, <1>2, <1>3, <1>7, <2>1, SwapBalanced DEF Entry
  <2>2. CASE i \in DOMAIN entries
    BY <1>1, <1>9, <2>2 DEF IInv, PostedBalanced
  <2> QED BY <1>10, <2>1, <2>2
<1>16. ReversalMirrors'
  <2> SUFFICES ASSUME NEW i \in DOMAIN entries'
               PROVE  /\ entries'[i].reversalOf # 0 =>
                            /\ entries'[i].reversalOf \in 1 .. i - 1
                            /\ entries'[i].lines = Swap(entries'[entries'[i].reversalOf].lines)
                            /\ entries'[entries'[i].reversalOf].reversedBy # 0
                      /\ entries'[i].reversedBy # 0 =>
                            /\ entries'[i].reversedBy \in DOMAIN entries'
                            /\ entries'[entries'[i].reversedBy].reversalOf = i
    BY DEF ReversalMirrors, Swap
  <2>1. CASE i = n
    <3>1. t \in 1 .. n - 1 /\ n # 0
      BY <1>1, <1>3
    <3> QED BY <1>1, <1>2, <1>7, <1>9, <2>1, <3>1
  <2>2. CASE i \in DOMAIN entries
    <3>1. /\ entries[i].reversalOf # 0 =>
                /\ entries[i].reversalOf \in 1 .. i - 1
                /\ entries[i].lines = Swap(entries[entries[i].reversalOf].lines)
                /\ entries[entries[i].reversalOf].reversedBy # 0
          /\ entries[i].reversedBy # 0 =>
                /\ entries[i].reversedBy \in DOMAIN entries
                /\ entries[entries[i].reversedBy].reversalOf = i
      BY <2>2 DEF IInv, ReversalMirrors
    <3>2. entries[i].reversalOf # 0 => entries[i].reversalOf \in DOMAIN entries
      BY <1>3, <2>2, <3>1
    <3>3. n # 0 /\ n \in DOMAIN entries'
      BY <1>3, <1>7
    <3>4. entries'[i].reversalOf # 0 =>
              /\ entries'[i].reversalOf \in 1 .. i - 1
              /\ entries'[i].lines = Swap(entries'[entries'[i].reversalOf].lines)
              /\ entries'[entries'[i].reversalOf].reversedBy # 0
      BY <1>9, <2>2, <3>1, <3>2, <3>3
    <3>5. CASE i = t
      BY <1>2, <1>7, <1>9, <2>2, <3>3, <3>4, <3>5
    <3>6. CASE i # t
      BY <1>8, <1>9, <2>2, <3>1, <3>4, <3>6
    <3> QED BY <3>5, <3>6
  <2> QED BY <1>10, <2>1, <2>2
<1>17. PublishedCommitted' /\ OpeningEntryLinked'
  BY <1>8, <1>9, <1>11 DEF IInv, PublishedCommitted, OpeningEntryLinked
<1> QED BY <1>12, <1>14, <1>15, <1>16, <1>17 DEF IInv

\* CloseFiscalPeriod's SaveChanges appends its entries and links the opening one.
LEMMA ClosePeriodSaveStep ==
    ASSUME IInv, NEW r \in Requests, ClosePeriodSave(r)
    PROVE  IInv'
<1> DEFINE t == target[r]
           new == adds[r]
           P == [periods[t] EXCEPT !.status = "Closed", !.opening = OpeningId(r)]
<1>1. /\ t \in DOMAIN periods /\ new \in Seq(Entry)
      /\ \A k \in DOMAIN new :
            /\ new[k].status = "Posted" /\ IsBalanced(new[k].lines)
            /\ new[k].reversedBy = 0 /\ new[k].reversalOf = 0
            /\ new[k].source = "period_open" =>
                  k = Len(new) /\ new[k].date = periods[t].end + 1
  BY DEF ClosePeriodSave, IInv, TypeOK, InFlight, InFlightOf
<1>2. entries' = entries \o new
  BY DEF ClosePeriodSave
<1>3. /\ entries' \in Seq(Entry) /\ Len(entries) \in Nat /\ Len(new) \in Nat
      /\ DOMAIN entries = 1 .. Len(entries)
      /\ Len(entries') = Len(entries) + Len(new) /\ DOMAIN entries' = 1 .. Len(entries')
      /\ \A i \in DOMAIN entries : i \in DOMAIN entries' /\ entries'[i] = entries[i]
      /\ \A i \in DOMAIN entries' \ DOMAIN entries :
            i - Len(entries) \in DOMAIN new /\ entries'[i] = new[i - Len(entries)]
      /\ PostedBalanced' /\ ReversalMirrors'
  <2> HIDE DEF IInv, new
  <2> QED BY <1>1, <1>2, AppendEntries
<1>4. /\ periods \in Seq(Period) /\ Len(periods) \in Nat
      /\ DOMAIN periods = 1 .. Len(periods) /\ periods[t] \in Period /\ t \in Nat
  BY <1>1, LenProperties, RowTypes DEF IInv, TypeOK
<1>5. /\ OpeningId(r) \in Nat
      /\ \/ OpeningId(r) = periods[t].opening
         \/ /\ OpeningId(r) \in DOMAIN entries'
            /\ entries'[OpeningId(r)].source = "period_open"
            /\ entries'[OpeningId(r)].date = periods[t].end + 1
            /\ entries'[OpeningId(r)].status # "Draft"
  <2>1. CASE \E k \in DOMAIN new : new[k].source = "period_open"
    <3>1. PICK k \in DOMAIN new : new[k].source = "period_open"
      BY <2>1
    <3>2. k = Len(new) /\ k \in 1 .. Len(new) /\ new[k].status = "Posted"
          /\ new[k].date = periods[t].end + 1
      BY <1>1, <3>1, LenProperties
    <3>3. OpeningId(r) = Len(entries) + Len(new)
      BY <2>1 DEF OpeningId
    <3>4. /\ OpeningId(r) \in DOMAIN entries' \ DOMAIN entries
          /\ OpeningId(r) - Len(entries) = k
      BY <1>3, <3>2, <3>3
    <3>5. entries'[OpeningId(r)] = new[k]
      BY <1>3, <3>4
    <3> QED BY <1>3, <3>1, <3>2, <3>3, <3>4, <3>5
  <2>2. CASE ~\E k \in DOMAIN new : new[k].source = "period_open"
    BY <1>4, <2>2 DEF OpeningId, Period
  <2> QED BY <2>1, <2>2
<1>6. P \in Period /\ P.status = "Closed" /\ P.opening = OpeningId(r) /\ P.end = periods[t].end
  BY <1>4, <1>5 DEF Period
<1>7. periods' = [periods EXCEPT ![t] = P]
  BY <1>1, <1>4 DEF ClosePeriodSave
<1> HIDE DEF P
<1>8. /\ periods' \in Seq(Period) /\ Len(periods') = Len(periods)
      /\ DOMAIN periods' = DOMAIN periods
      /\ \A p \in DOMAIN periods : periods'[p] = IF p = t THEN P ELSE periods[p]
  <2>1. /\ periods' \in Seq(Period) /\ Len(periods') = Len(periods)
        /\ \A p \in 1 .. Len(periods) : periods'[p] = IF p = t THEN P ELSE periods[p]
    BY <1>1, <1>4, <1>6, <1>7, ExceptSeq
  <2> QED BY <1>4, <1>7, <2>1
<1>9. /\ active' = active /\ today' = today /\ published' = published
      /\ Proceed(r, "closePublish", t, {}, << >>)
  BY DEF ClosePeriodSave
<1>10. TypeOK' /\ Frame(r) /\ pc'[r] = "closePublish" /\ target'[r] = t
  <2>1. "closePublish" \in Steps /\ << >> \in Seq(Entry)
    BY DEF Steps
  <2>2. /\ pc' \in [Requests -> Steps] /\ target' \in [Requests -> Nat]
        /\ seen' \in [Requests -> SUBSET Nat] /\ adds' \in [Requests -> Seq(Entry)]
        /\ pc'[r] = "closePublish" /\ target'[r] = t /\ Frame(r)
    BY <1>4, <1>9, <2>1, ProceedEffect DEF IInv
  <2> QED BY <1>3, <1>8, <1>9, <2>2 DEF IInv, TypeOK
<1>11. InFlightOf(r)'
  BY <1>1, <1>6, <1>8, <1>10 DEF InFlightOf
<1>12. Grows
  <2>1. Len(entries) <= Len(entries') /\ Len(periods) <= Len(periods')
    BY <1>3, <1>4, <1>8
  <2>2. \A p \in DOMAIN periods :
            /\ periods'[p].end = periods[p].end
            /\ periods[p].status = "Closed" => periods'[p].status = "Closed"
    BY <1>6, <1>8
  <2> QED BY <1>3, <2>1, <2>2 DEF Grows
<1>13. InFlight'
  BY <1>10, <1>11, <1>12, InFlightFrame DEF IInv
<1>14. PublishedCommitted'
  BY <1>3, <1>6, <1>8, <1>9 DEF IInv, PublishedCommitted
<1>15. OpeningEntryLinked'
  <2> SUFFICES ASSUME NEW p \in DOMAIN periods', periods'[p].opening # 0
               PROVE  /\ periods'[p].opening \in DOMAIN entries'
                      /\ entries'[periods'[p].opening].source = "period_open"
                      /\ entries'[periods'[p].opening].date = periods'[p].end + 1
                      /\ entries'[periods'[p].opening].status # "Draft"
    BY DEF OpeningEntryLinked
  <2>1. CASE periods'[p].opening = periods[p].opening
    <3>1. /\ periods[p].opening \in DOMAIN entries
          /\ entries[periods[p].opening].source = "period_open"
          /\ entries[periods[p].opening].date = periods[p].end + 1
          /\ entries[periods[p].opening].status # "Draft"
      BY <1>8, <2>1 DEF IInv, OpeningEntryLinked
    <3>2. periods'[p].end = periods[p].end
      BY <1>6, <1>8
    <3> QED BY <1>3, <2>1, <3>1, <3>2
  <2>2. CASE periods'[p].opening # periods[p].opening
    BY <1>5, <1>6, <1>8, <2>2
  <2> QED BY <2>1, <2>2
<1> QED BY <1>3, <1>10, <1>13, <1>14, <1>15 DEF IInv

\* The clock changes no table.
LEMMA TickStep ==
    ASSUME IInv, Tick
    PROVE  IInv'
<1>1. TypeOK'
  BY BoundAssumption DEF IInv, TypeOK, Tick, db, request
<1>2. InFlight'
  BY DEF IInv, InFlight, InFlightOf, Tick, db, request
<1>3. PostedBalanced' /\ ReversalMirrors' /\ PublishedCommitted' /\ OpeningEntryLinked'
  BY DEF IInv, PostedBalanced, ReversalMirrors, PublishedCommitted, OpeningEntryLinked,
         Tick, db
<1> QED BY <1>1, <1>2, <1>3 DEF IInv

-----------------------------------------------------------------------------
(* The theorems.                                                           *)

\* The invariant holds of the empty ledger and every step of every request keeps
\* it: IInv is inductive.
THEOREM InductiveInvariant == Spec => []IInv
<1>1. Init => IInv
  <2> SUFFICES ASSUME Init PROVE IInv
    OBVIOUS
  <2>1. TypeOK
    BY BoundAssumption DEF Init, TypeOK, Steps
  <2>2. PostedBalanced /\ ReversalMirrors /\ PublishedCommitted /\ OpeningEntryLinked
    BY DEF Init, PostedBalanced, ReversalMirrors, PublishedCommitted, OpeningEntryLinked
  <2>3. InFlight
    BY DEF Init, InFlight, InFlightOf
  <2> QED BY <2>1, <2>2, <2>3 DEF IInv
<1>2. IInv /\ [Next]_vars => IInv'
  <2> SUFFICES ASSUME IInv, [Next]_vars PROVE IInv'
    OBVIOUS
  <2>1. CASE Tick
    BY <2>1, TickStep
  <2>2. ASSUME NEW r \in Requests, RequestStep(r) PROVE IInv'
    BY <2>2, CreateEntryStep, CreateEntrySaveStep, PostEntryStep, PostEntrySaveStep,
       PostEntryPublishStep, ReverseEntryStep, ReverseEntrySaveStep, CreatePeriodStep,
       ClosePeriodStep, ClosePeriodReadEntriesStep, ClosePeriodReadAccountsStep,
       ClosePeriodSaveStep, ClosePeriodPublishStep, AbortStep, UpdateAccountStep
    DEF RequestStep
  <2>3. CASE UNCHANGED vars
    BY <2>3 DEF IInv, TypeOK, PostedBalanced, ReversalMirrors, PublishedCommitted,
       OpeningEntryLinked, InFlight, InFlightOf, vars, db, request
  <2> QED BY <2>1, <2>2, <2>3 DEF Next
<1> QED BY <1>1, <1>2, PTL DEF Spec

\* Type correctness of the ledger, for every set of requests.
THEOREM TypeCorrect == Spec => []TypeOK
BY InductiveInvariant, PTL DEF IInv

\* Double entry: however requests interleave and fail, posted and reversed
\* entries are balanced.
THEOREM JournalBalanced == Spec => []PostedBalanced
BY InductiveInvariant, PTL DEF IInv

\* However many requests reverse an entry at once, each reversal mirrors it and
\* the entry points to one of them.
THEOREM ReversalsMirror == Spec => []ReversalMirrors
BY InductiveInvariant, PTL DEF IInv

\* No event is sent for an entry or a period whose change is not committed.
THEOREM EventsCommitted == Spec => []PublishedCommitted
BY InductiveInvariant, PTL DEF IInv

\* The opening entry of a period is a posted opening entry of the next day.
THEOREM OpeningLinked == Spec => []OpeningEntryLinked
BY InductiveInvariant, PTL DEF IInv

\* What a handler checked on its loaded copy and still relies on when it saves is
\* true of the database then, whatever other requests saved between its awaits.
THEOREM HandlersConsistent == Spec => []InFlight
BY InductiveInvariant, PTL DEF IInv

-----------------------------------------------------------------------------
(* The trial balance.                                                      *)

\* The journal is a finite table of entries with integer amounts.
LEMMA JournalFinite ==
    ASSUME TypeOK
    PROVE  /\ IsFiniteSet(DOMAIN entries) /\ IsFiniteSet(Accounts)
           /\ \A ids \in SUBSET DOMAIN entries : IsFiniteSet(ids)
           /\ \A i \in DOMAIN entries, a \in Accounts :
                 entries[i].lines[a].debit \in Int /\ entries[i].lines[a].credit \in Int
  <1>1. DOMAIN entries = 1 .. Len(entries) /\ Len(entries) \in Nat
    BY DEF TypeOK
  <1>2. IsFiniteSet(DOMAIN entries)
    BY <1>1, FS_Interval
  <1>3. \A i \in DOMAIN entries : entries[i].lines \in Lines
    <2>1. \A i \in DOMAIN entries : entries[i] \in Entry
      BY DEF TypeOK
    <2> QED
      BY <2>1 DEF Entry
  <1>4. \A i \in DOMAIN entries, a \in Accounts :
            entries[i].lines[a].debit \in Int /\ entries[i].lines[a].credit \in Int
    BY <1>3, BoundAssumption DEF Lines, Amounts
  <1> QED
    BY <1>2, <1>4, ChartAssumption, FS_Subset

\* The debit column, added account by account, is the sum of the entries' totals.
LEMMA DebitsByEntry ==
    ASSUME TypeOK, NEW ids \in SUBSET DOMAIN entries
    PROVE  SumFunction([a \in Accounts |-> Debits(a, ids)])
         = SumFunctionOnSet([i \in DOMAIN entries |-> TotalDebits(entries[i].lines)], ids)
  <1> DEFINE F == [a \in Accounts |-> [i \in DOMAIN entries |-> entries[i].lines[a].debit]]
  <1>1. F \in [Accounts -> [DOMAIN entries -> Int]]
    BY JournalFinite
  <1>2. SumFunctionOnSet([a \in Accounts |-> SumFunctionOnSet(F[a], ids)], Accounts)
      = SumFunctionOnSet([i \in DOMAIN entries |->
            SumFunctionOnSet([a \in Accounts |-> F[a][i]], Accounts)], ids)
    <2>1. PICK I : I = DOMAIN entries
      OBVIOUS
    <2>2. IsFiniteSet(Accounts) /\ IsFiniteSet(I) /\ ids \in SUBSET I
      BY <2>1, JournalFinite
    <2>3. F \in [Accounts -> [I -> Int]]
      BY <1>1, <2>1
    <2> HIDE DEF F
    <2>4. SumFunctionOnSet([a \in Accounts |-> SumFunctionOnSet(F[a], ids)], Accounts)
        = SumFunctionOnSet([i \in I |->
              SumFunctionOnSet([a \in Accounts |-> F[a][i]], Accounts)], ids)
      BY <2>2, <2>3, SumExchange
    <2> QED
      BY <2>1, <2>4
  <1>3. [a \in Accounts |-> SumFunctionOnSet(F[a], ids)] = [a \in Accounts |-> Debits(a, ids)]
    BY DEF Debits
  <1>4. \A i \in DOMAIN entries :
            SumFunctionOnSet([a \in Accounts |-> F[a][i]], Accounts) = TotalDebits(entries[i].lines)
    <2> TAKE i \in DOMAIN entries
    <2>1. [a \in Accounts |-> F[a][i]] = [a \in Accounts |-> entries[i].lines[a].debit]
      OBVIOUS
    <2> QED
      BY <2>1 DEF TotalDebits, SumFunction
  <1> HIDE DEF F
  <1> QED
    BY <1>2, <1>3, <1>4 DEF SumFunction

\* The same of the credit column.
LEMMA CreditsByEntry ==
    ASSUME TypeOK, NEW ids \in SUBSET DOMAIN entries
    PROVE  SumFunction([a \in Accounts |-> Credits(a, ids)])
         = SumFunctionOnSet([i \in DOMAIN entries |-> TotalCredits(entries[i].lines)], ids)
  <1> DEFINE F == [a \in Accounts |-> [i \in DOMAIN entries |-> entries[i].lines[a].credit]]
  <1>1. F \in [Accounts -> [DOMAIN entries -> Int]]
    BY JournalFinite
  <1>2. SumFunctionOnSet([a \in Accounts |-> SumFunctionOnSet(F[a], ids)], Accounts)
      = SumFunctionOnSet([i \in DOMAIN entries |->
            SumFunctionOnSet([a \in Accounts |-> F[a][i]], Accounts)], ids)
    <2>1. PICK I : I = DOMAIN entries
      OBVIOUS
    <2>2. IsFiniteSet(Accounts) /\ IsFiniteSet(I) /\ ids \in SUBSET I
      BY <2>1, JournalFinite
    <2>3. F \in [Accounts -> [I -> Int]]
      BY <1>1, <2>1
    <2> HIDE DEF F
    <2>4. SumFunctionOnSet([a \in Accounts |-> SumFunctionOnSet(F[a], ids)], Accounts)
        = SumFunctionOnSet([i \in I |->
              SumFunctionOnSet([a \in Accounts |-> F[a][i]], Accounts)], ids)
      BY <2>2, <2>3, SumExchange
    <2> QED
      BY <2>1, <2>4
  <1>3. [a \in Accounts |-> SumFunctionOnSet(F[a], ids)] = [a \in Accounts |-> Credits(a, ids)]
    BY DEF Credits
  <1>4. \A i \in DOMAIN entries :
            SumFunctionOnSet([a \in Accounts |-> F[a][i]], Accounts) = TotalCredits(entries[i].lines)
    <2> TAKE i \in DOMAIN entries
    <2>1. [a \in Accounts |-> F[a][i]] = [a \in Accounts |-> entries[i].lines[a].credit]
      OBVIOUS
    <2> QED
      BY <2>1 DEF TotalCredits, SumFunction
  <1> HIDE DEF F
  <1> QED
    BY <1>2, <1>3, <1>4 DEF SumFunction

\* A journal whose posted entries balance has a trial balance that balances.
LEMMA BalancedColumns ==
    ASSUME TypeOK, PostedBalanced
    PROVE  TrialBalanceBalances
  <1> SUFFICES ASSUME NEW date \in 0 .. MaxDate + 1
               PROVE  TrialBalanceDebits(date) = TrialBalanceCredits(date)
    BY DEF TrialBalanceBalances
  <1> DEFINE ids == PostedUpTo(date)
             D == [i \in DOMAIN entries |-> TotalDebits(entries[i].lines)]
             C == [i \in DOMAIN entries |-> TotalCredits(entries[i].lines)]
  <1>1. ids \in SUBSET DOMAIN entries /\ \A i \in ids : entries[i].status = "Posted"
    BY DEF PostedUpTo, WithStatus, InRange
  <1>2. \A i \in ids : D[i] = C[i]
    BY <1>1 DEF PostedBalanced, IsBalanced
  <1>3. SumFunctionOnSet(D, ids) = SumFunctionOnSet(C, ids)
    <2>1. IsFiniteSet(ids)
      BY <1>1, JournalFinite
    <2> HIDE DEF ids, D, C
    <2> QED BY <1>2, <2>1, SumCongruent
  <1>4. TrialBalanceDebits(date) = SumFunctionOnSet(D, ids)
    <2> HIDE DEF ids
    <2>1. SumFunction([a \in Accounts |-> Debits(a, ids)]) = SumFunctionOnSet(D, ids)
      BY <1>1, DebitsByEntry
    <2> QED BY <2>1 DEF TrialBalanceDebits, ids
  <1>5. TrialBalanceCredits(date) = SumFunctionOnSet(C, ids)
    <2> HIDE DEF ids
    <2>1. SumFunction([a \in Accounts |-> Credits(a, ids)]) = SumFunctionOnSet(C, ids)
      BY <1>1, CreditsByEntry
    <2> QED BY <2>1 DEF TrialBalanceCredits, ids
  <1> QED
    BY <1>3, <1>4, <1>5

\* GetTrialBalance: as of every date the debits of all accounts equal their
\* credits, whatever requests race.
THEOREM TrialBalanceHolds == Spec => []TrialBalanceBalances
  <1>1. IInv => TrialBalanceBalances
    BY BalancedColumns DEF IInv
  <1> QED
    BY <1>1, InductiveInvariant, PTL

-----------------------------------------------------------------------------
(* The rules the code keeps while handlers do not overlap.                 *)

\* At most one request is inside its handler.  Steps that are a whole handler
\* (a period is created, an account patched, a request refused) may still come
\* between the awaits of that one.
OneAtATime == \A r, q \in Requests : pc[r] # "idle" /\ pc[q] # "idle" => r = q

\* What a handler checked when it loaded is still so: the part of it that
\* InFlight leaves out, because another handler may undo it.
StillSo(r) ==
    /\ pc[r] = "create" /\ adds[r][1].period # 0 =>
           /\ adds[r][1].period \in DOMAIN periods
           /\ periods[adds[r][1].period].status = "Open"
    /\ pc[r] = "post" => entries[target[r]].status = "Draft"
    /\ pc[r] = "reverse" =>
           /\ entries[target[r]].status = "Posted" /\ entries[target[r]].reversedBy = 0
           /\ adds[r][1].period = 0
    /\ pc[r] \in {"closeEntries", "closeAccounts", "close"} =>
           periods[target[r]].status = "Open"
    /\ pc[r] = "close" => \A k \in DOMAIN adds[r] : adds[r][k].period \in {0, target[r]}

SerialInv == AtMostOneReversal /\ \A r \in Requests : StillSo(r)

\* Only a draft becomes a posted entry.
PostsOnlyDrafts ==
    \A i \in DOMAIN entries :
        entries[i].status # "Posted" /\ entries'[i].status = "Posted"
            => entries[i].status = "Draft"

\* An entry is added only to an open period.
AddsOnlyToOpen ==
    \A i \in DOMAIN entries' \ DOMAIN entries :
        entries'[i].period # 0 => periods[entries'[i].period].status = "Open"

\* A step that leaves the journal alone and at most adds a period.
LEMMA LeavesJournal ==
    ASSUME IInv, SerialInv, NEW r \in Requests, Frame(r), StillSo(r)',
           entries' = entries,
           \A p \in DOMAIN periods : p \in DOMAIN periods' /\ periods'[p] = periods[p]
    PROVE  SerialInv' /\ PostsOnlyDrafts /\ AddsOnlyToOpen
<1>1. ASSUME NEW q \in Requests, q # r PROVE StillSo(q)'
  <2>1. pc'[q] = pc[q] /\ target'[q] = target[q] /\ adds'[q] = adds[q]
    BY <1>1 DEF Frame
  <2>2. StillSo(q)
    BY DEF SerialInv
  <2>3. pc[q] \in {"closeEntries", "closeAccounts", "close"} => target[q] \in DOMAIN periods
    BY DEF IInv, InFlight, InFlightOf
  <2> QED BY <2>1, <2>2, <2>3 DEF StillSo
<1>2. \A q \in Requests : StillSo(q)'
  BY <1>1
<1>3. AtMostOneReversal'
  BY DEF SerialInv, AtMostOneReversal
<1> QED BY <1>2, <1>3 DEF SerialInv, PostsOnlyDrafts, AddsOnlyToOpen

\* After a save no handler is left with something to save.
LEMMA NothingPending ==
    ASSUME OneAtATime, NEW r \in Requests, pc[r] # "idle", Frame(r),
           pc'[r] \in {"idle", "postPublish", "closePublish"}
    PROVE  \A q \in Requests : StillSo(q)'
<1> SUFFICES ASSUME NEW q \in Requests PROVE StillSo(q)'
  OBVIOUS
<1>1. pc'[q] \in {"idle", "postPublish", "closePublish"}
  BY DEF OneAtATime, Frame
<1> QED BY <1>1 DEF StillSo

\* CreateJournalEntry, load: the period exists and is open.
LEMMA SerialCreateEntry ==
    ASSUME IInv, SerialInv, NEW r \in Requests, NEW d \in 1 .. MaxDate,
           NEW p \in 0 .. Len(periods) + 1, NEW l \in LineSets, CreateEntry(r, d, p, l)
    PROVE  SerialInv' /\ PostsOnlyDrafts /\ AddsOnlyToOpen
<1> DEFINE e == NewEntry(d, p, l, "none")
<1>1. d \in Nat /\ p \in Nat /\ l \in Lines /\ "none" \in Sources /\ "create" \in Steps
  BY LenProperties, BoundAssumption, LineAssumption DEF IInv, TypeOK, Sources, Steps
<1>2. <<e>> \in Seq(Entry) /\ Len(<<e>>) = 1 /\ <<e>>[1] = e
  BY <1>1, NewEntryType, SingletonRow
<1>3. e.period = p
  BY DEF NewEntry
<1> HIDE DEF e
<1>4. entries' = entries /\ periods' = periods
  BY DEF CreateEntry, db
<1>5. CASE PeriodCheck(p) = "OK" /\ Proceed(r, "create", p, {}, <<e>>)
  <2>1. pc'[r] = "create" /\ adds'[r] = <<e>> /\ Frame(r)
    BY <1>1, <1>2, <1>5, ProceedEffect DEF IInv
  <2>2. p # 0 => p \in DOMAIN periods /\ periods[p].status = "Open"
    BY <1>5 DEF PeriodCheck
  <2>3. adds'[r][1].period = p
    BY <1>2, <1>3, <2>1
  <2>4. StillSo(r)'
    BY <1>4, <2>1, <2>2, <2>3 DEF StillSo
  <2> QED BY <1>4, <2>1, <2>4, LeavesJournal
<1>6. CASE Respond(r)
  <2>1. pc'[r] = "idle" /\ Frame(r)
    BY <1>6, RespondEffect DEF IInv
  <2> QED BY <1>4, <2>1, LeavesJournal DEF StillSo
<1> QED BY <1>5, <1>6 DEF CreateEntry, e

\* PostJournalEntry, load: the entry is a draft.
LEMMA SerialPostEntry ==
    ASSUME IInv, SerialInv, NEW r \in Requests, NEW i \in 1 .. Len(entries) + 1,
           PostEntry(r, i)
    PROVE  SerialInv' /\ PostsOnlyDrafts /\ AddsOnlyToOpen
<1>1. i \in Nat /\ "post" \in Steps /\ << >> \in Seq(Entry)
  BY LenProperties DEF IInv, TypeOK, Steps
<1>2. entries' = entries /\ periods' = periods
  BY DEF PostEntry, db
<1>3. CASE Proceed(r, "post", i, {}, << >>) /\ PostCheck(entries[i]) = "OK"
  <2>1. pc'[r] = "post" /\ target'[r] = i /\ Frame(r)
    BY <1>1, <1>3, ProceedEffect DEF IInv
  <2>2. entries[i].status = "Draft"
    BY <1>3 DEF PostCheck
  <2>3. StillSo(r)'
    BY <1>2, <2>1, <2>2 DEF StillSo
  <2> QED BY <1>2, <2>1, <2>3, LeavesJournal
<1>4. CASE Respond(r)
  <2>1. pc'[r] = "idle" /\ Frame(r)
    BY <1>4, RespondEffect DEF IInv
  <2> QED BY <1>2, <2>1, LeavesJournal DEF StillSo
<1> QED BY <1>3, <1>4 DEF PostEntry

\* ReverseJournalEntry, load: the entry is posted and not reversed.
LEMMA SerialReverseEntry ==
    ASSUME IInv, SerialInv, NEW r \in Requests, NEW i \in 1 .. Len(entries) + 1,
           ReverseEntry(r, i)
    PROVE  SerialInv' /\ PostsOnlyDrafts /\ AddsOnlyToOpen
<1>1. i \in Nat /\ "reverse" \in Steps
  BY LenProperties DEF IInv, TypeOK, Steps
<1>2. entries' = entries /\ periods' = periods
  BY DEF ReverseEntry, db
<1>3. CASE Proceed(r, "reverse", i, {}, <<Reversal(i)>>) /\ i \in DOMAIN entries
           /\ ReversalCheck(entries[i]) = "OK"
  <2>1. entries[i] \in Entry /\ entries[i].lines \in Lines
    BY <1>3, RowTypes DEF IInv, Entry
  <2>2. Reversal(i) \in Entry
    BY <1>1, <2>1, SwapType, BoundAssumption
    DEF Reversal, Entry, Statuses, Sources, IInv, TypeOK
  <2>3. <<Reversal(i)>> \in Seq(Entry) /\ <<Reversal(i)>>[1] = Reversal(i)
    BY <2>2, SingletonRow
  <2>4. pc'[r] = "reverse" /\ target'[r] = i /\ adds'[r] = <<Reversal(i)>> /\ Frame(r)
    BY <1>1, <1>3, <2>3, ProceedEffect DEF IInv
  <2>5. adds'[r][1].period = 0
    BY <2>3, <2>4 DEF Reversal
  <2>6. entries[i].status = "Posted" /\ entries[i].reversedBy = 0
    BY <1>3 DEF ReversalCheck
  <2>7. StillSo(r)'
    BY <1>2, <2>4, <2>5, <2>6 DEF StillSo
  <2> QED BY <1>2, <2>4, <2>7, LeavesJournal
<1>4. CASE Respond(r)
  <2>1. pc'[r] = "idle" /\ Frame(r)
    BY <1>4, RespondEffect DEF IInv
  <2> QED BY <1>2, <2>1, LeavesJournal DEF StillSo
<1> QED BY <1>3, <1>4 DEF ReverseEntry

\* CloseFiscalPeriod, load: the period is open.
LEMMA SerialClosePeriod ==
    ASSUME IInv, SerialInv, NEW r \in Requests, NEW p \in 1 .. Len(periods) + 1,
           ClosePeriod(r, p)
    PROVE  SerialInv' /\ PostsOnlyDrafts /\ AddsOnlyToOpen
<1>1. p \in Nat /\ p # 0 /\ "closeEntries" \in Steps /\ << >> \in Seq(Entry)
  BY LenProperties DEF IInv, TypeOK, Steps
<1>2. entries' = entries /\ periods' = periods
  BY DEF ClosePeriod, db
<1>3. CASE Proceed(r, "closeEntries", p, {}, << >>) /\ PeriodCheck(p) = "OK"
  <2>1. pc'[r] = "closeEntries" /\ target'[r] = p /\ Frame(r)
    BY <1>1, <1>3, ProceedEffect DEF IInv
  <2>2. periods[p].status = "Open"
    BY <1>1, <1>3 DEF PeriodCheck
  <2>3. StillSo(r)'
    BY <1>2, <2>1, <2>2 DEF StillSo
  <2> QED BY <1>2, <2>1, <2>3, LeavesJournal
<1>4. CASE Respond(r)
  <2>1. pc'[r] = "idle" /\ Frame(r)
    BY <1>4, RespondEffect DEF IInv
  <2> QED BY <1>2, <2>1, LeavesJournal DEF StillSo
<1> QED BY <1>1, <1>3, <1>4 DEF ClosePeriod

\* CloseFiscalPeriod, reading the entries.
LEMMA SerialReadEntries ==
    ASSUME IInv, SerialInv, NEW r \in Requests, ClosePeriodReadEntries(r)
    PROVE  SerialInv' /\ PostsOnlyDrafts /\ AddsOnlyToOpen
<1> DEFINE p == target[r]
           ids == WithStatus(InRange(periods[p].start, periods[p].end), "Posted")
<1>1. p \in Nat /\ periods[p].status = "Open"
  BY DEF IInv, TypeOK, SerialInv, StillSo, ClosePeriodReadEntries
<1>2. ids \in SUBSET Nat /\ "closeAccounts" \in Steps /\ << >> \in Seq(Entry)
  BY LenProperties DEF IInv, TypeOK, WithStatus, InRange, Steps
<1> HIDE DEF ids
<1>3. entries' = entries /\ periods' = periods
  BY DEF ClosePeriodReadEntries, db
<1>4. CASE Proceed(r, "closeAccounts", p, ids, << >>)
  <2>1. pc'[r] = "closeAccounts" /\ target'[r] = p /\ Frame(r)
    BY <1>1, <1>2, <1>4, ProceedEffect DEF IInv
  <2>2. StillSo(r)'
    BY <1>1, <1>3, <2>1 DEF StillSo
  <2> QED BY <1>3, <2>1, <2>2, LeavesJournal
<1>5. CASE Respond(r)
  <2>1. pc'[r] = "idle" /\ Frame(r)
    BY <1>5, RespondEffect DEF IInv
  <2> QED BY <1>3, <2>1, LeavesJournal DEF StillSo
<1> QED BY <1>4, <1>5 DEF ClosePeriodReadEntries, ids

\* The entries new close period per with the lines cl: a posted closing entry of
\* its last day, if there are lines, and otherwise only entries of the day after.
ClosesWith(new, cl, per) ==
    IF cl = NoLines
    THEN \A k \in DOMAIN new : new[k].date = per.end + 1
    ELSE /\ 1 \in DOMAIN new
         /\ new[1].date = per.end /\ new[1].status = "Posted" /\ new[1].lines = cl
         /\ \A k \in DOMAIN new \ {1} : new[k].date = per.end + 1

\* The closing entry is of the period and its last day, the opening entry of no
\* period and the day after.
LEMMA CloseAddsPeriods ==
    ASSUME TypeOK, NEW p \in DOMAIN periods, NEW ids, CloseCheck(ids) = "OK"
    PROVE  LET new == ClosingEntries(p, ids) \o OpeningEntries(p, ids)
           IN /\ \A k \in DOMAIN new : new[k].period \in {0, p}
              /\ ClosesWith(new, ClosingLines(ids), periods[p])
<1> DEFINE cl == ClosingLines(ids)
           ol == OpeningLines(ids)
           c == Posted(NewEntry(periods[p].end, p, cl, "period_close"))
           o == Posted(NewEntry(periods[p].end + 1, 0, ol, "period_open"))
<1>1. cl \in Lines /\ (IsBalanced(ol) => ol \in Lines)
  <2> HIDE DEF cl, ol
  <2> QED BY DEF CloseCheck, Overflows, cl, ol
<1>2. p \in Nat /\ periods[p].end \in Nat /\ periods[p].end + 1 \in Nat
  BY RowTypes DEF Period
<1> HIDE DEF cl, ol
<1>3. c \in Entry /\ c.period = p
      /\ c.date = periods[p].end /\ c.status = "Posted" /\ c.lines = cl
  BY <1>1, <1>2 DEF Posted, NewEntry, Entry, Statuses, Sources
<1>4. (IsBalanced(ol) => o \in Entry) /\ o.period = 0 /\ o.date = periods[p].end + 1
  BY <1>1, <1>2 DEF Posted, NewEntry, Entry, Statuses, Sources
<1> HIDE DEF c, o
<1>5. \/ ClosingEntries(p, ids) = << >> /\ cl = NoLines
      \/ ClosingEntries(p, ids) = <<c>> /\ cl # NoLines
  BY DEF ClosingEntries, cl, c
<1>6. OpeningEntries(p, ids) = << >> \/ (OpeningEntries(p, ids) = <<o>> /\ o \in Entry)
  BY <1>4 DEF OpeningEntries, ol, o
<1>7. CASE ClosingEntries(p, ids) = << >> /\ cl = NoLines /\ OpeningEntries(p, ids) = << >>
  <2>1. << >> \o << >> = << >> /\ DOMAIN << >> = {}
    BY ConcatEmptySeq
  <2> QED BY <1>7, <2>1 DEF ClosesWith, cl
<1>8. CASE /\ ClosingEntries(p, ids) = << >> /\ cl = NoLines
            /\ OpeningEntries(p, ids) = <<o>> /\ o \in Entry
  <2>1. << >> \o <<o>> = <<o>>
    BY <1>8, ConcatEmptySeq, SingletonRow
  <2> QED BY <1>4, <1>8, <2>1 DEF ClosesWith, cl
<1>9. CASE ClosingEntries(p, ids) = <<c>> /\ cl # NoLines /\ OpeningEntries(p, ids) = << >>
  <2>1. <<c>> \o << >> = <<c>>
    BY <1>3, ConcatEmptySeq, SingletonRow
  <2> QED BY <1>3, <1>9, <2>1 DEF ClosesWith, cl
<1>10. CASE /\ ClosingEntries(p, ids) = <<c>> /\ cl # NoLines
             /\ OpeningEntries(p, ids) = <<o>> /\ o \in Entry
  <2> DEFINE co == <<c>> \o <<o>>
  <2>1. DOMAIN co = 1 .. 2 /\ co[1] = c /\ co[2] = o
    BY <1>3, <1>10, ConcatRows, SingletonRow
  <2> HIDE DEF co
  <2>2. \A k \in DOMAIN co : (k = 1 /\ co[k] = c) \/ (k # 1 /\ co[k] = o)
    BY <2>1
  <2> QED BY <1>3, <1>4, <1>10, <2>1, <2>2 DEF co, ClosesWith, cl
<1> QED BY <1>5, <1>6, <1>7, <1>8, <1>9, <1>10

\* CloseFiscalPeriod, building its entries.
LEMMA SerialReadAccounts ==
    ASSUME IInv, SerialInv, NEW r \in Requests, ClosePeriodReadAccounts(r)
    PROVE  SerialInv' /\ PostsOnlyDrafts /\ AddsOnlyToOpen
<1> DEFINE p == target[r]
           new == ClosingEntries(p, seen[r]) \o OpeningEntries(p, seen[r])
<1>1. p \in Nat /\ p \in DOMAIN periods /\ periods[p].status = "Open"
  BY DEF IInv, TypeOK, InFlight, InFlightOf, SerialInv, StillSo, ClosePeriodReadAccounts
<1>2. entries' = entries /\ periods' = periods
  BY DEF ClosePeriodReadAccounts, db
<1>3. CASE CloseCheck(seen[r]) = "OK" /\ Proceed(r, "close", p, {}, new)
  <2>1. new \in Seq(Entry) /\ \A k \in DOMAIN new : new[k].period \in {0, p}
    BY <1>1, <1>3, CloseAdds, CloseAddsPeriods DEF IInv
  <2> HIDE DEF new
  <2>2. "close" \in Steps
    BY DEF Steps
  <2>3. pc'[r] = "close" /\ target'[r] = p /\ adds'[r] = new /\ Frame(r)
    BY <1>1, <1>3, <2>1, <2>2, ProceedEffect DEF IInv
  <2>4. StillSo(r)'
    BY <1>1, <1>2, <2>1, <2>3 DEF StillSo
  <2> QED BY <1>2, <2>3, <2>4, LeavesJournal
<1>4. CASE Respond(r)
  <2>1. pc'[r] = "idle" /\ Frame(r)
    BY <1>4, RespondEffect DEF IInv
  <2> QED BY <1>2, <2>1, LeavesJournal DEF StillSo
<1> QED BY <1>3, <1>4 DEF ClosePeriodReadAccounts

\* The end of a handler that has saved, or failed, or saves no entry.
LEMMA SerialEnds ==
    ASSUME IInv, SerialInv, NEW r \in Requests, Respond(r), entries' = entries,
           \A p \in DOMAIN periods : p \in DOMAIN periods' /\ periods'[p] = periods[p]
    PROVE  SerialInv' /\ PostsOnlyDrafts /\ AddsOnlyToOpen
<1>1. pc'[r] = "idle" /\ Frame(r)
  BY RespondEffect DEF IInv
<1>2. StillSo(r)'
  BY <1>1 DEF StillSo
<1> QED BY <1>1, <1>2, LeavesJournal

\* CreateFiscalPeriod only adds a period.
LEMMA SerialCreatePeriod ==
    ASSUME IInv, SerialInv, NEW r \in Requests, NEW range \in PeriodRanges,
           CreatePeriod(r, range)
    PROVE  SerialInv' /\ PostsOnlyDrafts /\ AddsOnlyToOpen
<1> DEFINE new == [start |-> range[1], end |-> range[2], status |-> "Open", opening |-> 0]
<1>1. /\ entries' = entries /\ Respond(r)
      /\ (periods' = periods \/ periods' = Append(periods, new))
  BY DEF CreatePeriod
<1>2. new \in Period
  BY LineAssumption, BoundAssumption DEF Period
<1>3. periods \in Seq(Period) /\ Len(periods) \in Nat /\ DOMAIN periods = 1 .. Len(periods)
  BY LenProperties DEF IInv, TypeOK
<1> HIDE DEF new
<1>4. \A p \in DOMAIN periods : p \in DOMAIN periods' /\ periods'[p] = periods[p]
  <2>1. CASE periods' = periods
    BY <2>1
  <2>2. CASE periods' = Append(periods, new)
    <3>1. /\ periods' \in Seq(Period) /\ Len(periods') = Len(periods) + 1
          /\ \A p \in 1 .. Len(periods) : periods'[p] = periods[p]
      BY <1>2, <1>3, <2>2, AppendProperties
    <3>2. DOMAIN periods' = 1 .. Len(periods) + 1
      BY <3>1, LenProperties
    <3> QED BY <1>3, <3>1, <3>2
  <2> QED BY <1>1, <2>1, <2>2
<1> QED BY <1>1, <1>4, SerialEnds

\* Adding entries that reverse nothing leaves each entry its one reversal.
LEMMA AppendKeepsReversals ==
    ASSUME AtMostOneReversal,
           \A i \in DOMAIN entries : entries'[i].reversalOf = entries[i].reversalOf,
           \A i \in DOMAIN entries' \ DOMAIN entries : entries'[i].reversalOf = 0
    PROVE  AtMostOneReversal'
BY DEF AtMostOneReversal

\* CreateJournalEntry's SaveChanges: the period is still open.
LEMMA SerialCreateEntrySave ==
    ASSUME IInv, SerialInv, OneAtATime, NEW r \in Requests, CreateEntrySave(r)
    PROVE  SerialInv' /\ PostsOnlyDrafts /\ AddsOnlyToOpen
<1>1. /\ adds[r] \in Seq(Entry) /\ Len(adds[r]) = 1 /\ adds[r][1].status = "Draft"
      /\ adds[r][1].reversedBy = 0 /\ adds[r][1].reversalOf = 0
  BY DEF CreateEntrySave, IInv, TypeOK, InFlight, InFlightOf
<1>2. \A k \in DOMAIN adds[r] : k = 1
  <2>1. DOMAIN adds[r] = 1 .. 1
    BY <1>1, LenProperties
  <2> QED BY <2>1
<1>3. /\ \A i \in DOMAIN entries : i \in DOMAIN entries' /\ entries'[i] = entries[i]
      /\ \A i \in DOMAIN entries' \ DOMAIN entries : entries'[i] = adds[r][1]
  <2>1. entries' = entries \o adds[r]
    BY DEF CreateEntrySave
  <2> HIDE DEF IInv
  <2>2. \A k \in DOMAIN adds[r] :
            /\ adds[r][k].status # "Draft" => IsBalanced(adds[r][k].lines)
            /\ adds[r][k].reversedBy = 0 /\ adds[r][k].reversalOf = 0
    BY <1>1, <1>2
  <2>3. /\ \A i \in DOMAIN entries : i \in DOMAIN entries' /\ entries'[i] = entries[i]
        /\ \A i \in DOMAIN entries' \ DOMAIN entries :
              i - Len(entries) \in DOMAIN adds[r] /\ entries'[i] = adds[r][i - Len(entries)]
    BY <1>1, <2>1, <2>2, AppendEntries
  <2> QED BY <1>2, <2>3
<1>4. pc[r] # "idle" /\ pc'[r] = "idle" /\ Frame(r)
  BY RespondEffect DEF CreateEntrySave, IInv
<1>5. \A q \in Requests : StillSo(q)'
  BY <1>4, NothingPending
<1>6. AtMostOneReversal'
  BY <1>1, <1>3, AppendKeepsReversals DEF SerialInv
<1>7. PostsOnlyDrafts
  BY <1>3 DEF PostsOnlyDrafts
<1>8. AddsOnlyToOpen
  <2>1. adds[r][1].period # 0 => periods[adds[r][1].period].status = "Open"
    BY DEF SerialInv, StillSo, CreateEntrySave
  <2> QED BY <1>3, <2>1 DEF AddsOnlyToOpen
<1> QED BY <1>5, <1>6, <1>7, <1>8 DEF SerialInv

\* PostJournalEntry's SaveChanges: the entry is still a draft.
LEMMA SerialPostEntrySave ==
    ASSUME IInv, SerialInv, OneAtATime, NEW r \in Requests, PostEntrySave(r)
    PROVE  SerialInv' /\ PostsOnlyDrafts /\ AddsOnlyToOpen
<1> DEFINE t == target[r]
<1>1. t \in DOMAIN entries /\ entries[t].status = "Draft" /\ pc[r] # "idle"
  BY DEF PostEntrySave, IInv, InFlight, InFlightOf, SerialInv, StillSo
<1>2. /\ entries \in Seq(Entry) /\ Len(entries) \in Nat
      /\ DOMAIN entries = 1 .. Len(entries) /\ entries[t] \in Entry /\ t \in Nat
  BY <1>1, LenProperties, RowTypes DEF IInv, TypeOK
<1>3. entries' = [entries EXCEPT ![t] = [entries[t] EXCEPT !.status = "Posted"]]
  BY <1>1, <1>2 DEF PostEntrySave
<1>4. DOMAIN entries' = DOMAIN entries
  BY <1>3
<1>5. \A i \in DOMAIN entries :
          /\ entries'[i].reversalOf = entries[i].reversalOf
          /\ entries'[i].status = IF i = t THEN "Posted" ELSE entries[i].status
  BY <1>2, <1>3, RowTypes DEF IInv, Entry
<1>6. pc'[r] = "postPublish" /\ Frame(r)
  <2>1. "postPublish" \in Steps /\ << >> \in Seq(Entry)
    BY DEF Steps
  <2>2. Proceed(r, "postPublish", t, {}, << >>)
    BY DEF PostEntrySave
  <2> QED BY <1>2, <2>1, <2>2, ProceedEffect DEF IInv
<1>7. \A q \in Requests : StillSo(q)'
  BY <1>1, <1>6, NothingPending
<1>8. AtMostOneReversal'
  BY <1>4, <1>5, AppendKeepsReversals DEF SerialInv
<1>9. PostsOnlyDrafts /\ AddsOnlyToOpen
  BY <1>1, <1>4, <1>5 DEF PostsOnlyDrafts, AddsOnlyToOpen
<1> QED BY <1>7, <1>8, <1>9 DEF SerialInv

\* ReverseJournalEntry's SaveChanges: nothing has reversed the entry yet, since a
\* reversal of it would have left its mark on it (ReversalMirrors).
LEMMA SerialReverseEntrySave ==
    ASSUME IInv, SerialInv, OneAtATime, NEW r \in Requests, ReverseEntrySave(r)
    PROVE  SerialInv' /\ PostsOnlyDrafts /\ AddsOnlyToOpen
<1> DEFINE t == target[r]
           n == Len(entries) + 1
           e == [entries[t] EXCEPT !.status = "Reversed", !.reversedBy = n]
           mid == [entries EXCEPT ![t] = e]
           rev == adds[r][1]
<1>1. /\ t \in DOMAIN entries /\ entries[t].status = "Posted" /\ entries[t].reversedBy = 0
      /\ Len(adds[r]) = 1 /\ adds[r] \in Seq(Entry) /\ rev.reversalOf = t /\ rev.period = 0
      /\ pc[r] # "idle"
  BY DEF ReverseEntrySave, IInv, TypeOK, InFlight, InFlightOf, SerialInv, StillSo
<1>2. /\ entries \in Seq(Entry) /\ Len(entries) \in Nat /\ n \in Nat
      /\ DOMAIN entries = 1 .. Len(entries) /\ entries[t] \in Entry /\ t \in Nat /\ t # 0
  BY <1>1, LenProperties, RowTypes DEF IInv, TypeOK
<1>3. e \in Entry /\ e.reversalOf = entries[t].reversalOf /\ e.status = "Reversed"
  BY <1>2 DEF Entry, Statuses
<1>4. entries' = mid \o adds[r]
  BY <1>1, <1>2 DEF ReverseEntrySave
<1> HIDE DEF e
<1>5. /\ mid \in Seq(Entry) /\ Len(mid) = Len(entries)
      /\ \A i \in 1 .. Len(entries) : mid[i] = IF i = t THEN e ELSE entries[i]
  BY <1>1, <1>2, <1>3, ExceptSeq
<1> HIDE DEF mid
<1>6. /\ \A i \in DOMAIN entries' : i \in DOMAIN entries \/ i = n
      /\ entries'[n] = rev
      /\ \A i \in DOMAIN entries : entries'[i] = IF i = t THEN e ELSE entries[i]
  <2>1. /\ DOMAIN (mid \o adds[r]) = 1 .. Len(mid) + Len(adds[r])
        /\ \A i \in 1 .. Len(mid) : (mid \o adds[r])[i] = mid[i]
        /\ \A i \in Len(mid) + 1 .. Len(mid) + Len(adds[r]) :
              (mid \o adds[r])[i] = adds[r][i - Len(mid)]
    <3>1. mid \in Seq(Entry) /\ adds[r] \in Seq(Entry)
      BY <1>1, <1>5
    <3> QED BY <3>1, ConcatRows
  <2> QED BY <1>1, <1>2, <1>4, <1>5, <2>1
<1>7. \A i \in DOMAIN entries : entries'[i].reversalOf = entries[i].reversalOf
  BY <1>3, <1>6
<1>8. \A i \in DOMAIN entries : entries[i].reversalOf # t
  BY <1>1, <1>2 DEF IInv, ReversalMirrors
<1>9. AtMostOneReversal'
  <2> SUFFICES ASSUME NEW i \in DOMAIN entries', NEW j \in DOMAIN entries',
                      entries'[i].reversalOf # 0,
                      entries'[i].reversalOf = entries'[j].reversalOf
               PROVE  i = j
    BY DEF AtMostOneReversal
  <2>1. CASE i \in DOMAIN entries /\ j \in DOMAIN entries
    BY <1>7, <2>1 DEF SerialInv, AtMostOneReversal
  <2>2. CASE i = n /\ j \in DOMAIN entries
    BY <1>1, <1>6, <1>7, <1>8, <2>2
  <2>3. CASE i \in DOMAIN entries /\ j = n
    BY <1>1, <1>6, <1>7, <1>8, <2>3
  <2> QED BY <1>6, <2>1, <2>2, <2>3
<1>10. \A q \in Requests : StillSo(q)'
  <2>1. pc'[r] = "idle" /\ Frame(r)
    BY RespondEffect DEF ReverseEntrySave, IInv
  <2> QED BY <1>1, <2>1, NothingPending
<1>11. PostsOnlyDrafts
  BY <1>3, <1>6 DEF PostsOnlyDrafts
<1>12. AddsOnlyToOpen
  BY <1>1, <1>6 DEF AddsOnlyToOpen
<1> QED BY <1>9, <1>10, <1>11, <1>12 DEF SerialInv

\* CloseFiscalPeriod's SaveChanges: the period it adds to is the one it closes,
\* which is still open.
LEMMA SerialClosePeriodSave ==
    ASSUME IInv, SerialInv, OneAtATime, NEW r \in Requests, ClosePeriodSave(r)
    PROVE  SerialInv' /\ PostsOnlyDrafts /\ AddsOnlyToOpen
<1> DEFINE t == target[r]
           new == adds[r]
<1>1. /\ new \in Seq(Entry) /\ pc[r] # "idle" /\ t \in Nat
      /\ periods[t].status = "Open"
      /\ \A k \in DOMAIN new :
            /\ new[k].status = "Posted" /\ IsBalanced(new[k].lines)
            /\ new[k].reversedBy = 0 /\ new[k].reversalOf = 0
            /\ new[k].period \in {0, t}
  BY DEF ClosePeriodSave, IInv, TypeOK, InFlight, InFlightOf, SerialInv, StillSo
<1>2. entries' = entries \o new
  BY DEF ClosePeriodSave
<1>3. /\ \A i \in DOMAIN entries : i \in DOMAIN entries' /\ entries'[i] = entries[i]
      /\ \A i \in DOMAIN entries' \ DOMAIN entries :
            i - Len(entries) \in DOMAIN new /\ entries'[i] = new[i - Len(entries)]
  <2> HIDE DEF IInv, new
  <2> QED BY <1>1, <1>2, AppendEntries
<1>4. pc'[r] = "closePublish" /\ Frame(r)
  <2>1. "closePublish" \in Steps /\ << >> \in Seq(Entry)
    BY DEF Steps
  <2>2. Proceed(r, "closePublish", t, {}, << >>)
    BY DEF ClosePeriodSave
  <2> QED BY <1>1, <2>1, <2>2, ProceedEffect DEF IInv
<1>5. \A q \in Requests : StillSo(q)'
  BY <1>1, <1>4, NothingPending
<1> HIDE DEF new
<1>6. AtMostOneReversal'
  BY <1>1, <1>3, AppendKeepsReversals DEF SerialInv
<1>7. PostsOnlyDrafts
  BY <1>3 DEF PostsOnlyDrafts
<1>8. AddsOnlyToOpen
  BY <1>1, <1>3 DEF AddsOnlyToOpen
<1> QED BY <1>5, <1>6, <1>7, <1>8 DEF SerialInv

\* Every step keeps the rules while handlers do not overlap.
LEMMA SerialStep ==
    ASSUME IInv, SerialInv, OneAtATime, [Next]_vars
    PROVE  SerialInv' /\ PostsOnlyDrafts /\ AddsOnlyToOpen
<1>1. CASE Tick \/ UNCHANGED vars
  <2>1. UNCHANGED <<entries, periods, pc, target, adds>>
    BY <1>1 DEF Tick, vars, db, request
  <2>2. SerialInv'
    BY <2>1 DEF SerialInv, StillSo, AtMostOneReversal
  <2> QED BY <2>1, <2>2 DEF PostsOnlyDrafts, AddsOnlyToOpen
<1>2. ASSUME NEW r \in Requests, RequestStep(r)
      PROVE  SerialInv' /\ PostsOnlyDrafts /\ AddsOnlyToOpen
  <2>1. CASE \/ PostEntryPublish(r) \/ ClosePeriodPublish(r) \/ Abort(r)
             \/ \E a \in PatchedAccounts, isActive \in BOOLEAN : UpdateAccount(r, a, isActive)
    <3>1. Respond(r) /\ entries' = entries /\ periods' = periods
      BY <2>1 DEF PostEntryPublish, ClosePeriodPublish, Abort, UpdateAccount, db
    <3> QED BY <3>1, SerialEnds
  <2> QED BY <1>2, <2>1, SerialCreateEntry, SerialCreateEntrySave, SerialPostEntry,
         SerialPostEntrySave, SerialReverseEntry, SerialReverseEntrySave,
         SerialCreatePeriod, SerialClosePeriod, SerialReadEntries, SerialReadAccounts,
         SerialClosePeriodSave
      DEF RequestStep
<1> QED BY <1>1, <1>2 DEF Next

\* The empty ledger obeys the rules, and as long as handlers do not overlap every
\* save finds what its load checked.
THEOREM SerialInvariant == Spec /\ []OneAtATime => []SerialInv
<1>1. Init => SerialInv
  BY DEF Init, SerialInv, StillSo, AtMostOneReversal
<1>2. IInv /\ SerialInv /\ OneAtATime /\ [Next]_vars => SerialInv'
  BY SerialStep
<1> QED BY <1>1, <1>2, InductiveInvariant, PTL DEF Spec

\* No entry gets two reversals, however many requests there are, as long as their
\* handlers do not overlap: ReversedById, which CreateReversal checks, is enough.
THEOREM OneReversal == Spec /\ []OneAtATime => []AtMostOneReversal
BY SerialInvariant, PTL DEF SerialInv

\* As long as handlers do not overlap, no step posts an entry that was not a draft
\* (JournalEntry.Post) or adds one to a closed period (ClosedPeriodException).
THEOREM RulesKept == Spec /\ []OneAtATime => JournalRules
<1>1. IInv /\ SerialInv /\ OneAtATime /\ [Next]_vars
        => [\A i \in DOMAIN entries :
              entries[i].status # "Posted" /\ entries'[i].status = "Posted"
                  => entries[i].status = "Draft"]_vars
  BY SerialStep DEF PostsOnlyDrafts
<1>2. IInv /\ SerialInv /\ OneAtATime /\ [Next]_vars
        => [\A i \in DOMAIN entries' \ DOMAIN entries :
              entries'[i].period # 0 => periods[entries'[i].period].status = "Open"]_vars
  BY SerialStep DEF AddsOnlyToOpen
<1>3. Spec /\ []OneAtATime => OnlyDraftPosted
  BY <1>1, InductiveInvariant, SerialInvariant, PTL DEF Spec, OnlyDraftPosted
<1>4. Spec /\ []OneAtATime => ClosedPeriodRejects
  BY <1>2, InductiveInvariant, SerialInvariant, PTL DEF Spec, ClosedPeriodRejects
<1> QED BY <1>3, <1>4 DEF JournalRules

-----------------------------------------------------------------------------
(* The arithmetic of a close, as a function of the journal j it works on.  *)

\* Net, ProfitAndLoss and ClosingLines of the rows ids of journal j, for the
\* income accounts S.
NetOver(j, a, ids) ==
    SumFunctionOnSet([i \in DOMAIN j |-> j[i].lines[a].credit], ids)
        - SumFunctionOnSet([i \in DOMAIN j |-> j[i].lines[a].debit], ids)
ProfitOver(j, ids, S) == SumFunctionOnSet([a \in Accounts |-> NetOver(j, a, ids)], S)
ClosingOver(j, ids, S) ==
    [a \in Accounts |->
        IF a \in S THEN Debit(NetOver(j, a, ids))
        ELSE IF a = RetainedSurplus THEN Debit(-ProfitOver(j, ids, S))
        ELSE Debit(0)]

\* The rows a close of period per counts, and the income accounts among act.
PostedRows(j, per) ==
    {i \in DOMAIN j : /\ per.start <= j[i].date /\ j[i].date <= per.end
                      /\ j[i].status = "Posted"}
ActiveIncome(act) == {a \in Income : act[a]}

\* What CloseFiscalPeriod computed is still what it would compute now.
StillSums(r) ==
    LET per == periods[target[r]]
        ids == PostedRows(entries, per)
    IN /\ pc[r] = "closeAccounts" => seen[r] = ids
       /\ pc[r] = "close" =>
              ClosesWith(adds[r], ClosingOver(entries, ids, ActiveIncome(active)), per)

CloseInv == \A r \in Requests : StillSums(r)

\* No account is patched between a close reading the accounts and its save.
AccountsRest == [][active' = active \/ \A r \in Requests : pc[r] # "close"]_vars

\* The rows of a journal, and the sums over them.
LEMMA RowsFinite ==
    ASSUME NEW j \in Seq(Entry), NEW ids \in SUBSET DOMAIN j, NEW a \in Accounts
    PROVE  /\ IsFiniteSet(ids)
           /\ \A i \in DOMAIN j : /\ j[i].lines[a].credit \in Int
                                  /\ j[i].lines[a].debit \in Int
           /\ NetOver(j, a, ids) \in Int
  <1> DEFINE Cr == [i \in DOMAIN j |-> j[i].lines[a].credit]
             De == [i \in DOMAIN j |-> j[i].lines[a].debit]
  <1>1. IsFiniteSet(ids)
    <2>1. DOMAIN j = 1 .. Len(j) /\ Len(j) \in Nat
      BY LenProperties
    <2>2. IsFiniteSet(DOMAIN j)
      BY <2>1, FS_Interval
    <2> QED
      BY <2>2, FS_Subset
  <1>2. \A i \in DOMAIN j : j[i].lines[a].credit \in Int /\ j[i].lines[a].debit \in Int
    <2>1. \A i \in DOMAIN j : j[i] \in Entry
      OBVIOUS
    <2>2. \A i \in DOMAIN j : j[i].lines \in Lines
      BY <2>1 DEF Entry
    <2> QED
      BY <2>2, BoundAssumption DEF Lines, Amounts
  <1>3. \A i \in ids : Cr[i] \in Int /\ De[i] \in Int
    BY <1>2
  <1>4. SumFunctionOnSet(Cr, ids) \in Int /\ SumFunctionOnSet(De, ids) \in Int
    <2> HIDE DEF Cr, De
    <2> QED BY <1>1, <1>3, SumInt
  <1> QED
    BY <1>1, <1>2, <1>4 DEF NetOver

\* Rows appended to the journal do not change the net of the rows before.
LEMMA NetKept ==
    ASSUME NEW j \in Seq(Entry), NEW k \in Seq(Entry), NEW ids \in SUBSET DOMAIN j,
           NEW a \in Accounts, \A i \in ids : i \in DOMAIN k /\ k[i] = j[i]
    PROVE  NetOver(k, a, ids) = NetOver(j, a, ids)
  <1> DEFINE Cr(x) == [i \in DOMAIN x |-> x[i].lines[a].credit]
             De(x) == [i \in DOMAIN x |-> x[i].lines[a].debit]
  <1>1. IsFiniteSet(ids)
    BY RowsFinite
  <1>2. \A i \in ids : Cr(k)[i] = Cr(j)[i] /\ De(k)[i] = De(j)[i]
    OBVIOUS
  <1>3. /\ SumFunctionOnSet(Cr(k), ids) = SumFunctionOnSet(Cr(j), ids)
        /\ SumFunctionOnSet(De(k), ids) = SumFunctionOnSet(De(j), ids)
    <2> HIDE DEF Cr, De
    <2> QED BY <1>1, <1>2, SumCongruent
  <1> QED
    BY <1>3 DEF NetOver

\* A one-sided line of n moves the net of its account by -n, and is empty only
\* for zero.
LEMMA DebitEffect ==
    ASSUME NEW n \in Int
    PROVE  Debit(n).debit - Debit(n).credit = n /\ (Debit(n) = Debit(0) => n = 0)
  BY DEF Debit

\* One more row moves the net of an account by the line it has for it.
LEMMA NetAdds ==
    ASSUME NEW k \in Seq(Entry), NEW U \in SUBSET DOMAIN k, NEW a \in Accounts,
           NEW n \in U, NEW ids, ids = U \ {n},
           NEW v \in Int, v = NetOver(k, a, ids), NEW m \in Int, k[n].lines[a] = Debit(m)
    PROVE  NetOver(k, a, U) = v - m
  <1> DEFINE Cr == [i \in DOMAIN k |-> k[i].lines[a].credit]
             De == [i \in DOMAIN k |-> k[i].lines[a].debit]
  <1>1. ids \in SUBSET DOMAIN k /\ n \in DOMAIN k
    OBVIOUS
  <1>2. IsFiniteSet(U) /\ IsFiniteSet(ids)
    BY <1>1, RowsFinite
  <1>3. \A i \in DOMAIN k : Cr[i] \in Int /\ De[i] \in Int
    BY RowsFinite
  <1>4. /\ SumFunctionOnSet(Cr, U) = Cr[n] + SumFunctionOnSet(Cr, ids)
        /\ SumFunctionOnSet(De, U) = De[n] + SumFunctionOnSet(De, ids)
        /\ SumFunctionOnSet(Cr, ids) \in Int /\ SumFunctionOnSet(De, ids) \in Int
    <2> HIDE DEF Cr, De
    <2>1. \A i \in U : Cr[i] \in Int /\ De[i] \in Int
      BY <1>3
    <2>2. /\ SumFunctionOnSet(Cr, U) = Cr[n] + SumFunctionOnSet(Cr, U \ {n})
          /\ SumFunctionOnSet(De, U) = De[n] + SumFunctionOnSet(De, U \ {n})
      BY <1>2, <2>1, SumRemove
    <2>3. SumFunctionOnSet(Cr, ids) \in Int /\ SumFunctionOnSet(De, ids) \in Int
      BY <1>2, <1>3, SumInt
    <2> QED
      BY <1>2, <2>2, <2>3
  <1>5. Cr[n] = Debit(m).credit /\ De[n] = Debit(m).debit /\ Cr[n] \in Int /\ De[n] \in Int
    BY <1>1, <1>3
  <1>6. De[n] - Cr[n] = m
    <2> HIDE DEF Cr, De
    <2> QED BY <1>5, DebitEffect
  <1>7. /\ NetOver(k, a, U) = SumFunctionOnSet(Cr, U) - SumFunctionOnSet(De, U)
        /\ v = SumFunctionOnSet(Cr, ids) - SumFunctionOnSet(De, ids)
    BY DEF NetOver
  <1> HIDE DEF Cr, De
  <1>8. PICK c \in Int, d \in Int : c = SumFunctionOnSet(Cr, ids) /\ d = SumFunctionOnSet(De, ids)
    BY <1>4
  <1>9. NetOver(k, a, U) = (Cr[n] + c) - (De[n] + d) /\ v = c - d
    BY <1>4, <1>7, <1>8
  <1>10. \A x, y \in Int : y - x = m => (x + c) - (y + d) = (c - d) - m
    OBVIOUS
  <1> QED
    BY <1>5, <1>6, <1>9, <1>10

\* Which rows count once the entries of a close have been appended.
LEMMA RowsAfterClose ==
    ASSUME NEW j \in Seq(Entry), NEW new \in Seq(Entry), NEW per \in Period,
           NEW cl, ClosesWith(new, cl, per)
    PROVE  /\ cl = NoLines => PostedRows(j \o new, per) = PostedRows(j, per)
           /\ cl # NoLines /\ per.start <= per.end =>
                 PostedRows(j \o new, per) = PostedRows(j, per) \cup {Len(j) + 1}
  <1> DEFINE k == j \o new
  <1>1. /\ k \in Seq(Entry) /\ DOMAIN k = 1 .. Len(j) + Len(new)
        /\ DOMAIN j = 1 .. Len(j) /\ DOMAIN new = 1 .. Len(new)
        /\ Len(j) \in Nat /\ Len(new) \in Nat
        /\ \A i \in 1 .. Len(j) : k[i] = j[i]
        /\ \A i \in Len(j) + 1 .. Len(j) + Len(new) :
              i - Len(j) \in 1 .. Len(new) /\ k[i] = new[i - Len(j)]
    BY ConcatRows, LenProperties
  <1>2. per.start \in Nat /\ per.end \in Nat
    BY DEF Period
  <1> HIDE DEF k
  <1>3. CASE cl = NoLines
    <2>1. \A i \in DOMAIN k \ DOMAIN j : ~(k[i].date <= per.end)
      BY <1>1, <1>2, <1>3 DEF ClosesWith
    <2>2. DOMAIN j \subseteq DOMAIN k /\ \A i \in DOMAIN j : k[i] = j[i]
      BY <1>1
    <2> QED
      BY <1>3, <2>1, <2>2 DEF PostedRows, k
  <1>4. CASE cl # NoLines /\ per.start <= per.end
    <2>1. \A i \in DOMAIN k \ DOMAIN j : i # Len(j) + 1 => ~(k[i].date <= per.end)
      <3> TAKE i \in DOMAIN k \ DOMAIN j
      <3> HAVE i # Len(j) + 1
      <3>1. i - Len(j) \in DOMAIN new \ {1} /\ k[i] = new[i - Len(j)]
        BY <1>1
      <3>2. k[i].date = per.end + 1
        BY <1>4, <3>1 DEF ClosesWith
      <3> QED
        BY <1>2, <3>2
    <2>2. DOMAIN j \subseteq DOMAIN k /\ \A i \in DOMAIN j : k[i] = j[i]
      BY <1>1
    <2>3. /\ Len(j) + 1 \in DOMAIN k /\ k[Len(j) + 1].date = per.end
          /\ k[Len(j) + 1].status = "Posted"
      BY <1>1, <1>4 DEF ClosesWith
    <2> QED
      BY <1>2, <1>4, <2>1, <2>2, <2>3 DEF PostedRows, k
  <1> QED
    BY <1>3, <1>4

\* A period that ends before it starts counts nothing: there is nothing to close.
LEMMA NothingToClose ==
    ASSUME NEW j \in Seq(Entry), NEW S \in SUBSET Accounts
    PROVE  ClosingOver(j, {}, S) = NoLines
  <1>1. \A a \in Accounts : NetOver(j, a, {}) = 0
    BY SumEmpty DEF NetOver
  <1>2. ProfitOver(j, {}, S) = 0
    <2> DEFINE f == [a \in Accounts |-> NetOver(j, a, {})]
    <2>1. \A a \in S : f[a] = 0
      BY <1>1
    <2>2. IsFiniteSet(S)
      BY ChartAssumption, FS_Subset
    <2> HIDE DEF f
    <2>3. SumFunctionOnSet(f, S) = 0
      BY <2>1, <2>2, SumZero
    <2> QED
      BY <2>3 DEF ProfitOver, f
  <1>3. -ProfitOver(j, {}, S) = 0
    <2>1. PICK z \in Int : z = ProfitOver(j, {}, S) /\ z <= 0 /\ z >= 0
      BY <1>2
    <2>2. -z = 0
      BY <2>1
    <2> QED
      BY <2>1, <2>2
  <1> HIDE DEF Debit
  <1> QED
    BY <1>1, <1>2, <1>3 DEF ClosingOver, NoLines

\* The sum of the income accounts is an integer, and zero when each of them is.
LEMMA ProfitFacts ==
    ASSUME NEW j \in Seq(Entry), NEW ids \in SUBSET DOMAIN j, NEW S \in SUBSET Accounts
    PROVE  /\ ProfitOver(j, ids, S) \in Int
           /\ (\A a \in S : NetOver(j, a, ids) = 0) => ProfitOver(j, ids, S) = 0
  <1> DEFINE f == [a \in Accounts |-> NetOver(j, a, ids)]
  <1>1. IsFiniteSet(S)
    BY ChartAssumption, FS_Subset
  <1>2. \A a \in S : f[a] \in Int /\ f[a] = NetOver(j, a, ids)
    BY RowsFinite
  <1> HIDE DEF f
  <1>3. SumFunctionOnSet(f, S) \in Int
    BY <1>1, <1>2, SumInt
  <1>4. (\A a \in S : f[a] = 0) => SumFunctionOnSet(f, S) = 0
    BY <1>1, SumZero
  <1> QED
    BY <1>2, <1>3, <1>4 DEF ProfitOver, f

\* From the rows ids of j to the rows after of k, the income accounts in S go to
\* zero, the others keep their net, and Retained Surplus takes what S had.
MovesProfit(j, ids, k, after, S) ==
    /\ \A a \in Income : NetOver(k, a, after) = IF a \in S THEN 0 ELSE NetOver(j, a, ids)
    /\ NetOver(k, RetainedSurplus, after) - NetOver(j, RetainedSurplus, ids)
         = ProfitOver(j, ids, S)

\* CloseFiscalPeriod's arithmetic: once its entries are in the journal, the income
\* accounts it closed net to zero over the period and Retained Surplus has moved by
\* what their net was before.
LEMMA CloseArithmetic ==
    ASSUME NEW j \in Seq(Entry), NEW new \in Seq(Entry), NEW per \in Period,
           NEW ids, NEW k, NEW after, NEW S \in SUBSET Income
    PROVE  (/\ ids = PostedRows(j, per)
            /\ k = j \o new /\ after = PostedRows(k, per)
            /\ ClosesWith(new, ClosingOver(j, ids, S), per))
           => MovesProfit(j, ids, k, after, S)
  <1>0. SUFFICES ASSUME ids = PostedRows(j, per), k = j \o new, after = PostedRows(k, per),
                        ClosesWith(new, ClosingOver(j, ids, S), per)
                 PROVE  /\ \A a \in Income :
                              NetOver(k, a, after) = IF a \in S THEN 0 ELSE NetOver(j, a, ids)
                        /\ NetOver(k, RetainedSurplus, after) - NetOver(j, RetainedSurplus, ids)
                             = ProfitOver(j, ids, S)
    BY DEF MovesProfit
  <1> DEFINE cl == ClosingOver(j, ids, S)
             n == Len(j) + 1
             profit == ProfitOver(j, ids, S)
  <1>1. ids \in SUBSET DOMAIN j /\ after \in SUBSET DOMAIN k
    BY <1>0 DEF PostedRows
  <1>2. /\ k \in Seq(Entry) /\ DOMAIN k = 1 .. Len(j) + Len(new)
        /\ DOMAIN j = 1 .. Len(j) /\ DOMAIN new = 1 .. Len(new)
        /\ Len(j) \in Nat /\ Len(new) \in Nat
        /\ \A i \in 1 .. Len(j) : k[i] = j[i]
        /\ \A i \in Len(j) + 1 .. Len(j) + Len(new) :
              i - Len(j) \in 1 .. Len(new) /\ k[i] = new[i - Len(j)]
    BY <1>0, ConcatRows, LenProperties
  <1>3. /\ Income \in SUBSET Accounts /\ S \in SUBSET Accounts
        /\ RetainedSurplus \in Accounts /\ RetainedSurplus \notin Income
    BY ChartAssumption DEF Income
  <1>4. \A i \in ids : i \in DOMAIN k /\ k[i] = j[i]
    BY <1>1, <1>2
  <1>5. \A a \in Accounts : NetOver(k, a, ids) = NetOver(j, a, ids) /\ NetOver(j, a, ids) \in Int
    BY <1>1, <1>2, <1>4, NetKept, RowsFinite
  <1>6. profit \in Int
    BY <1>1, <1>3, ProfitFacts
  <1>7. /\ \A a \in S : cl[a] = Debit(NetOver(j, a, ids))
        /\ \A a \in Income \ S : cl[a] = Debit(0)
        /\ cl[RetainedSurplus] = Debit(-profit)
    <2> HIDE DEF Debit, profit
    <2> QED BY <1>3 DEF ClosingOver, profit
  <1> HIDE DEF cl, profit, n
  <1>8. CASE cl = NoLines
    <2>1. after = ids
      BY <1>0, <1>8, RowsAfterClose DEF cl
    <2>2. \A a \in S : NetOver(j, a, ids) = 0
      <3> TAKE a \in S
      <3>1. Debit(NetOver(j, a, ids)) = Debit(0)
        BY <1>3, <1>7, <1>8 DEF NoLines
      <3> QED
        BY <1>3, <1>5, <3>1, DebitEffect
    <2>3. profit = 0
      BY <1>1, <1>3, <2>2, ProfitFacts DEF profit
    <2>5. \A a \in Income : NetOver(k, a, after) = IF a \in S THEN 0 ELSE NetOver(j, a, ids)
      BY <1>3, <1>5, <2>1, <2>2
    <2>6. NetOver(k, RetainedSurplus, after) = NetOver(j, RetainedSurplus, ids)
      BY <1>3, <1>5, <2>1
    <2> QED
      BY <1>3, <1>5, <2>3, <2>5, <2>6 DEF profit
  <1>9. CASE cl # NoLines
    <2>1. per.start <= per.end
      <3> SUFFICES ASSUME ~(per.start <= per.end)
                   PROVE  FALSE
        OBVIOUS
      <3>1. per.start \in Nat /\ per.end \in Nat
        BY DEF Period
      <3>2. \A i \in DOMAIN j : j[i].date \in Nat
        <4>1. \A i \in DOMAIN j : j[i] \in Entry
          OBVIOUS
        <4> QED BY <4>1 DEF Entry
      <3>3. ids = {}
        BY <1>0, <3>1, <3>2 DEF PostedRows
      <3> QED
        BY <1>3, <1>9, <3>3, NothingToClose DEF cl
    <2>2. after = ids \cup {n}
      BY <1>0, <1>9, <2>1, RowsAfterClose DEF cl, n
    <2>3. n \in DOMAIN k /\ n \notin ids /\ k[n].lines = cl
      <3>1. 1 \in DOMAIN new /\ new[1].lines = cl
        BY <1>0, <1>9 DEF ClosesWith, cl
      <3>2. n \in DOMAIN k /\ n \notin ids
        BY <1>1, <1>2, <3>1 DEF n
      <3>3. k[n] = new[1]
        BY <1>2, <3>1 DEF n
      <3> QED
        BY <3>1, <3>2, <3>3
    <2>4. ids \in SUBSET DOMAIN k
      BY <1>1, <1>2
    <2>5. ASSUME NEW a \in Accounts, NEW m \in Int, cl[a] = Debit(m)
          PROVE  NetOver(k, a, after) = NetOver(j, a, ids) - m
      <3>1. k \in Seq(Entry) /\ after \in SUBSET DOMAIN k
        BY <1>1, <1>2
      <3>2. n \in after /\ ids = after \ {n}
        BY <2>2, <2>3
      <3>3. k[n].lines[a] = Debit(m)
        BY <2>3, <2>5
      <3>4. PICK v \in Int : v = NetOver(k, a, ids) /\ v = NetOver(j, a, ids)
        BY <1>5
      <3>5. v = NetOver(k, a, ids)
        BY <3>4
      <3>6. PICK x : x = n
        OBVIOUS
      <3>7. x \in after /\ ids = after \ {x} /\ k[x].lines[a] = Debit(m)
        BY <3>2, <3>3, <3>6
      <3>8. NetOver(k, a, after) = v - m
        BY <3>1, <3>5, <3>7, NetAdds
      <3> QED
        BY <3>4, <3>8
    <2>6. \A a \in S : NetOver(k, a, after) = 0
      BY <1>3, <1>5, <1>7, <2>5
    <2>m. \A a \in Income \ S : NetOver(k, a, after) = NetOver(j, a, ids)
      BY <1>3, <1>5, <1>7, <2>5
    <2>7. \A a \in Income : NetOver(k, a, after) = IF a \in S THEN 0 ELSE NetOver(j, a, ids)
      BY <2>6, <2>m
    <2>8. NetOver(k, RetainedSurplus, after) = NetOver(j, RetainedSurplus, ids) - (-profit)
      BY <1>3, <1>6, <1>7, <2>5
    <2> QED
      BY <1>3, <1>5, <1>6, <2>7, <2>8 DEF profit
  <1> QED
    BY <1>8, <1>9

-----------------------------------------------------------------------------
(* A close that nobody disturbs moves the profit.                          *)

\* What the model computes from the tables is that arithmetic.
LEMMA RowsOfPeriod ==
    ASSUME NEW p
    PROVE  /\ WithStatus(InRange(periods[p].start, periods[p].end), "Posted")
                = PostedRows(entries, periods[p])
           /\ WithStatus(InRange(periods[p].start, periods[p].end), "Posted")'
                = PostedRows(entries', periods'[p])
  BY DEF WithStatus, InRange, PostedRows

\* The same of a period's profit and of the balances of its accounts.
LEMMA BalanceOfPeriod ==
    ASSUME NEW p, NEW ids, ids = PostedRows(entries, periods[p]),
           NEW after, after = PostedRows(entries', periods'[p])
    PROVE  /\ \A a : Balance(p, a) = NetOver(entries, a, ids)
           /\ \A a : Balance(p, a)' = NetOver(entries', a, after)
           /\ ActiveProfit(p) = ProfitOver(entries, ids, ActiveIncome(active))
           /\ Profit(p)' = ProfitOver(entries', after, Income)
  <1>1. PostedIn(p) = ids /\ PostedIn(p)' = after
    BY RowsOfPeriod DEF PostedIn
  <1>2. /\ \A a : Net(a, ids) = NetOver(entries, a, ids)
        /\ \A a : Net(a, after)' = NetOver(entries', a, after)
    BY DEF Net, Credits, Debits, NetOver
  <1>3. \A a : Balance(p, a) = NetOver(entries, a, ids)
    BY <1>1, <1>2 DEF Balance
  <1>4. \A a : Balance(p, a)' = NetOver(entries', a, after)
    BY <1>1, <1>2 DEF Balance
  <1>5. ActiveProfit(p) = ProfitOver(entries, ids, ActiveIncome(active))
    BY <1>3 DEF ActiveProfit, ActiveIncome, ProfitOver
  <1>6. Profit(p)' = SumFunctionOnSet([a \in Accounts |-> Net(a, after)'], Income)
    BY RowsOfPeriod DEF Profit, ProfitAndLoss, Income
  <1> QED
    BY <1>2, <1>3, <1>4, <1>5, <1>6 DEF ProfitOver

\* The same of the closing lines.
LEMMA LinesOfClose ==
    ASSUME NEW ids
    PROVE  ClosingLines(ids) = ClosingOver(entries, ids, ActiveIncome(active))
  <1>1. IncomeAccounts = ActiveIncome(active)
    BY DEF IncomeAccounts, ActiveIncome, Income
  <1>2. \A a : Net(a, ids) = NetOver(entries, a, ids)
    BY DEF Net, Credits, Debits, NetOver
  <1>3. NetIncome(ids) = ProfitOver(entries, ids, ActiveIncome(active))
    BY <1>1, <1>2 DEF NetIncome, ProfitOver
  <1> QED
    BY <1>1, <1>2, <1>3 DEF ClosingLines, ClosingOver

\* What a request's step does to the other requests, and where it may lead.
LEMMA StepOfRequest ==
    ASSUME TypeOK, NEW r \in Requests, RequestStep(r)
    PROVE  /\ \A q \in Requests \ {r} :
                 /\ pc'[q] = pc[q] /\ target'[q] = target[q]
                 /\ adds'[q] = adds[q] /\ seen'[q] = seen[q]
           /\ \/ pc'[r] \notin {"closeAccounts", "close"}
              \/ ClosePeriodReadEntries(r) \/ ClosePeriodReadAccounts(r)
           /\ \/ pc[r] # "idle"
              \/ /\ entries' = entries
                 /\ \/ periods' = periods
                    \/ \E per \in Period : periods' = Append(periods, per)
  <1> USE DEF TypeOK
  <1>1. CASE \E d \in 1 .. MaxDate, p \in 0 .. Len(periods) + 1, l \in LineSets :
                CreateEntry(r, d, p, l)
    BY <1>1 DEF CreateEntry, Proceed, Respond, db
  <1>2. CASE CreateEntrySave(r) \/ PostEntryPublish(r) \/ ReverseEntrySave(r)
             \/ ClosePeriodPublish(r) \/ Abort(r)
    BY <1>2 DEF CreateEntrySave, PostEntryPublish, ReverseEntrySave, ClosePeriodPublish,
                Abort, Respond
  <1>3. CASE \E i \in 1 .. Len(entries) + 1 : PostEntry(r, i) \/ ReverseEntry(r, i)
    BY <1>3 DEF PostEntry, ReverseEntry, Proceed, Respond, db
  <1>4. CASE PostEntrySave(r) \/ ClosePeriodSave(r)
    BY <1>4 DEF PostEntrySave, ClosePeriodSave, Proceed
  <1>5. CASE \E range \in PeriodRanges : CreatePeriod(r, range)
    <2>1. PICK range \in PeriodRanges : CreatePeriod(r, range)
      BY <1>5
    <2> DEFINE per == [start |-> range[1], end |-> range[2], status |-> "Open", opening |-> 0]
    <2>2. per \in Period
      BY <2>1, LineAssumption, BoundAssumption DEF Period
    <2>3. Respond(r) /\ entries' = entries
      BY <2>1 DEF CreatePeriod
    <2>4. periods' = periods \/ periods' = Append(periods, per)
      BY <2>1 DEF CreatePeriod
    <2> HIDE DEF per
    <2> QED
      BY <2>2, <2>3, <2>4 DEF Respond
  <1>6. CASE \E p \in 1 .. Len(periods) + 1 : ClosePeriod(r, p)
    BY <1>6 DEF ClosePeriod, Proceed, Respond, db
  <1>7. CASE ClosePeriodReadEntries(r)
    BY <1>7 DEF ClosePeriodReadEntries, Proceed, Respond
  <1>8. CASE ClosePeriodReadAccounts(r)
    BY <1>8 DEF ClosePeriodReadAccounts, Proceed, Respond
  <1>9. CASE \E a \in PatchedAccounts, isActive \in BOOLEAN : UpdateAccount(r, a, isActive)
    BY <1>9 DEF UpdateAccount, Respond
  <1> QED
    BY <1>1, <1>2, <1>3, <1>4, <1>5, <1>6, <1>7, <1>8, <1>9 DEF RequestStep

\* The rows of CloseFiscalPeriod's first read are those the period counts.
LEMMA SumsReadEntries ==
    ASSUME IInv, NEW r \in Requests, ClosePeriodReadEntries(r)
    PROVE  StillSums(r)'
  <1> DEFINE p == target[r]
             ids == WithStatus(InRange(periods[p].start, periods[p].end), "Posted")
  <1>1. ids = PostedRows(entries, periods[p])
    BY RowsOfPeriod
  <1> HIDE DEF ids
  <1>2. entries' = entries /\ periods' = periods
    BY DEF ClosePeriodReadEntries, db
  <1>3. CASE Proceed(r, "closeAccounts", p, ids, << >>)
    <2>1. pc'[r] = "closeAccounts" /\ target'[r] = p /\ seen'[r] = ids
      BY <1>3 DEF Proceed, IInv, TypeOK
    <2> QED
      BY <1>1, <1>2, <2>1 DEF StillSums
  <1>4. CASE Respond(r)
    BY <1>4, RespondEffect DEF IInv, StillSums
  <1> QED
    BY <1>3, <1>4 DEF ClosePeriodReadEntries, ids

\* The entries it adds close the period with the lines the arithmetic gives.
LEMMA SumsReadAccounts ==
    ASSUME IInv, NEW r \in Requests, StillSums(r), ClosePeriodReadAccounts(r)
    PROVE  StillSums(r)'
  <1> DEFINE p == target[r]
             new == ClosingEntries(p, seen[r]) \o OpeningEntries(p, seen[r])
  <1>1. p \in DOMAIN periods /\ seen[r] = PostedRows(entries, periods[p])
    BY DEF IInv, InFlight, InFlightOf, StillSums, ClosePeriodReadAccounts
  <1>2. entries' = entries /\ periods' = periods /\ active' = active
    BY DEF ClosePeriodReadAccounts, db
  <1>3. CASE CloseCheck(seen[r]) = "OK" /\ Proceed(r, "close", p, {}, new)
    <2>1. PICK ids : ids = seen[r]
      OBVIOUS
    <2>2. ClosesWith(new, ClosingLines(ids), periods[p])
      BY <1>1, <1>3, <2>1, CloseAddsPeriods DEF IInv
    <2>3. ClosesWith(new, ClosingOver(entries, ids, ActiveIncome(active)), periods[p])
      BY <2>2, LinesOfClose
    <2> HIDE DEF new
    <2>4. pc'[r] = "close" /\ target'[r] = p /\ adds'[r] = new
      BY <1>3 DEF Proceed, IInv, TypeOK
    <2> QED
      BY <1>1, <1>2, <2>1, <2>3, <2>4 DEF StillSums
  <1>4. CASE Respond(r)
    BY <1>4, RespondEffect DEF IInv, StillSums
  <1> QED
    BY <1>3, <1>4 DEF ClosePeriodReadAccounts

\* A step that leaves the journal, the period and, once they are read, the
\* accounts alone leaves what a close has computed right.
LEMMA SumsFrame ==
    ASSUME NEW q \in Requests, StillSums(q),
           pc'[q] = pc[q], target'[q] = target[q], adds'[q] = adds[q], seen'[q] = seen[q],
           entries' = entries,
           pc[q] \in {"closeAccounts", "close"} => periods'[target[q]] = periods[target[q]],
           pc[q] = "close" => active' = active
    PROVE  StillSums(q)'
  <1>1. CASE pc[q] = "closeAccounts"
    BY <1>1 DEF StillSums
  <1>2. CASE pc[q] = "close"
    BY <1>2 DEF StillSums
  <1> QED
    BY <1>1, <1>2 DEF StillSums

\* A new period leaves the others as they are.
LEMMA AppendedPeriod ==
    ASSUME TypeOK, periods' = periods \/ \E per \in Period : periods' = Append(periods, per)
    PROVE  \A p \in DOMAIN periods : periods'[p] = periods[p]
  <1>1. periods \in Seq(Period) /\ DOMAIN periods = 1 .. Len(periods) /\ Len(periods) \in Nat
    BY DEF TypeOK
  <1>2. ASSUME NEW per \in Period, periods' = Append(periods, per)
        PROVE  \A p \in DOMAIN periods : periods'[p] = periods[p]
    <2>1. \A p \in 1 .. Len(periods) : Append(periods, per)[p] = periods[p]
      BY <1>1, AppendProperties
    <2> QED
      BY <1>1, <1>2, <2>1
  <1> QED
    BY <1>2

\* Every step keeps CloseInv.
LEMMA SumsStep ==
    ASSUME IInv, OneAtATime, CloseInv, [Next]_vars,
           [active' = active \/ \A r \in Requests : pc[r] # "close"]_vars
    PROVE  CloseInv'
  <1> SUFFICES ASSUME NEW q \in Requests
               PROVE  StillSums(q)'
    BY DEF CloseInv
  <1>1. StillSums(q)
    BY DEF CloseInv
  <1>2. CASE Tick \/ UNCHANGED vars
    BY <1>1, <1>2, SumsFrame DEF Tick, vars, db, request
  <1>3. ASSUME NEW r \in Requests, RequestStep(r)
        PROVE  StillSums(q)'
    <2>1. /\ q # r => /\ pc'[q] = pc[q] /\ target'[q] = target[q]
                      /\ adds'[q] = adds[q] /\ seen'[q] = seen[q]
          /\ \/ pc'[r] \notin {"closeAccounts", "close"}
             \/ ClosePeriodReadEntries(r) \/ ClosePeriodReadAccounts(r)
          /\ \/ pc[r] # "idle"
             \/ /\ entries' = entries
                /\ periods' = periods \/ \E per \in Period : periods' = Append(periods, per)
      BY <1>3, StepOfRequest DEF IInv
    <2>2. CASE q = r
      BY <1>1, <2>1, <2>2, SumsReadEntries, SumsReadAccounts DEF StillSums
    <2>3. CASE q # r /\ pc[r] # "idle"
      <3>1. pc'[q] = "idle"
        BY <2>1, <2>3 DEF OneAtATime
      <3> QED
        BY <3>1 DEF StillSums
    <2>4. CASE q # r /\ pc[r] = "idle"
      <3>1. pc[q] \in {"closeAccounts", "close"} => target[q] \in DOMAIN periods
        BY DEF IInv, InFlight, InFlightOf
      <3>2. \A p \in DOMAIN periods : periods'[p] = periods[p]
        BY <2>1, <2>4, AppendedPeriod DEF IInv
      <3>3. pc[q] = "close" => active' = active
        BY DEF vars, db
      <3> QED
        BY <1>1, <2>1, <2>4, <3>1, <3>2, <3>3, SumsFrame
    <2> QED
      BY <2>2, <2>3, <2>4
  <1> QED
    BY <1>2, <1>3 DEF Next

\* Only the save of CloseFiscalPeriod closes a period, the one it loaded.
LEMMA OnlySaveCloses ==
    ASSUME IInv, [Next]_vars, NEW p \in DOMAIN periods, Closes(p)
    PROVE  \E r \in Requests : ClosePeriodSave(r) /\ target[r] = p
  <1>1. periods'[p] # periods[p]
    BY DEF Closes
  <1>2. PICK r \in Requests : RequestStep(r)
    BY <1>1 DEF Next, Tick, vars, db
  <1>3. pc[r] # "idle"
    <2>1. SUFFICES ASSUME pc[r] = "idle"
                   PROVE  periods'[p] = periods[p]
      BY <1>1
    <2>2. periods' = periods \/ \E per \in Period : periods' = Append(periods, per)
      BY <1>2, <2>1, StepOfRequest DEF IInv
    <2> QED
      BY <2>2, AppendedPeriod DEF IInv
  <1>4. ClosePeriodSave(r)
    <2>1. \/ periods' = periods
          \/ ClosePeriodSave(r)
      BY <1>2, <1>3 DEF RequestStep, CreateEntry, CreateEntrySave, PostEntry, ReverseEntry,
         PostEntrySave, PostEntryPublish, ReverseEntrySave, CreatePeriod, ClosePeriod,
         ClosePeriodReadEntries, ClosePeriodReadAccounts, ClosePeriodPublish, Abort,
         UpdateAccount, db
    <2> QED
      BY <1>1, <2>1
  <1>5. target[r] = p
    BY <1>1, <1>4 DEF ClosePeriodSave, IInv, TypeOK
  <1> QED
    BY <1>4, <1>5

\* The step that closes a period moves its profit.
LEMMA CloseMoves ==
    ASSUME IInv, CloseInv, [Next]_vars, NEW p \in DOMAIN periods, Closes(p)
    PROVE  /\ \A a \in Income : Balance(p, a)' = IF active[a] THEN 0 ELSE Balance(p, a)
           /\ Balance(p, RetainedSurplus)' - Balance(p, RetainedSurplus) = ActiveProfit(p)
           /\ (\A a \in Income : active[a]) => Profit(p)' = 0
  <1>1. PICK r \in Requests : ClosePeriodSave(r) /\ target[r] = p
    BY OnlySaveCloses
  <1>2. /\ entries \in Seq(Entry) /\ adds[r] \in Seq(Entry) /\ periods[p] \in Period
    BY RowTypes DEF IInv, TypeOK
  <1>3. /\ entries' = entries \o adds[r]
        /\ periods'[p].start = periods[p].start /\ periods'[p].end = periods[p].end
    BY <1>1, <1>2 DEF ClosePeriodSave, IInv, TypeOK, Period
  <1>4. PICK j, new, per, k, ids, after, S :
            /\ j = entries /\ new = adds[r] /\ per = periods[p] /\ k = entries'
            /\ ids = PostedRows(entries, periods[p])
            /\ after = PostedRows(entries', periods'[p])
            /\ S = ActiveIncome(active)
    OBVIOUS
  <1>5. after = PostedRows(k, per)
    BY <1>3, <1>4 DEF PostedRows
  <1>6. S \in SUBSET Income /\ \A a \in Income : a \in S <=> active[a]
    BY <1>4 DEF ActiveIncome
  <1>7. ClosesWith(new, ClosingOver(j, ids, S), per)
    BY <1>1, <1>4 DEF CloseInv, StillSums, ClosePeriodSave
  <1>8. j \in Seq(Entry) /\ new \in Seq(Entry) /\ per \in Period /\ k = j \o new
        /\ ids = PostedRows(j, per)
    BY <1>2, <1>3, <1>4
  <1>9. MovesProfit(j, ids, k, after, S)
    <2>1. /\ ids = PostedRows(j, per)
          /\ k = j \o new /\ after = PostedRows(k, per)
          /\ ClosesWith(new, ClosingOver(j, ids, S), per)
      BY <1>5, <1>7, <1>8
    <2>2. j \in Seq(Entry) /\ new \in Seq(Entry) /\ per \in Period /\ S \in SUBSET Income
      BY <1>6, <1>8
    <2> QED
      BY <2>1, <2>2, CloseArithmetic
  <1>10. /\ \A a : Balance(p, a) = NetOver(j, a, ids)
         /\ \A a : Balance(p, a)' = NetOver(k, a, after)
         /\ ActiveProfit(p) = ProfitOver(j, ids, S)
         /\ Profit(p)' = ProfitOver(k, after, Income)
    <2>1. ids = PostedRows(entries, periods[p]) /\ after = PostedRows(entries', periods'[p])
      BY <1>4
    <2> QED
      BY <1>4, <2>1, BalanceOfPeriod
  <1>11. \A a \in Income : Balance(p, a)' = IF active[a] THEN 0 ELSE Balance(p, a)
    BY <1>6, <1>9, <1>10 DEF MovesProfit
  <1>12. Balance(p, RetainedSurplus)' - Balance(p, RetainedSurplus) = ActiveProfit(p)
    BY <1>9, <1>10 DEF MovesProfit
  <1>13. ASSUME \A a \in Income : active[a]
         PROVE  Profit(p)' = 0
    <2>1. \A a \in Income : NetOver(k, a, after) = 0
      BY <1>10, <1>11, <1>13
    <2>2. k \in Seq(Entry) /\ after \in SUBSET DOMAIN k /\ Income \in SUBSET Accounts
      BY <1>5, <1>8, ConcatRows DEF PostedRows, Income
    <2>3. ProfitOver(k, after, Income) = 0
      BY <2>1, <2>2, ProfitFacts
    <2> QED
      BY <1>10, <2>3
  <1> QED
    BY <1>11, <1>12, <1>13

\* As long as handlers do not overlap and no account is patched between the reads
\* and the save of a close, what CloseFiscalPeriod computed is what it would
\* compute at the moment it saves.
THEOREM CloseInvariant == Spec /\ []OneAtATime /\ AccountsRest => []CloseInv
  <1>1. Init => CloseInv
    BY DEF Init, CloseInv, StillSums
  <1>2. /\ IInv /\ OneAtATime /\ CloseInv /\ [Next]_vars
        /\ [active' = active \/ \A r \in Requests : pc[r] # "close"]_vars
        => CloseInv'
    BY SumsStep
  <1> QED
    BY <1>1, <1>2, InductiveInvariant, PTL DEF Spec, AccountsRest

\* Then closing a period takes its active income accounts to zero and moves exactly
\* what they held into Retained Surplus, and leaves deactivated ones as they are,
\* for every chart of accounts, journal and period.
THEOREM ProfitMoved == Spec /\ []OneAtATime /\ AccountsRest => CloseMovesProfit
  <1>1. IInv /\ CloseInv /\ [Next]_vars
          => [\A p \in DOMAIN periods :
                Closes(p) =>
                  /\ \A a \in Income : Balance(p, a)' = IF active[a] THEN 0 ELSE Balance(p, a)
                  /\ Balance(p, RetainedSurplus)' - Balance(p, RetainedSurplus) = ActiveProfit(p)
                  /\ (\A a \in Income : active[a]) => Profit(p)' = 0]_vars
    BY CloseMoves
  <1> QED
    BY <1>1, InductiveInvariant, CloseInvariant, PTL DEF Spec, CloseMovesProfit

\* With a single request at a time, as a service with one client has it, nothing
\* more need be assumed: all the rules hold of every behaviour.
THEOREM AloneKeepsRules ==
    ASSUME \A r, q \in Requests : r = q
    PROVE  Spec => []AtMostOneReversal /\ JournalRules /\ CloseMovesProfit
  <1>1. OneAtATime
    BY DEF OneAtATime
  <1>2. [Next]_vars => [active' = active \/ \A r \in Requests : pc[r] # "close"]_vars
    <2> SUFFICES ASSUME [Next]_vars, active' # active, NEW q \in Requests
                 PROVE  pc[q] # "close"
      OBVIOUS
    <2>1. PICK r \in Requests : RequestStep(r)
      BY DEF Next, Tick, vars, db
    <2>2. pc[r] = "idle"
      BY <2>1 DEF RequestStep, CreateEntry, CreateEntrySave, PostEntry, ReverseEntry,
         PostEntrySave, PostEntryPublish, ReverseEntrySave, CreatePeriod, ClosePeriod,
         ClosePeriodReadEntries, ClosePeriodReadAccounts, ClosePeriodSave,
         ClosePeriodPublish, Abort, UpdateAccount, db
    <2> QED
      BY <2>2
  <1>3. Spec => []OneAtATime /\ AccountsRest
    BY <1>1, <1>2, PTL DEF Spec, AccountsRest
  <1> QED
    BY <1>3, OneReversal, RulesKept, ProfitMoved, PTL

-----------------------------------------------------------------------------
(* The entries a close builds: the closing entry always balances, and the  *)
(* opening entry only when there is no profit to move.                     *)

\* Lines that debit w[a] to each account balance exactly when the w[a] add up to
\* zero and are not all zero.
LEMMA OneSidedLines ==
    ASSUME NEW w \in [Accounts -> Int]
    PROVE  LET l == [a \in Accounts |-> Debit(w[a])]
           IN IsBalanced(l) <=> (l # NoLines /\ SumFunctionOnSet(w, Accounts) = 0)
  <1> DEFINE l == [a \in Accounts |-> Debit(w[a])]
             D == [a \in Accounts |-> l[a].debit]
             C == [a \in Accounts |-> l[a].credit]
  <1>1. IsFiniteSet(Accounts)
    BY ChartAssumption
  <1>2. \A a \in Accounts : D[a] \in Nat /\ C[a] \in Nat /\ w[a] \in Int /\ D[a] = C[a] + w[a]
    BY DEF Debit
  <1>3. TotalDebits(l) = SumFunctionOnSet(D, Accounts) /\ TotalCredits(l) = SumFunctionOnSet(C, Accounts)
    BY DEF TotalDebits, TotalCredits, SumFunction
  <1>4. l = NoLines => \A a \in Accounts : D[a] = 0
    BY DEF NoLines, Debit
  <1>5. l # NoLines => \E a \in Accounts : D[a] > 0 \/ C[a] > 0
    <2> SUFFICES ASSUME \A a \in Accounts : ~(D[a] > 0) /\ ~(C[a] > 0)
                 PROVE  l = NoLines
      OBVIOUS
    <2>1. \A a \in Accounts : l[a] = Debit(0)
      BY DEF Debit
    <2> HIDE DEF Debit
    <2> QED
      BY <2>1 DEF NoLines
  <1> HIDE DEF l, D, C
  <1>6. SumFunctionOnSet(D, Accounts) = SumFunctionOnSet(C, Accounts) + SumFunctionOnSet(w, Accounts)
    BY <1>1, <1>2, SumAdd
  <1>7. PICK d \in Nat, c \in Nat, s \in Int :
            /\ d = SumFunctionOnSet(D, Accounts) /\ c = SumFunctionOnSet(C, Accounts)
            /\ s = SumFunctionOnSet(w, Accounts)
    BY <1>1, <1>2, SumNat, SumInt
  <1>8. d = c + s
    BY <1>6, <1>7
  <1>9. l = NoLines => d = 0
    BY <1>1, <1>4, <1>7, SumZero
  <1>10. l # NoLines => d > 0 \/ c > 0
    BY <1>1, <1>2, <1>5, <1>7, SumNat
  <1>11. IsBalanced(l) <=> d = c /\ d > 0
    BY <1>3, <1>7 DEF IsBalanced
  <1>12. IsBalanced(l) <=> (l # NoLines /\ s = 0)
    BY <1>8, <1>9, <1>10, <1>11
  <1> QED
    BY <1>7, <1>12 DEF l

\* Amounts of the journal, account by account, are integers.
LEMMA NetInt ==
    ASSUME TypeOK, NEW ids \in SUBSET DOMAIN entries
    PROVE  \A a \in Accounts : Net(a, ids) \in Int /\ Debits(a, ids) \in Int
                               /\ Credits(a, ids) = Debits(a, ids) + Net(a, ids)
  <1> SUFFICES ASSUME NEW a \in Accounts
               PROVE  Net(a, ids) \in Int /\ Debits(a, ids) \in Int
                      /\ Credits(a, ids) = Debits(a, ids) + Net(a, ids)
    OBVIOUS
  <1> DEFINE Cr == [i \in DOMAIN entries |-> entries[i].lines[a].credit]
             De == [i \in DOMAIN entries |-> entries[i].lines[a].debit]
  <1>1. IsFiniteSet(ids) /\ \A i \in ids : Cr[i] \in Int /\ De[i] \in Int
    BY JournalFinite
  <1>2. SumFunctionOnSet(Cr, ids) \in Int /\ SumFunctionOnSet(De, ids) \in Int
    <2> HIDE DEF Cr, De
    <2> QED BY <1>1, SumInt
  <1>3. PICK c \in Int, d \in Int : c = Credits(a, ids) /\ d = Debits(a, ids)
    BY <1>2 DEF Credits, Debits
  <1> QED
    BY <1>3 DEF Net

\* Double entry: over posted entries the nets of all accounts add up to zero.
LEMMA NetsCancel ==
    ASSUME TypeOK, PostedBalanced, NEW ids \in SUBSET DOMAIN entries,
           \A i \in ids : entries[i].status = "Posted"
    PROVE  SumFunctionOnSet([a \in Accounts |-> Net(a, ids)], Accounts) = 0
  <1> DEFINE D == [i \in DOMAIN entries |-> TotalDebits(entries[i].lines)]
             C == [i \in DOMAIN entries |-> TotalCredits(entries[i].lines)]
             Ds == [a \in Accounts |-> Debits(a, ids)]
             Cs == [a \in Accounts |-> Credits(a, ids)]
             N == [a \in Accounts |-> Net(a, ids)]
  <1>1. IsFiniteSet(ids) /\ IsFiniteSet(Accounts)
    BY JournalFinite
  <1>2. \A i \in ids : D[i] = C[i]
    BY DEF PostedBalanced, IsBalanced
  <1>3. SumFunctionOnSet(D, ids) = SumFunctionOnSet(C, ids)
    <2> HIDE DEF D, C
    <2> QED BY <1>1, <1>2, SumCongruent
  <1>4. SumFunctionOnSet(Ds, Accounts) = SumFunctionOnSet(Cs, Accounts)
    BY <1>3, DebitsByEntry, CreditsByEntry DEF SumFunction
  <1>5. \A a \in Accounts : Ds[a] \in Int /\ N[a] \in Int /\ Cs[a] = Ds[a] + N[a]
    BY NetInt
  <1> HIDE DEF Ds, Cs, N
  <1>6. SumFunctionOnSet(Cs, Accounts) = SumFunctionOnSet(Ds, Accounts) + SumFunctionOnSet(N, Accounts)
    BY <1>1, <1>5, SumAdd
  <1>7. PICK d \in Int, n \in Int :
            d = SumFunctionOnSet(Ds, Accounts) /\ n = SumFunctionOnSet(N, Accounts)
    BY <1>1, <1>5, SumInt
  <1>8. d = d + n
    BY <1>4, <1>6, <1>7
  <1> QED
    BY <1>7, <1>8 DEF N

\* What a close takes from the active income accounts, as one number per account.
IncomeNets(ids) == [a \in Accounts |-> IF a \in IncomeAccounts THEN Net(a, ids) ELSE 0]

\* They add up to the net income.
LEMMA IncomeAddsUp ==
    ASSUME TypeOK, NEW ids \in SUBSET DOMAIN entries
    PROVE  /\ IncomeNets(ids) \in [Accounts -> Int]
           /\ NetIncome(ids) \in Int
           /\ NetIncome(ids) = SumFunctionOnSet(IncomeNets(ids), Accounts)
  <1> DEFINE N == [a \in Accounts |-> Net(a, ids)]
             I == IncomeNets(ids)
  <1>1. I \in [Accounts -> Int] /\ \A a \in Accounts : N[a] \in Int
    BY NetInt DEF IncomeNets
  <1>2. IsFiniteSet(Accounts) /\ IncomeAccounts \in SUBSET Accounts /\ IsFiniteSet(IncomeAccounts)
    BY ChartAssumption, FS_Subset DEF IncomeAccounts
  <1>3. (\A a \in IncomeAccounts : N[a] = I[a]) /\ \A a \in Accounts \ IncomeAccounts : I[a] = 0
    BY <1>2 DEF IncomeNets
  <1>4. NetIncome(ids) = SumFunctionOnSet(N, IncomeAccounts)
    BY DEF NetIncome
  <1> HIDE DEF N, I
  <1>5. SumFunctionOnSet(N, IncomeAccounts) = SumFunctionOnSet(I, IncomeAccounts)
    BY <1>2, <1>3, SumCongruent
  <1>6. SumFunctionOnSet(I, Accounts) = SumFunctionOnSet(I, IncomeAccounts)
    BY <1>1, <1>2, <1>3, SumRestrict
  <1>7. SumFunctionOnSet(I, Accounts) \in Int
    BY <1>1, <1>2, SumInt
  <1> QED
    BY <1>1, <1>4, <1>5, <1>6, <1>7 DEF I

\* The closing entry balances whatever entries were read and accounts are active.
LEMMA ClosingLinesBalance ==
    ASSUME TypeOK, NEW ids \in SUBSET DOMAIN entries, ClosingLines(ids) # NoLines
    PROVE  IsBalanced(ClosingLines(ids))
  <1>1. PICK s \in Int : s = NetIncome(ids)
    BY IncomeAddsUp
  <1> DEFINE I == IncomeNets(ids)
             G == [a \in Accounts |-> IF a = RetainedSurplus THEN -s ELSE 0]
             w == [a \in Accounts |-> I[a] + G[a]]
  <1>2. I \in [Accounts -> Int] /\ SumFunctionOnSet(I, Accounts) = s
    BY <1>1, IncomeAddsUp
  <1>3. G \in [Accounts -> Int]
    BY <1>1
  <1>4. /\ IsFiniteSet(Accounts) /\ RetainedSurplus \in Accounts
        /\ RetainedSurplus \notin IncomeAccounts
    BY ChartAssumption DEF IncomeAccounts
  <1>5. SumFunctionOnSet(G, Accounts) = -s
    <2>1. G[RetainedSurplus] = -s /\ \A a \in Accounts \ {RetainedSurplus} : G[a] = 0
      BY <1>4
    <2> HIDE DEF G
    <2>2. SumFunctionOnSet(G, Accounts)
            = G[RetainedSurplus] + SumFunctionOnSet(G, Accounts \ {RetainedSurplus})
      BY <1>3, <1>4, SumRemove
    <2>3. SumFunctionOnSet(G, Accounts \ {RetainedSurplus}) = 0
      <3>1. IsFiniteSet(Accounts \ {RetainedSurplus})
        BY <1>4, FS_Subset
      <3> QED BY <2>1, <3>1, SumZero
    <2>4. PICK m \in Int : m = -s
      OBVIOUS
    <2>5. m + 0 = m
      OBVIOUS
    <2> QED
      BY <2>1, <2>2, <2>3, <2>4, <2>5
  <1>6. w \in [Accounts -> Int]
    BY <1>2, <1>3
  <1>7. SumFunctionOnSet(w, Accounts) = 0
    <2>1. \A a \in Accounts : I[a] \in Int /\ G[a] \in Int /\ w[a] = I[a] + G[a]
      BY <1>2, <1>3
    <2> HIDE DEF I, G, w
    <2>2. SumFunctionOnSet(w, Accounts) = SumFunctionOnSet(I, Accounts) + SumFunctionOnSet(G, Accounts)
      BY <1>4, <2>1, SumAdd
    <2>3. s + (-s) = 0
      OBVIOUS
    <2> QED
      BY <1>2, <1>5, <2>2, <2>3
  <1>8. ClosingLines(ids) = [a \in Accounts |-> Debit(w[a])]
    <2> SUFFICES ASSUME NEW a \in Accounts
                 PROVE  ClosingLines(ids)[a] = Debit(w[a])
      <3>1. ClosingLines(ids) = [a \in Accounts |-> ClosingLines(ids)[a]]
        BY DEF ClosingLines
      <3> QED BY <3>1
    <2>1. CASE a \in IncomeAccounts
      <3>1. I[a] = Net(a, ids) /\ G[a] = 0 /\ Net(a, ids) \in Int
        BY <1>4, <2>1, NetInt DEF IncomeNets
      <3>2. w[a] = Net(a, ids)
        <4> HIDE DEF I, G
        <4> QED BY <3>1
      <3> HIDE DEF w
      <3> QED BY <2>1, <3>2 DEF ClosingLines
    <2>2. CASE a = RetainedSurplus
      <3>1. w[a] = -s
        <4>1. I[a] = 0 /\ G[a] = -s
          BY <1>4, <2>2 DEF IncomeNets
        <4>2. PICK m \in Int : m = -s
          OBVIOUS
        <4>3. 0 + m = m
          OBVIOUS
        <4> HIDE DEF I, G
        <4> QED BY <4>1, <4>2, <4>3
      <3> HIDE DEF w
      <3> QED BY <1>1, <1>4, <2>2, <3>1 DEF ClosingLines
    <2>3. CASE a \notin IncomeAccounts /\ a # RetainedSurplus
      <3>1. I[a] = 0 /\ G[a] = 0
        BY <2>3 DEF IncomeNets
      <3>2. w[a] = 0
        BY <3>1
      <3> HIDE DEF w
      <3> QED BY <2>3, <3>2 DEF ClosingLines
    <2> QED
      BY <2>1, <2>2, <2>3
  <1> HIDE DEF w
  <1> QED
    BY <1>6, <1>7, <1>8, OneSidedLines

\* With all accounts active, the balance sheet of posted entries balances exactly
\* when there is no net income: the opening entry is built before the closing entry
\* is counted.
LEMMA OpeningLinesBalance ==
    ASSUME TypeOK, PostedBalanced, NEW ids \in SUBSET DOMAIN entries,
           \A i \in ids : entries[i].status = "Posted", \A a \in Accounts : active[a]
    PROVE  IsBalanced(OpeningLines(ids)) <=> (OpeningLines(ids) # NoLines /\ NetIncome(ids) = 0)
  <1> DEFINE I == IncomeNets(ids)
             N == [a \in Accounts |-> Net(a, ids)]
             w == [a \in Accounts |-> IF a \in BalanceSheetAccounts THEN -Net(a, ids) ELSE 0]
  <1>1. IsFiniteSet(Accounts)
    BY ChartAssumption
  <1>2. \A a \in Accounts : Net(a, ids) \in Int
    BY NetInt
  <1>3. w \in [Accounts -> Int]
    BY <1>2
  <1>4. \A a \in Accounts : w[a] \in Int /\ N[a] \in Int /\ I[a] = w[a] + N[a]
    <2> SUFFICES ASSUME NEW a \in Accounts
                 PROVE  w[a] \in Int /\ N[a] \in Int /\ I[a] = w[a] + N[a]
      OBVIOUS
    <2>1. PICK n \in Int : n = Net(a, ids)
      BY <1>2
    <2>2. a \in IncomeAccounts <=> a \notin BalanceSheetAccounts
      BY ChartAssumption DEF IncomeAccounts, BalanceSheetAccounts, AccountTypes
    <2>3. 0 + n = n /\ (-n) + n = 0
      OBVIOUS
    <2>4. N[a] = n /\ (a \in IncomeAccounts => w[a] = 0 /\ I[a] = n)
          /\ (a \notin IncomeAccounts => w[a] = -n /\ I[a] = 0)
      BY <2>1, <2>2 DEF IncomeNets
    <2> HIDE DEF w, I, N
    <2> QED
      BY <1>3, <2>3, <2>4
  <1>5. SumFunctionOnSet(N, Accounts) = 0
    BY NetsCancel
  <1>6. OpeningLines(ids) = [a \in Accounts |-> Debit(w[a])]
    <2> SUFFICES ASSUME NEW a \in Accounts
                 PROVE  OpeningLines(ids)[a] = Debit(w[a])
      <3>1. OpeningLines(ids) = [a \in Accounts |-> OpeningLines(ids)[a]]
        BY DEF OpeningLines
      <3> QED BY <3>1
    <2> QED
      BY DEF OpeningLines
  <1>7. NetIncome(ids) = SumFunctionOnSet(I, Accounts)
    BY IncomeAddsUp
  <1> HIDE DEF I, N, w
  <1>8. SumFunctionOnSet(I, Accounts) = SumFunctionOnSet(w, Accounts) + SumFunctionOnSet(N, Accounts)
    BY <1>1, <1>4, SumAdd
  <1>9. PICK s \in Int : s = SumFunctionOnSet(w, Accounts)
    BY <1>1, <1>4, SumInt
  <1>10. NetIncome(ids) = s
    <2>1. s + 0 = s
      OBVIOUS
    <2> QED BY <1>5, <1>7, <1>8, <1>9, <2>1
  <1> QED
    BY <1>3, <1>6, <1>9, <1>10, OneSidedLines

-----------------------------------------------------------------------------
(* The journal is append-only.                                             *)

\* What may never happen to an entry e that becomes f: it is rewritten, goes back
\* to being a draft, or forgets that it has been reversed.
Keeps(e, f) ==
    /\ f.lines = e.lines /\ f.date = e.date /\ f.period = e.period
    /\ f.source = e.source /\ f.reversalOf = e.reversalOf
    /\ e.status # "Draft" => f.status # "Draft"
    /\ e.reversedBy # 0 => f.reversedBy # 0

\* No row is deleted either.
RowsKept == \A i \in DOMAIN entries : i \in DOMAIN entries' /\ Keeps(entries[i], entries'[i])

\* No step rewrites or removes a row.
LEMMA JournalGrows ==
    ASSUME IInv, [Next]_vars
    PROVE  RowsKept
  <1>1. ASSUME NEW t \in Seq(Entry), NEW u \in Seq(Entry), DOMAIN t = DOMAIN entries,
               \A i \in DOMAIN entries : Keeps(entries[i], t[i]), entries' = t \o u
        PROVE  RowsKept
    <2>1. /\ DOMAIN (t \o u) = 1 .. Len(t) + Len(u) /\ DOMAIN t = 1 .. Len(t)
          /\ Len(t) \in Nat /\ Len(u) \in Nat /\ \A i \in 1 .. Len(t) : (t \o u)[i] = t[i]
      BY ConcatRows, LenProperties
    <2>2. \A i \in DOMAIN entries : i \in DOMAIN (t \o u) /\ (t \o u)[i] = t[i]
      BY <1>1, <2>1
    <2> QED
      BY <1>1, <2>2 DEF RowsKept
  <1>2. entries \in Seq(Entry) /\ \A r \in Requests : adds[r] \in Seq(Entry)
    BY DEF IInv, TypeOK
  <1>3. \A e : Keeps(e, e)
    BY DEF Keeps
  <1>4. ASSUME NEW r \in Requests, ReverseEntrySave(r)
        PROVE  RowsKept
    <2> DEFINE i == target[r]
               e == [entries[i] EXCEPT !.status = "Reversed", !.reversedBy = Len(entries) + 1]
               t == [entries EXCEPT ![i] = e]
    <2>1. i \in DOMAIN entries /\ entries[i] \in Entry /\ Len(entries) \in Nat
      BY <1>4, RowTypes, LenProperties DEF ReverseEntrySave, IInv, TypeOK, InFlight, InFlightOf
    <2>2. e \in Entry /\ Keeps(entries[i], e)
      <3>1. PICK n \in Nat : n = Len(entries) + 1 /\ n # 0
        BY <2>1
      <3>2. [entries[i] EXCEPT !.status = "Reversed", !.reversedBy = n] \in Entry
        BY <2>1 DEF Entry, Statuses
      <3>3. Keeps(entries[i], [entries[i] EXCEPT !.status = "Reversed", !.reversedBy = n])
        BY <2>1, <3>1 DEF Entry, Keeps
      <3> QED BY <3>1, <3>2, <3>3
    <2>3. entries' = t \o adds[r]
      BY <1>4, <2>1 DEF ReverseEntrySave
    <2> HIDE DEF e
    <2>4. t \in Seq(Entry) /\ DOMAIN t = DOMAIN entries
      BY <1>2, <2>1, <2>2, ExceptSeq
    <2>5. \A k \in DOMAIN entries : Keeps(entries[k], t[k])
      BY <1>2, <1>3, <2>2
    <2> HIDE DEF t
    <2> QED
      BY <1>1, <1>2, <2>3, <2>4, <2>5
  <1>5. ASSUME NEW r \in Requests, CreateEntrySave(r) \/ ClosePeriodSave(r)
        PROVE  RowsKept
    BY <1>1, <1>2, <1>3, <1>5 DEF CreateEntrySave, ClosePeriodSave
  <1>6. ASSUME NEW r \in Requests, PostEntrySave(r)
        PROVE  RowsKept
    <2>1. entries' = [entries EXCEPT ![target[r]].status = "Posted"]
      BY <1>6 DEF PostEntrySave
    <2>2. \A i \in DOMAIN entries : entries[i] \in Entry
      BY RowTypes DEF IInv
    <2> QED
      BY <2>1, <2>2 DEF RowsKept, Keeps, Entry
  <1>7. entries' = entries => RowsKept
    BY <1>3 DEF RowsKept
  <1>8. ASSUME NEW r \in Requests, RequestStep(r), ~CreateEntrySave(r), ~ClosePeriodSave(r),
               ~ReverseEntrySave(r), ~PostEntrySave(r)
        PROVE  entries' = entries
    BY <1>8 DEF RequestStep, CreateEntry, PostEntry, ReverseEntry, PostEntryPublish,
       CreatePeriod, ClosePeriod, ClosePeriodReadEntries, ClosePeriodReadAccounts,
       ClosePeriodPublish, Abort, UpdateAccount, db
  <1>9. CASE Tick \/ UNCHANGED vars
    BY <1>7, <1>9 DEF Tick, vars, db
  <1> QED
    BY <1>4, <1>5, <1>6, <1>7, <1>8, <1>9 DEF Next

\* The journal is append-only, whatever requests race: no step deletes an entry,
\* changes its lines, dates or origin, takes it back to draft or forgets that it
\* has been reversed (the handlers' saves write the status and reversed_by columns
\* and nothing else of an existing row).
THEOREM JournalAppendOnly == Spec => [][RowsKept]_vars
  <1>1. IInv /\ [Next]_vars => [RowsKept]_vars
    BY JournalGrows
  <1> QED
    BY <1>1, InductiveInvariant, PTL DEF Spec

-----------------------------------------------------------------------------
(* What a close can fail on, and what it drops.                            *)

\* The entries a close has read are in the journal: rows are never deleted.
SeenInJournal == \A r \in Requests : seen[r] \subseteq DOMAIN entries

\* Every step keeps SeenInJournal.
LEMMA SeenStep ==
    ASSUME IInv, SeenInJournal, [Next]_vars
    PROVE  SeenInJournal'
  <1>1. DOMAIN entries \subseteq DOMAIN entries'
    BY JournalGrows DEF RowsKept
  <1>2. ASSUME NEW r \in Requests, RequestStep(r)
        PROVE  seen'[r] \subseteq DOMAIN entries
    <2>1. CASE ClosePeriodReadEntries(r)
      BY <2>1 DEF ClosePeriodReadEntries, Proceed, Respond, WithStatus, InRange, IInv, TypeOK
    <2>2. CASE ~ClosePeriodReadEntries(r)
      BY <1>2, <2>2 DEF RequestStep, CreateEntry, CreateEntrySave, PostEntry, ReverseEntry,
         PostEntrySave, PostEntryPublish, ReverseEntrySave, CreatePeriod, ClosePeriod,
         ClosePeriodReadAccounts, ClosePeriodSave, ClosePeriodPublish, Abort,
         UpdateAccount, Proceed, Respond, IInv, TypeOK
    <2> QED
      BY <2>1, <2>2
  <1>3. ASSUME NEW r \in Requests, RequestStep(r), NEW q \in Requests
        PROVE  seen'[q] \subseteq DOMAIN entries
    <2>1. q # r => seen'[q] = seen[q]
      BY <1>3, StepOfRequest DEF IInv
    <2> QED
      BY <1>2, <1>3, <2>1 DEF SeenInJournal
  <1>4. CASE Tick \/ UNCHANGED vars
    BY <1>4 DEF SeenInJournal, Tick, vars, db, request
  <1>5. CASE \E r \in Requests : RequestStep(r)
    BY <1>1, <1>3, <1>5 DEF SeenInJournal
  <1> QED
    BY <1>4, <1>5 DEF Next

\* No close is about to fail the balance check of its closing entry.
ClosingBalances ==
    \A r \in Requests : pc[r] = "closeAccounts" => CloseCheck(seen[r]) # "UNBALANCED_ENTRY"

\* An opening entry built from posted entries balances exactly when they make no
\* profit and no loss, and leave something to carry forward.
OpeningNeedsNoProfit ==
    \A ids \in SUBSET {i \in DOMAIN entries : entries[i].status = "Posted"} :
        (\A a \in Accounts : active[a])
            => (IsBalanced(OpeningLines(ids))
                    <=> (OpeningLines(ids) # NoLines /\ NetIncome(ids) = 0))

\* CloseFiscalPeriod never fails on the balance check of JournalEntry.Post: whatever
\* entries it has read, and whatever accounts other requests deactivated and entries
\* they reversed since, the closing entry it builds balances.
THEOREM CloseNeverUnbalanced == Spec => []ClosingBalances
  <1>1. Init => SeenInJournal
    BY DEF Init, SeenInJournal
  <1>2. IInv /\ SeenInJournal /\ [Next]_vars => SeenInJournal'
    BY SeenStep
  <1>3. IInv /\ SeenInJournal => ClosingBalances
    <2> SUFFICES ASSUME IInv, SeenInJournal, NEW r \in Requests
                 PROVE  CloseCheck(seen[r]) # "UNBALANCED_ENTRY"
      BY DEF ClosingBalances
    <2>1. PICK ids : ids = seen[r]
      OBVIOUS
    <2>2. ClosingLines(ids) = NoLines \/ IsBalanced(ClosingLines(ids))
      BY <2>1, ClosingLinesBalance DEF IInv, SeenInJournal
    <2>3. CloseCheck(ids) # "UNBALANCED_ENTRY"
      BY <2>2 DEF CloseCheck
    <2> QED
      BY <2>1, <2>3
  <1> QED
    BY <1>1, <1>2, <1>3, InductiveInvariant, PTL DEF Spec

\* The opening entry of CloseFiscalPeriod, which is dropped when it does not balance
\* (CloseFiscalPeriodHandler line 145), is dropped for every period that made a
\* profit or a loss: with all accounts active the balance sheet it is built from
\* balances exactly when the net income is zero, since the closing entry is not yet
\* counted.
THEOREM OpeningOnlyWithoutProfit == Spec => []OpeningNeedsNoProfit
  <1>1. IInv => OpeningNeedsNoProfit
    BY OpeningLinesBalance DEF IInv, OpeningNeedsNoProfit
  <1> QED
    BY <1>1, InductiveInvariant, PTL

=============================================================================
