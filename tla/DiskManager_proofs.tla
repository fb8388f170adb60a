------------------------ MODULE DiskManager_proofs ------------------------
(***************************************************************************)
(* Proofs about DiskManager, for any finite sets of repositories and ids   *)
(* and all bounds: types, no over-allocation, no access forgotten, no      *)
(* scratch left over and no pinned repository lost.                        *)
(***************************************************************************)
EXTENDS DiskManager, FiniteSetTheorems, WellFoundedInduction, TLAPS

-----------------------------------------------------------------------------
(* Sums                                                                    *)

Chosen(s) == CHOOSE x \in s : TRUE
IsFold(f, S, g) ==
    g = [s \in SUBSET S |-> IF s = {} THEN 0 ELSE f[Chosen(s)] + g[s \ {Chosen(s)}]]
Fold(f, S) == CHOOSE g : IsFold(f, S, g)

\* The element that the fold of the community module picks next.
LEMMA ChosenIn == ASSUME NEW s, s # {} PROVE Chosen(s) \in s
BY DEF Chosen

\* Induction over finite sets in the form the provers can use: a non-empty set
\* of subsets of a finite set has a least one.
LEMMA LeastSubset ==
    ASSUME NEW S, IsFiniteSet(S), NEW Bad \in SUBSET SUBSET S, Bad # {}
    PROVE  \E s \in Bad : \A t \in Bad : t \subseteq s => t = s
<1> DEFINE R == StrictSubsetOrdering(S)
<1>1. Bad \subseteq FiniteSubsetsOf(S)
  BY FS_Subset DEF FiniteSubsetsOf
<1>2. IsWellFoundedOn(R, FiniteSubsetsOf(S))
  BY FS_StrictSubsetOrderingWellFounded
<1>3. PICK s \in Bad : \A t \in Bad : ~(<<t, s>> \in R)
  <2> HIDE DEF R
  <2> QED BY <1>1, <1>2, WFMin
<1> QED
  BY <1>3 DEF StrictSubsetOrdering

\* The equation of a fold, taken apart.
LEMMA FoldStep ==
    ASSUME NEW f, NEW S, NEW g, IsFold(f, S, g)
    PROVE  /\ g[{}] = 0
           /\ \A s \in SUBSET S :
                s # {} => g[s] = f[Chosen(s)] + g[s \ {Chosen(s)}]
BY DEF IsFold

\* The equation determines the fold: two solutions agree wherever both are defined.
LEMMA FoldsAgree ==
    ASSUME NEW f, NEW S, NEW T, IsFiniteSet(S), NEW g, NEW h, IsFold(f, S, g), IsFold(f, T, h),
           NEW s \in SUBSET S, s \in SUBSET T
    PROVE  g[s] = h[s]
<1> DEFINE Bad == {t \in SUBSET s : g[t] # h[t]}
<1> SUFFICES ASSUME Bad # {} PROVE FALSE
  OBVIOUS
<1>1. IsFiniteSet(s)
  BY FS_Subset
<1>2. PICK b \in Bad : \A t \in Bad : t \subseteq b => t = b
  <2> HIDE DEF Bad
  <2>1. Bad \in SUBSET SUBSET s BY DEF Bad
  <2> QED BY <1>1, <2>1, LeastSubset
<1>3. b # {}
  BY FoldStep
<1>4. Chosen(b) \in b
  BY <1>3, ChosenIn
<1>5. g[b \ {Chosen(b)}] = h[b \ {Chosen(b)}]
  BY <1>2, <1>4
<1>6. b \in SUBSET S /\ b \in SUBSET T /\ g[b] # h[b]
  OBVIOUS
<1>7. \A t \in SUBSET S : t # {} => g[t] = f[Chosen(t)] + g[t \ {Chosen(t)}]
  BY FoldStep
<1>8. \A t \in SUBSET T : t # {} => h[t] = f[Chosen(t)] + h[t \ {Chosen(t)}]
  BY FoldStep
<1> HIDE DEF Bad
<1> QED
  BY <1>3, <1>5, <1>6, <1>7, <1>8

\* On a finite set the equation has a solution, so that the fold is one.
LEMMA FoldExists ==
    ASSUME NEW f, NEW S, IsFiniteSet(S)
    PROVE  IsFold(f, S, Fold(f, S))
<1> DEFINE Bad == {s \in SUBSET S : \A g : ~IsFold(f, s, g)}
<1>1. SUFFICES ASSUME Bad # {} PROVE FALSE
  BY DEF Fold
<1>2. PICK b \in Bad : \A t \in Bad : t \subseteq b => t = b
  <2> HIDE DEF Bad
  <2>1. Bad \in SUBSET SUBSET S BY DEF Bad
  <2> QED BY <1>1, <2>1, LeastSubset
<1>3. \A t \in SUBSET b : t # b => IsFold(f, t, Fold(f, t))
  BY <1>2 DEF Fold
<1> DEFINE below(t) == Fold(f, t)[t]
           value(t) == IF t = {} THEN 0 ELSE f[Chosen(t)] + below(t \ {Chosen(t)})
           g == [t \in SUBSET b |-> value(t)]
<1>4. ASSUME NEW t \in SUBSET b, t # b PROVE below(t) = value(t)
  <2>1. IsFold(f, t, Fold(f, t))
    BY <1>3, <1>4
  <2>2. CASE t = {}
    BY <2>1, <2>2, FoldStep
  <2>3. CASE t # {}
    <3> DEFINE u == t \ {Chosen(t)}
    <3>1. Chosen(t) \in t /\ u \in SUBSET t /\ u \in SUBSET b /\ u # b
      BY <2>3, ChosenIn
    <3>2. IsFold(f, u, Fold(f, u))
      BY <1>3, <3>1
    <3>3. IsFiniteSet(u) /\ IsFiniteSet(t)
      BY <3>1, FS_Subset
    <3>4. Fold(f, t)[u] = Fold(f, u)[u]
      BY <2>1, <3>1, <3>2, <3>3, FoldsAgree, SMTT(60)
    <3>5. Fold(f, t)[t] = f[Chosen(t)] + Fold(f, t)[u]
      BY <2>1, <2>3, FoldStep
    <3> QED
      BY <2>3, <3>4, <3>5
  <2> QED BY <2>2, <2>3
<1>5. ASSUME NEW t \in SUBSET b, t # {} PROVE g[t \ {Chosen(t)}] = below(t \ {Chosen(t)})
  <2>1. Chosen(t) \in t
    BY <1>5, ChosenIn
  <2>2. t \ {Chosen(t)} \in SUBSET b /\ t \ {Chosen(t)} # b
    BY <2>1
  <2>3. g[t \ {Chosen(t)}] = value(t \ {Chosen(t)})
    BY <2>2
  <2> QED
    BY <2>2, <2>3, <1>4
<1>6. IsFold(f, b, g)
  BY <1>5 DEF IsFold
<1> QED
  BY <1>6

\* SumFunctionOnSet computes what its definition says.
LEMMA SumUnfold ==
    ASSUME NEW f, NEW S, IsFiniteSet(S)
    PROVE  /\ SumFunctionOnSet(f, {}) = 0
           /\ S # {} => SumFunctionOnSet(f, S)
                           = f[Chosen(S)] + SumFunctionOnSet(f, S \ {Chosen(S)})
<1>1. \A T : SumFunctionOnSet(f, T) = Fold(f, T)[T]
  BY Zenon DEF SumFunctionOnSet, FoldFunctionOnSet, MapThenFoldSet, Fold, IsFold, Chosen
<1>2. SumFunctionOnSet(f, {}) = 0
  <2>1. IsFold(f, {}, Fold(f, {}))
    BY FS_EmptySet, FoldExists
  <2>2. Fold(f, {})[{}] = 0
    BY <2>1, FoldStep
  <2> QED
    BY <1>1, <2>2
<1>3. ASSUME S # {}
      PROVE  SumFunctionOnSet(f, S) = f[Chosen(S)] + SumFunctionOnSet(f, S \ {Chosen(S)})
  <2> DEFINE T == S \ {Chosen(S)}
  <2>1. IsFiniteSet(T)
    BY FS_Subset
  <2>2. IsFold(f, S, Fold(f, S)) /\ IsFold(f, T, Fold(f, T))
    BY <2>1, FoldExists
  <2>3. Fold(f, S)[T] = Fold(f, T)[T]
    <3>1. T \in SUBSET S /\ T \in SUBSET T
      OBVIOUS
    <3> HIDE DEF T
    <3> QED
      BY <2>2, <3>1, FoldsAgree
  <2>4. Fold(f, S)[S] = f[Chosen(S)] + Fold(f, S)[T]
    <3>1. \A t \in SUBSET S : t # {} => Fold(f, S)[t] = f[Chosen(t)] + Fold(f, S)[t \ {Chosen(t)}]
      BY <2>2, FoldStep
    <3> QED
      BY <1>3, <3>1
  <2> QED
    BY <1>1, <2>3, <2>4
<1> QED
  BY <1>2, <1>3

\* A sum of natural numbers is one.
LEMMA SumNat ==
    ASSUME NEW f, NEW S, IsFiniteSet(S), \A x \in S : f[x] \in Nat
    PROVE  SumFunctionOnSet(f, S) \in Nat
<1> DEFINE Bad == {s \in SUBSET S : SumFunctionOnSet(f, s) \notin Nat}
<1> SUFFICES ASSUME Bad # {} PROVE FALSE
  OBVIOUS
<1>1. PICK b \in Bad : \A t \in Bad : t \subseteq b => t = b
  <2> HIDE DEF Bad
  <2>1. Bad \in SUBSET SUBSET S
    BY DEF Bad
  <2> QED
    BY <2>1, LeastSubset
<1>2. IsFiniteSet(b)
  BY FS_Subset
<1>3. b # {}
  <2>1. SumFunctionOnSet(f, {}) = 0
    BY FS_EmptySet, SumUnfold
  <2> QED
    BY <2>1
<1>4. Chosen(b) \in b
  BY <1>3, ChosenIn
<1>5. SumFunctionOnSet(f, b \ {Chosen(b)}) \in Nat
  BY <1>1, <1>4
<1>6. SumFunctionOnSet(f, b) = f[Chosen(b)] + SumFunctionOnSet(f, b \ {Chosen(b)})
  BY <1>2, <1>3, SumUnfold
<1> QED
  BY <1>4, <1>5, <1>6

\* Any element may be taken out of a sum, not only the one the fold chooses.
LEMMA SumTake ==
    ASSUME NEW f, NEW S, IsFiniteSet(S), \A x \in S : f[x] \in Nat, NEW x \in S
    PROVE  SumFunctionOnSet(f, S) = f[x] + SumFunctionOnSet(f, S \ {x})
<1> DEFINE Sum(s) == SumFunctionOnSet(f, s)
           Bad == {s \in SUBSET S : \E y \in s : Sum(s) # f[y] + Sum(s \ {y})}
<1> SUFFICES ASSUME Bad # {} PROVE FALSE
  OBVIOUS
<1>1. PICK b \in Bad : \A t \in Bad : t \subseteq b => t = b
  <2> HIDE DEF Bad
  <2>1. Bad \in SUBSET SUBSET S
    BY DEF Bad
  <2> QED
    BY <2>1, LeastSubset
<1>2. PICK y \in b : Sum(b) # f[y] + Sum(b \ {y})
  OBVIOUS
<1> DEFINE z == Chosen(b)
           c == b \ {y, z}
<1>3. IsFiniteSet(b) /\ b \in SUBSET S /\ c \in SUBSET S
  BY FS_Subset
<1>4. z \in b
  BY ChosenIn
<1>5. Sum(b) = f[z] + Sum(b \ {z})
  BY <1>3, SumUnfold
<1>6. y # z
  BY <1>2, <1>5
<1>7. Sum(b \ {z}) = f[y] + Sum(c)
  <2>1. b \ {z} \notin Bad
    BY <1>1, <1>4
  <2>2. y \in b \ {z} /\ (b \ {z}) \ {y} = c /\ b \ {z} \in SUBSET S
    BY <1>2, <1>6
  <2> QED
    BY <2>1, <2>2
<1>8. Sum(b \ {y}) = f[z] + Sum(c)
  <2>1. b \ {y} \notin Bad
    BY <1>1, <1>2
  <2>2. z \in b \ {y} /\ (b \ {y}) \ {z} = c /\ b \ {y} \in SUBSET S
    BY <1>4, <1>6
  <2> QED
    BY <2>1, <2>2
<1>9. Sum(c) \in Nat
  BY <1>3, FS_Subset, SumNat
<1>10. f[y] \in Nat /\ f[z] \in Nat
  BY <1>2, <1>3, <1>4
<1> HIDE DEF Sum, c, z
<1> QED
  BY <1>2, <1>5, <1>7, <1>8, <1>9, <1>10

\* A sum of zeros is zero.
LEMMA SumZero ==
    ASSUME NEW f, NEW S, IsFiniteSet(S), \A x \in S : f[x] = 0
    PROVE  SumFunctionOnSet(f, S) = 0
<1> DEFINE Bad == {s \in SUBSET S : SumFunctionOnSet(f, s) # 0}
<1> SUFFICES ASSUME Bad # {} PROVE FALSE
  OBVIOUS
<1>1. PICK b \in Bad : \A t \in Bad : t \subseteq b => t = b
  <2> HIDE DEF Bad
  <2>1. Bad \in SUBSET SUBSET S
    BY DEF Bad
  <2> QED
    BY <2>1, LeastSubset
<1>2. IsFiniteSet(b)
  BY FS_Subset
<1>3. b # {}
  <2>1. SumFunctionOnSet(f, {}) = 0
    BY FS_EmptySet, SumUnfold
  <2> QED
    BY <2>1
<1>4. Chosen(b) \in b
  BY <1>3, ChosenIn
<1>5. SumFunctionOnSet(f, b \ {Chosen(b)}) = 0
  BY <1>1, <1>4
<1>6. SumFunctionOnSet(f, b) = f[Chosen(b)] + SumFunctionOnSet(f, b \ {Chosen(b)})
  BY <1>2, <1>3, SumUnfold
<1> QED
  BY <1>4, <1>5, <1>6

\* Sums are monotone.
LEMMA SumLeq ==
    ASSUME NEW f, NEW h, NEW S, IsFiniteSet(S),
           \A x \in S : f[x] \in Nat /\ h[x] \in Nat /\ f[x] <= h[x]
    PROVE  SumFunctionOnSet(f, S) <= SumFunctionOnSet(h, S)
<1> DEFINE Bad == {s \in SUBSET S : ~(SumFunctionOnSet(f, s) <= SumFunctionOnSet(h, s))}
<1> SUFFICES ASSUME Bad # {} PROVE FALSE
  OBVIOUS
<1>1. PICK b \in Bad : \A t \in Bad : t \subseteq b => t = b
  <2> HIDE DEF Bad
  <2>1. Bad \in SUBSET SUBSET S
    BY DEF Bad
  <2> QED
    BY <2>1, LeastSubset
<1> DEFINE z == Chosen(b)
           c == b \ {z}
<1>2. IsFiniteSet(b) /\ b \in SUBSET S
  BY FS_Subset
<1>3. b # {}
  <2>1. SumFunctionOnSet(f, {}) = 0 /\ SumFunctionOnSet(h, {}) = 0
    BY FS_EmptySet, SumUnfold
  <2> QED
    BY <2>1
<1>4. z \in b
  BY <1>3, ChosenIn
<1>5. SumFunctionOnSet(f, c) <= SumFunctionOnSet(h, c)
  BY <1>1, <1>4
<1>6. SumFunctionOnSet(f, b) = f[z] + SumFunctionOnSet(f, c)
  BY <1>2, <1>3, SumUnfold
<1>7. SumFunctionOnSet(h, b) = h[z] + SumFunctionOnSet(h, c)
  BY <1>2, <1>3, SumUnfold
<1>8. SumFunctionOnSet(f, c) \in Nat /\ SumFunctionOnSet(h, c) \in Nat
  <2>1. IsFiniteSet(c) /\ c \in SUBSET S
    BY <1>2, FS_Subset
  <2> HIDE DEF c
  <2> QED
    BY <2>1, SumNat
<1>9. f[z] \in Nat /\ h[z] \in Nat /\ f[z] <= h[z]
  BY <1>2, <1>4
<1>10. ~(SumFunctionOnSet(f, b) <= SumFunctionOnSet(h, b))
  OBVIOUS
<1> HIDE DEF c, z
<1> QED
  BY <1>5, <1>6, <1>7, <1>8, <1>9, <1>10

\* Changing one summand: what every step of the disk manager does to a total.
LEMMA SumUpdate ==
    ASSUME NEW S, IsFiniteSet(S), NEW f \in [S -> Nat], NEW x \in S, NEW v \in Nat,
           NEW h, h = [f EXCEPT ![x] = v]
    PROVE  SumFunction(h) = SumFunction(f) - f[x] + v
<1> DEFINE T == S \ {x}
<1>1. h \in [S -> Nat] /\ h[x] = v /\ \A y \in T : h[y] = f[y] /\ f[y] \in Nat
  OBVIOUS
<1>2. IsFiniteSet(T)
  BY FS_Subset
<1>3. SumFunctionOnSet(f, T) \in Nat /\ SumFunctionOnSet(h, T) \in Nat
  <2> HIDE DEF T
  <2> QED
    BY <1>1, <1>2, SumNat
<1>4. SumFunctionOnSet(f, T) = SumFunctionOnSet(h, T)
  <2>0. \A y \in T : f[y] \in Nat /\ h[y] \in Nat /\ f[y] <= h[y] /\ h[y] <= f[y]
    BY <1>1
  <2> HIDE DEF T
  <2>1. SumFunctionOnSet(f, T) <= SumFunctionOnSet(h, T)
    BY <1>2, <2>0, SumLeq
  <2>2. SumFunctionOnSet(h, T) <= SumFunctionOnSet(f, T)
    BY <1>2, <2>0, SumLeq
  <2> QED
    BY <1>3, <2>1, <2>2
<1>5. SumFunctionOnSet(f, S) = f[x] + SumFunctionOnSet(f, T)
  BY SumTake
<1>6. SumFunctionOnSet(h, S) = h[x] + SumFunctionOnSet(h, T)
  <2>1. \A y \in S : h[y] \in Nat
    BY <1>1
  <2> QED
    BY <2>1, SumTake
<1>7. SumFunction(f) = SumFunctionOnSet(f, S) /\ SumFunction(h) = SumFunctionOnSet(h, S)
  BY <1>1 DEF SumFunction
<1>8. f[x] \in Nat
  OBVIOUS
<1> HIDE DEF T
<1> QED
  BY <1>1, <1>3, <1>4, <1>5, <1>6, <1>7, <1>8

\* The same for whole functions.
LEMMA SumFunctionNat ==
    ASSUME NEW S, IsFiniteSet(S), NEW f \in [S -> Nat]
    PROVE  SumFunction(f) \in Nat
BY SumNat DEF SumFunction

\* The same for whole functions.
LEMMA SumFunctionLeq ==
    ASSUME NEW S, IsFiniteSet(S), NEW f \in [S -> Nat], NEW h \in [S -> Nat],
           \A x \in S : f[x] <= h[x]
    PROVE  SumFunction(f) <= SumFunction(h)
<1>1. \A x \in S : f[x] \in Nat /\ h[x] \in Nat /\ f[x] <= h[x]
  OBVIOUS
<1> QED
  BY <1>1, SumLeq DEF SumFunction

-----------------------------------------------------------------------------
(* Types, memory and the index                                             *)

\* Index entries and instants.
LEMMA EntryTypes ==
    /\ NoEntry \in Entry
    /\ \A t \in Time, p \in BOOLEAN : [at |-> t, protected |-> p] \in Entry
    /\ \A e \in Entry, t \in Time : [e EXCEPT !.at = t] \in Entry
    /\ \A s, t \in Time : Later(s, t) \in Time
BY DiskAssumption DEF NoEntry, Entry, Time, Later

\* The first state is well typed.
LEMMA TypeInit == DiskInit => DiskTypeOK
BY DiskAssumption, EntryTypes
DEF DiskInit, DiskTypeOK, NoTimes, NoBytes, NoEntries, NotReserving, Reserving, Stages, Time

\* sync_repo_index_locked yields an index.
LEMMA SyncedType ==
    ASSUME DiskTypeOK
    PROVE  SyncedIndex \in [Repos -> Entry] /\ SyncedAccess \in [Repos -> Time]
BY EntryTypes DEF DiskTypeOK, SyncedIndex, SyncedAccess

\* What a failed operation leaves is well typed, too.
LEMMA FailureTypes ==
    ASSUME DiskTypeOK
    PROVE  /\ IndexUnwritten => index' \in [Repos -> Entry] /\ readable' \in BOOLEAN
           /\ StillKnown \in [Repos -> Time]
           /\ \A i \in Ids : RemoveTemp(i) =>
                tmpDirs' \subseteq Ids /\ tmpBytes' \in [Ids -> Nat] /\ failed' \subseteq Ids
           /\ \A i \in Ids : LeftBehind(i) => failed' \subseteq Ids
<1>1. IndexUnwritten => index' \in [Repos -> Entry] /\ readable' \in BOOLEAN
  BY EntryTypes DEF IndexUnwritten, indexVars, DiskTypeOK, NoEntries
<1>2. StillKnown \in [Repos -> Time]
  <2>1. 0 \in Time /\ \A r \in Repos : Later(pending[r], taken[r]) \in Time
    BY EntryTypes, DiskAssumption DEF DiskTypeOK, Time
  <2>2. [r \in Repos |-> IF r \in repoDirs THEN Later(pending[r], taken[r]) ELSE 0]
            \in [Repos -> Time]
    BY <2>1
  <2> QED
    BY <2>2 DEF StillKnown, DiskTypeOK
<1>3. ASSUME NEW i \in Ids, LeftBehind(i) PROVE failed' \subseteq Ids
  BY <1>3 DEF LeftBehind, DiskTypeOK
<1>4. ASSUME NEW i \in Ids, RemoveTemp(i)
      PROVE  tmpDirs' \subseteq Ids /\ tmpBytes' \in [Ids -> Nat] /\ failed' \subseteq Ids
  BY <1>4 DEF RemoveTemp, LeftBehind, DiskTypeOK
<1> QED
  BY <1>1, <1>2, <1>3, <1>4

\* Every step keeps the types.
LEMMA TypeStep ==
    ASSUME DiskTypeOK, [DiskNext]_vars
    PROVE  DiskTypeOK'
<1> USE DEF DiskTypeOK, tmpVars, indexVars
<1>0. 0 \in Time /\ NotReserving \in Reserving
  BY DiskAssumption, EntryTypes DEF NoEntries, NotReserving, Reserving, Time
<1>1. CASE ReserveBegin
  <2> DEFINE seen == [r \in Repos |-> IF SyncedIndex[r].at = 0 THEN NoEntry
                      ELSE [SyncedIndex[r] EXCEPT !.at = Later(@, pending[r])]]
  <2>1. seen \in [Repos -> Entry]
    BY SyncedType, EntryTypes DEF Entry
  <2>2. PICK bytes \in 1 .. MaxReserve :
          reserving' = [pc |-> "evict", bytes |-> bytes, index |-> seen]
    BY <1>1 DEF ReserveBegin
  <2>3. reserving' \in Reserving
    <3> HIDE DEF seen
    <3> QED
      BY <2>1, <2>2, DiskAssumption DEF Reserving
  <2> QED
    BY <1>1, <2>3, SyncedType DEF ReserveBegin
<1>2. CASE EvictVictim
  <2>1. PICK v \in Repos :
          LET rest == [reserving.index EXCEPT ![v] = NoEntry] IN
          /\ repoDirs' = repoDirs \ {v}
          /\ size' = [size EXCEPT ![v] = 0]
          /\ access' = [access EXCEPT ![v] = 0]
          /\ index' = rest
          /\ reserving' = [reserving EXCEPT !.index = rest]
    BY <1>2 DEF EvictVictim
  <2>2. [reserving.index EXCEPT ![v] = NoEntry] \in [Repos -> Entry]
    BY EntryTypes DEF Reserving
  <2>3. reserving' \in Reserving
    BY <2>1, <2>2 DEF Reserving
  <2>4. access' \in [Repos -> Time]
    BY <2>1, <1>0
  <2> QED
    BY <1>2, <2>1, <2>2, <2>3, <2>4 DEF EvictVictim
<1>26. CASE EvictFail
  <2>1. PICK v \in Repos :
          \/ /\ \E kept \in 0 .. size[v] : size' = [size EXCEPT ![v] = kept]
             /\ UNCHANGED <<repoDirs, indexVars, access>>
          \/ /\ repoDirs' = repoDirs \ {v}
             /\ size' = [size EXCEPT ![v] = 0]
             /\ IndexUnwritten
             /\ access' = [StillKnown EXCEPT ![v] = 0]
    BY <1>26 DEF EvictFail
  <2>2. /\ repoDirs' \subseteq Repos /\ size' \in [Repos -> Nat]
        /\ index' \in [Repos -> Entry] /\ readable' \in BOOLEAN
    BY <2>1, FailureTypes
  <2>3. access' \in [Repos -> Time]
    BY <2>1, <1>0, FailureTypes
  <2> QED
    BY <1>0, <1>26, <2>2, <2>3 DEF EvictFail
<1>3. CASE ReserveFull
  BY <1>0, <1>3 DEF ReserveFull, diskVars
<1>4. CASE EvictedEnough
  BY <1>4 DEF EvictedEnough, diskVars, Reserving
<1>5. CASE ReserveGrant
  <2>1. reserving.bytes \in 0 .. MaxReserve
    BY DEF Reserving
  <2> QED
    BY <1>0, <1>5, <2>1 DEF ReserveGrant, Stages
<1>27. CASE ReserveUnmarked
  <2>1. PICK i \in Ids : /\ tmpDirs' = tmpDirs \cup {i}
                         /\ torn' \in {torn, torn \cup {i}}
                         /\ LeftBehind(i)
    BY <1>27 DEF ReserveUnmarked
  <2>2. tmpDirs' \subseteq Ids /\ torn' \subseteq Ids /\ failed' \subseteq Ids
    BY <2>1, FailureTypes
  <2> QED
    BY <1>0, <1>27, <2>2 DEF ReserveUnmarked
<1>6. ASSUME NEW i \in Ids, Download(i) PROVE DiskTypeOK'
  BY <1>6, DiskAssumption DEF Download
<1>7. ASSUME NEW i \in Ids, NEW r \in Repos, Install(i, r) PROVE DiskTypeOK'
  BY <1>7 DEF Install, memVars
<1>8. ASSUME NEW i \in Ids, DropMarker(i) PROVE DiskTypeOK'
  <2>1. failed' \subseteq Ids /\ marker' \in [Ids -> 0 .. MaxReserve]
    BY <1>8, FailureTypes, DiskAssumption DEF DropMarker
  <2> QED
    <3>1. left' \in [Ids -> 0 .. MaxReserve] /\ stage' \in [Ids -> Stages]
      BY <1>8, DiskAssumption DEF DropMarker, Stages
    <3> QED
      BY <1>8, <2>1, <3>1 DEF DropMarker
<1>9. ASSUME NEW i \in Ids, DropTemp(i) PROVE DiskTypeOK'
  BY <1>9, FailureTypes DEF DropTemp, Stages
<1>10. ASSUME NEW i \in Ids, DropActive(i) PROVE DiskTypeOK'
  BY <1>10, DiskAssumption DEF DropActive, diskVars, Stages
<1>11. ASSUME NEW i \in Ids, DeleteTrash(i) PROVE DiskTypeOK'
  BY <1>11, FailureTypes DEF DeleteTrash, Stages
<1>28. ASSUME NEW i \in Ids, StartFail(i) PROVE DiskTypeOK'
  BY <1>28, DiskAssumption DEF StartFail, memVars
<1>12. ASSUME NEW r \in Repos, InitRepo(r) PROVE DiskTypeOK'
  <2>1. Later(index[r].at, Later(pending[r], taken[r])) \in Time
    BY EntryTypes DEF Entry
  <2> QED
    BY <1>12, <2>1 DEF InitRepo, memVars
<1>13. ASSUME NEW r \in Repos, LockRepo(r) \/ UnlockRepo(r) PROVE DiskTypeOK'
  BY <1>13, DiskAssumption DEF LockRepo, UnlockRepo, diskVars
<1>14. ASSUME NEW r \in Repos, RecordRepoAccess(r) PROVE DiskTypeOK'
  <2>1. [at |-> clock, protected |-> index[r].protected] \in Entry
    BY EntryTypes DEF Entry
  <2> QED
    BY <1>14, <2>1 DEF RecordRepoAccess, memVars
<1>15. ASSUME NEW r \in Repos, NEW p \in BOOLEAN, SetRepoProtected(r, p) PROVE DiskTypeOK'
  <2>1. [at |-> IF index[r].at = 0 THEN clock ELSE index[r].at, protected |-> p] \in Entry
    BY EntryTypes DEF Entry
  <2> QED
    BY <1>15, <2>1 DEF SetRepoProtected, memVars
<1>16. ASSUME NEW r \in Repos, InvalidateRepo(r) PROVE DiskTypeOK'
  <2>1. /\ repoDirs' \subseteq Repos /\ size' \in [Repos -> Nat]
        /\ tmpDirs' \subseteq Ids /\ tmpBytes' \in [Ids -> Nat]
        /\ stage' \in [Ids -> Stages]
    BY <1>16 DEF InvalidateRepo, RenameToTrash, Stages
  <2> QED
    BY <1>0, <1>16, <2>1, EntryTypes DEF InvalidateRepo
<1>29. ASSUME NEW r \in Repos, InvalidateFail(r) PROVE DiskTypeOK'
  <2>1. PICK i \in Ids : RenameToTrash(r, i) /\ LeftBehind(i)
    BY <1>29 DEF InvalidateFail
  <2>2. /\ repoDirs' \subseteq Repos /\ size' \in [Repos -> Nat]
        /\ tmpDirs' \subseteq Ids /\ tmpBytes' \in [Ids -> Nat]
    BY <2>1 DEF RenameToTrash
  <2>3. /\ failed' \subseteq Ids /\ index' \in [Repos -> Entry] /\ readable' \in BOOLEAN
        /\ access' \in [Repos -> Time]
    BY <1>0, <1>29, <2>1, FailureTypes DEF InvalidateFail
  <2> QED
    BY <1>29, <2>2, <2>3 DEF InvalidateFail
<1>17. ASSUME NEW r \in Repos, NoteRepoAccess(r) PROVE DiskTypeOK'
  BY <1>17 DEF NoteRepoAccess, diskVars
<1>18. CASE SyncRepoIndex
  BY <1>18, SyncedType DEF SyncRepoIndex, memVars
<1>30. CASE IndexWriteFails
  <2>1. IndexUnwritten
    BY <1>30 DEF IndexWriteFails, IndexUnwritten
  <2> QED
    BY <1>30, <2>1, FailureTypes DEF IndexWriteFails, memVars
<1>19. CASE FlushTake
  BY <1>0, <1>19 DEF FlushTake, diskVars, NoTimes
<1>20. CASE FlushApply
  <2>1. index' \in [Repos -> Entry]
    <3>1. \A r \in Repos : index[r] \in Entry /\ index[r].at \in Time /\ taken[r] \in Time
      BY DEF Entry
    <3> QED
      BY <1>20, <3>1, EntryTypes DEF FlushApply
  <2>2. taken' \in [Repos -> Time]
    BY <1>0, <1>20 DEF FlushApply, NoTimes
  <2> QED
    BY <1>20, <2>1, <2>2 DEF FlushApply
<1>21. CASE FlushFail
  <2>1. pending' \in [Repos -> Time] /\ taken' \in [Repos -> Time]
    BY <1>0, <1>21, EntryTypes DEF FlushFail, NoTimes
  <2>2. /\ index' \in [Repos -> Entry] /\ readable' \in BOOLEAN
        /\ access' \in [Repos -> Time]
    BY <1>21, FailureTypes DEF FlushFail
  <2> QED
    BY <1>21, <2>1, <2>2 DEF FlushFail
<1>22. CASE Crash
  <2>1. index' \in [Repos -> Entry] /\ readable' \in BOOLEAN
    BY <1>22, FailureTypes DEF Crash
  <2>2. \A r \in Repos : index'[r].at \in Time
    BY <2>1 DEF Entry
  <2>3. access' \in [Repos -> Time]
    BY <1>0, <1>22, <2>2 DEF Crash
  <2>4. /\ locks' \in [Repos -> 0 .. MaxLocks]
        /\ pending' \in [Repos -> Time] /\ taken' \in [Repos -> Time]
    BY <1>0, <1>22, DiskAssumption DEF Crash, NothingInMemory, NoTimes
  <2>5. /\ active' \in [Ids -> 0 .. MaxReserve] /\ left' \in [Ids -> 0 .. MaxReserve]
        /\ stage' \in [Ids -> Stages]
    BY <1>22, DiskAssumption DEF Crash, NothingInMemory, NoBytes, Stages
  <2> QED
    BY <1>0, <1>22, <2>1, <2>3, <2>4, <2>5 DEF Crash, NothingInMemory
<1>23. CASE Start
  BY <1>23, DiskAssumption DEF Start, memVars
<1>24. CASE DiskTick
  BY <1>24, DiskAssumption DEF DiskTick, diskVars, memVars, Time
<1>25. CASE UNCHANGED vars
  BY <1>25 DEF vars, diskVars, memVars
<1> QED
  BY <1>1, <1>2, <1>3, <1>4, <1>5, <1>6, <1>7, <1>8, <1>9, <1>10, <1>11, <1>12, <1>13,
     <1>14, <1>15, <1>16, <1>17, <1>18, <1>19, <1>20, <1>21, <1>22, <1>23, <1>24, <1>25,
     <1>26, <1>27, <1>28, <1>29, <1>30
  DEF DiskNext

\* What the mutex, the process and the steps of Reservation::drop guarantee.
MemoryInv ==
    /\ clock >= 1
    /\ reserving.pc # "none" => up
    /\ ~up => active = NoBytes /\ \A i \in Ids : stage[i] = "none"
    /\ \A i \in Ids : left[i] <= active[i] /\ (stage[i] # "held" => left[i] = 0)

\* The copy of the index that eviction works on.
OverlayInv ==
    reserving.pc = "evict" =>
        \A r \in Repos : /\ index[r].at <= reserving.index[r].at
                         /\ reserving.index[r].protected = index[r].protected

Recorded ==
    \A r \in repoDirs : access[r] <= Later(index[r].at, Later(pending[r], taken[r]))

\* Every step keeps MemoryInv.
LEMMA MemoryStep ==
    ASSUME DiskTypeOK, MemoryInv, [DiskNext]_vars
    PROVE  MemoryInv'
<1> USE DEF MemoryInv, DiskTypeOK
<1>1. CASE ReserveBegin \/ EvictVictim \/ EvictFail \/ ReserveFull \/ EvictedEnough
  BY <1>1 DEF ReserveBegin, EvictVictim, EvictFail, ReserveFull, EvictedEnough, MutexFree,
              NotReserving, Reserving
<1>5. CASE ReserveGrant \/ ReserveUnmarked
  BY <1>5 DEF ReserveGrant, ReserveUnmarked, NotReserving, Reserving
<1>6. ASSUME NEW i \in Ids, Download(i) PROVE MemoryInv'
  BY <1>6 DEF Download
<1>7. ASSUME NEW i \in Ids, NEW r \in Repos, Install(i, r) PROVE MemoryInv'
  BY <1>7 DEF Install, memVars
<1>8. ASSUME NEW i \in Ids, DropMarker(i) PROVE MemoryInv'
  BY <1>8 DEF DropMarker
<1>9. ASSUME NEW i \in Ids, DropTemp(i) PROVE MemoryInv'
  BY <1>9 DEF DropTemp
<1>10. ASSUME NEW i \in Ids, DropActive(i) PROVE MemoryInv'
  BY <1>10 DEF DropActive, MutexFree
<1>11. ASSUME NEW i \in Ids, DeleteTrash(i) PROVE MemoryInv'
  BY <1>11 DEF DeleteTrash
<1>12. ASSUME NEW r \in Repos,
              \/ InitRepo(r) \/ LockRepo(r) \/ UnlockRepo(r) \/ RecordRepoAccess(r)
              \/ SetRepoProtected(r, TRUE) \/ SetRepoProtected(r, FALSE) \/ NoteRepoAccess(r)
       PROVE  MemoryInv'
  BY <1>12 DEF InitRepo, LockRepo, UnlockRepo, RecordRepoAccess, SetRepoProtected,
               NoteRepoAccess, memVars
<1>16. ASSUME NEW r \in Repos, InvalidateRepo(r) \/ InvalidateFail(r) PROVE MemoryInv'
  BY <1>16 DEF InvalidateRepo, InvalidateFail, RenameToTrash, MutexFree, FreshId
<1>18. CASE SyncRepoIndex \/ IndexWriteFails \/ FlushTake \/ FlushApply \/ FlushFail
  BY <1>18 DEF SyncRepoIndex, IndexWriteFails, FlushTake, FlushApply, FlushFail, memVars
<1>22. CASE Crash
  BY <1>22 DEF Crash, NothingInMemory, NoBytes, NotReserving
<1>23. ASSUME Start \/ \E i \in Ids : StartFail(i) PROVE MemoryInv'
  BY <1>23 DEF Start, StartFail, memVars
<1>24. CASE DiskTick
  BY <1>24 DEF DiskTick, memVars, Time
<1>25. CASE UNCHANGED vars
  BY <1>25 DEF vars, memVars
<1> QED
  BY <1>1, <1>5, <1>6, <1>7, <1>8, <1>9, <1>10, <1>11, <1>12,
     <1>16, <1>18, <1>22, <1>23, <1>24, <1>25 DEF DiskNext

\* While reserve() holds the mutex nobody else writes the index.
LEMMA OverlayStep ==
    ASSUME DiskTypeOK, MemoryInv, OverlayInv, [DiskNext]_vars
    PROVE  OverlayInv'
<1> USE DEF OverlayInv
<1>1. CASE ReserveBegin
  <2>1. \A r \in Repos :
          /\ reserving'.index[r] = IF SyncedIndex[r].at = 0 THEN NoEntry
                                 ELSE [SyncedIndex[r] EXCEPT !.at = Later(@, pending[r])]
          /\ index'[r] = SyncedIndex[r]
    BY <1>1 DEF ReserveBegin, DiskTypeOK
  <2>2. \A r \in Repos : SyncedIndex[r] \in Entry /\ pending[r] \in Time
    BY SyncedType DEF DiskTypeOK
  <2>3. \A r \in Repos : SyncedIndex[r].at = 0 => SyncedIndex[r] = NoEntry
    BY DEF SyncedIndex, MemoryInv, NoEntry
  <2>4. ASSUME NEW r \in Repos
        PROVE  /\ index'[r].at <= reserving'.index[r].at
               /\ reserving'.index[r].protected = index'[r].protected
    <3>1. SyncedIndex[r].at \in Nat /\ pending[r] \in Nat
      BY <2>2, DiskAssumption DEF Entry, Time
    <3>2. CASE SyncedIndex[r].at = 0
      <4>1. reserving'.index[r] = NoEntry /\ index'[r] = NoEntry
        BY <2>1, <2>3, <3>2, Zenon
      <4>2. NoEntry.at <= NoEntry.at
        BY DEF NoEntry
      <4> QED
        BY <4>1, <4>2, Zenon
    <3>3. CASE SyncedIndex[r].at # 0
      <4>1. SyncedIndex[r] \in [at : Time, protected : BOOLEAN]
        BY <2>2 DEF Entry
      <4>2. reserving'.index[r] = [SyncedIndex[r] EXCEPT !.at = Later(@, pending[r])]
        BY <2>1, <3>3
      <4>3. /\ reserving'.index[r].at = Later(SyncedIndex[r].at, pending[r])
            /\ reserving'.index[r].protected = SyncedIndex[r].protected
        BY <4>1, <4>2
      <4>4. SyncedIndex[r].at <= Later(SyncedIndex[r].at, pending[r])
        BY <3>1 DEF Later
      <4> QED
        BY <2>1, <4>3, <4>4, Zenon
    <3> QED
      BY <3>2, <3>3
  <2> QED
    BY <2>4
<1>2. CASE EvictVictim
  BY <1>2, EntryTypes DEF EvictVictim, DiskTypeOK, Reserving, Entry, Time
<1>3. CASE EvictFail \/ ReserveFull \/ EvictedEnough \/ ReserveGrant \/ ReserveUnmarked
  BY <1>3 DEF EvictFail, ReserveFull, EvictedEnough, ReserveGrant, ReserveUnmarked,
              NotReserving, DiskTypeOK, Reserving
<1>4. ASSUME NEW i \in Ids,
             \/ Download(i) \/ DropMarker(i) \/ DropTemp(i) \/ DropActive(i)
             \/ DeleteTrash(i) \/ StartFail(i)
      PROVE  OverlayInv'
  BY <1>4 DEF Download, DropMarker, DropTemp, DropActive, DeleteTrash, StartFail,
              diskVars, indexVars, memVars
<1>5. ASSUME NEW r \in Repos,
             \/ InitRepo(r) \/ LockRepo(r) \/ UnlockRepo(r) \/ RecordRepoAccess(r)
             \/ SetRepoProtected(r, TRUE) \/ SetRepoProtected(r, FALSE)
             \/ InvalidateRepo(r) \/ InvalidateFail(r) \/ NoteRepoAccess(r)
             \/ \E i \in Ids : Install(i, r)
      PROVE  OverlayInv'
  BY <1>5 DEF InitRepo, LockRepo, UnlockRepo, RecordRepoAccess, SetRepoProtected, InvalidateRepo,
              InvalidateFail, NoteRepoAccess, Install, MutexFree, diskVars, indexVars, memVars
<1>6. CASE SyncRepoIndex \/ IndexWriteFails \/ FlushTake \/ FlushApply \/ FlushFail
  BY <1>6 DEF SyncRepoIndex, IndexWriteFails, FlushTake, FlushApply, FlushFail, MutexFree,
              diskVars, indexVars, memVars
<1>7. CASE Crash \/ Start \/ DiskTick
  BY <1>7 DEF Crash, NothingInMemory, NotReserving, Start, DiskTick, diskVars, indexVars, memVars
<1>8. CASE UNCHANGED vars
  BY <1>8 DEF vars, diskVars, indexVars, memVars
<1> QED
  BY <1>1, <1>2, <1>3, <1>4, <1>5, <1>6, <1>7, <1>8 DEF DiskNext

\* A truncated index takes nothing that is still buffered.
LEMMA StillKept ==
    ASSUME DiskTypeOK, Recorded, IndexUnwritten
    PROVE  \A r \in repoDirs :
             StillKnown[r] <= Later(index'[r].at, Later(pending[r], taken[r]))
<1>1. CASE readable' = readable
  <2>1. index' = index /\ StillKnown = access
    BY <1>1 DEF IndexUnwritten, indexVars, StillKnown
  <2> QED
    BY <2>1 DEF Recorded
<1>2. CASE readable' # readable
  <2>1. index' = NoEntries
    BY <1>2 DEF IndexUnwritten, indexVars
  <2>2. ASSUME NEW r \in repoDirs
        PROVE  StillKnown[r] = Later(pending[r], taken[r]) /\ index'[r].at = 0
    BY <1>2, <2>1 DEF StillKnown, NoEntries, NoEntry, DiskTypeOK
  <2>3. \A r \in repoDirs : pending[r] \in Nat /\ taken[r] \in Nat
    BY DiskAssumption DEF DiskTypeOK, Time
  <2> QED
    BY <2>2, <2>3 DEF Later
<1> QED
  BY <1>1, <1>2

\* Every step keeps Recorded.
LEMMA RecordedStep ==
    ASSUME DiskTypeOK, MemoryInv, OverlayInv, Recorded, [DiskNext]_vars
    PROVE  Recorded'
<1> DEFINE known(r) == Later(index[r].at, Later(pending[r], taken[r]))
<1>0. \A r \in Repos : /\ index[r].at \in Time /\ pending[r] \in Time /\ taken[r] \in Time
                       /\ access[r] \in Time /\ clock \in Time
  BY DEF DiskTypeOK, Entry
<1>1. CASE ReserveBegin \/ SyncRepoIndex
  <2>1. \A r \in Repos : index'[r] = SyncedIndex[r] /\ access'[r] = SyncedAccess[r]
    BY <1>1 DEF ReserveBegin, SyncRepoIndex
  <2>2. repoDirs' = repoDirs /\ pending' = pending /\ taken' = taken
    BY <1>1 DEF ReserveBegin, SyncRepoIndex, memVars
  <2>3. \A r \in repoDirs : SyncedAccess[r] <= Later(SyncedIndex[r].at, Later(pending[r], taken[r]))
    BY <1>0, DiskAssumption DEF SyncedAccess, SyncedIndex, Recorded, DiskTypeOK, Later, Time, Entry
  <2> QED
    BY <2>1, <2>2, <2>3 DEF Recorded, DiskTypeOK
<1>2. CASE EvictVictim
  <2>1. PICK v \in Repos :
          /\ repoDirs' = repoDirs \ {v}
          /\ access' = [access EXCEPT ![v] = 0]
          /\ index' = [reserving.index EXCEPT ![v] = NoEntry]
    BY <1>2 DEF EvictVictim
  <2>2. \A r \in repoDirs' : /\ index'[r].at = reserving.index[r].at /\ access'[r] = access[r]
                              /\ index[r].at <= reserving.index[r].at
                              /\ reserving.index[r].at \in Time
    BY <1>2, <2>1 DEF EvictVictim, OverlayInv, DiskTypeOK, Reserving, Entry
  <2> QED
    BY <1>0, <1>2, <2>1, <2>2, DiskAssumption DEF EvictVictim, Recorded, Later, Time, DiskTypeOK
<1>3. CASE ReserveFull \/ EvictedEnough \/ ReserveGrant \/ ReserveUnmarked
  BY <1>3 DEF ReserveFull, EvictedEnough, ReserveGrant, ReserveUnmarked, diskVars, indexVars, Recorded
<1>4. ASSUME NEW i \in Ids,
             \/ Download(i) \/ DropMarker(i) \/ DropTemp(i) \/ DropActive(i)
             \/ DeleteTrash(i) \/ StartFail(i)
      PROVE  Recorded'
  BY <1>4 DEF Download, DropMarker, DropTemp, DropActive, DeleteTrash, StartFail,
              diskVars, indexVars, memVars, Recorded
<1>5. ASSUME NEW q \in Repos, InitRepo(q)
      PROVE  Recorded'
  BY <1>0, <1>5, DiskAssumption DEF InitRepo, indexVars, memVars, Recorded, Later, Time, DiskTypeOK
<1>6. ASSUME NEW q \in Repos,
             LockRepo(q) \/ UnlockRepo(q) \/ \E i \in Ids : Install(i, q)
      PROVE  Recorded'
  BY <1>6 DEF LockRepo, UnlockRepo, Install, diskVars, indexVars, memVars, Recorded
<1>7. ASSUME NEW q \in Repos,
             \/ RecordRepoAccess(q) \/ SetRepoProtected(q, TRUE) \/ SetRepoProtected(q, FALSE)
      PROVE  Recorded'
  BY <1>0, <1>7, DiskAssumption, SMTT(60)
  DEF RecordRepoAccess, SetRepoProtected, memVars, Recorded, Later, Time, DiskTypeOK, Entry
<1>8. ASSUME NEW q \in Repos, InvalidateRepo(q)
      PROVE  Recorded'
  <2>1. /\ repoDirs' = repoDirs \ {q} /\ taken' = taken
        /\ index' = [index EXCEPT ![q] = NoEntry]
        /\ pending' = [pending EXCEPT ![q] = 0]
        /\ access' = [access EXCEPT ![q] = 0]
    BY <1>8 DEF InvalidateRepo, RenameToTrash
  <2> QED
    BY <1>0, <2>1, DiskAssumption DEF Recorded, Later, Time, DiskTypeOK
<1>9. ASSUME NEW q \in Repos, NoteRepoAccess(q)
      PROVE  Recorded'
  BY <1>0, <1>9, DiskAssumption
  DEF NoteRepoAccess, diskVars, indexVars, Recorded, Later, Time, DiskTypeOK
<1>10. CASE FlushTake
  BY <1>0, <1>10, DiskAssumption
  DEF FlushTake, Flushing, NoTimes, diskVars, indexVars, Recorded, Later, Time, DiskTypeOK
<1>11. CASE FlushApply
  BY <1>0, <1>11, DiskAssumption, SMTT(60)
  DEF FlushApply, NoTimes, NoEntry, Recorded, Later, Time, DiskTypeOK, Entry
<1>12. CASE FlushFail
  <2>1. /\ access' = StillKnown /\ repoDirs' = repoDirs
        /\ \A r \in repoDirs : /\ pending'[r] = Later(pending[r], taken[r]) /\ taken'[r] = 0
                               /\ StillKnown[r] <= Later(index'[r].at, Later(pending[r], taken[r]))
    BY <1>12, StillKept DEF FlushFail, NoTimes, DiskTypeOK
  <2>2. \A r \in repoDirs : Later(Later(pending[r], taken[r]), 0) = Later(pending[r], taken[r])
    BY <1>0, DiskAssumption DEF Later, Time, DiskTypeOK
  <2> QED
    BY <2>1, <2>2 DEF Recorded
<1>13. CASE Crash
  <2>1. \A r \in repoDirs' : r \in Repos /\ access'[r] = index'[r].at /\ index'[r].at \in Time
                             /\ pending'[r] = 0 /\ taken'[r] = 0
    BY <1>13, FailureTypes DEF Crash, NothingInMemory, NoTimes, DiskTypeOK, Entry
  <2> QED
    BY <2>1, DiskAssumption DEF Recorded, Later, Time
<1>14. CASE Start \/ DiskTick
  BY <1>14 DEF Start, DiskTick, diskVars, indexVars, memVars, Recorded
<1>15. CASE UNCHANGED vars
  BY <1>15 DEF vars, diskVars, indexVars, memVars, Recorded
<1>16. CASE EvictFail \/ IndexWriteFails \/ \E q \in Repos : InvalidateFail(q)
  <2>1. CASE UNCHANGED <<repoDirs, indexVars, access, pending, taken>>
    BY <2>1 DEF Recorded, indexVars
  <2>2. ASSUME IndexUnwritten, UNCHANGED <<pending, taken>>,
               \A r \in repoDirs' : r \in repoDirs /\ access'[r] = StillKnown[r]
        PROVE  Recorded'
    BY <2>2, StillKept DEF Recorded
  <2>3. CASE EvictFail
    <3>1. PICK v \in Repos :
            \/ UNCHANGED <<repoDirs, indexVars, access>>
            \/ /\ repoDirs' = repoDirs \ {v}
               /\ IndexUnwritten
               /\ access' = [StillKnown EXCEPT ![v] = 0]
      BY <2>3 DEF EvictFail
    <3>2. UNCHANGED <<pending, taken>>
      BY <2>3 DEF EvictFail
    <3>3. StillKnown \in [Repos -> Time] /\ repoDirs \subseteq Repos
      BY FailureTypes DEF DiskTypeOK
    <3> QED
      BY <2>1, <2>2, <3>1, <3>2, <3>3
  <2>4. CASE IndexWriteFails
    BY <2>2, <2>4 DEF IndexWriteFails, IndexUnwritten, memVars
  <2>5. ASSUME NEW q \in Repos, InvalidateFail(q)
        PROVE  Recorded'
    <3>1. /\ repoDirs' = repoDirs \ {q} /\ UNCHANGED <<pending, taken>>
          /\ IndexUnwritten
          /\ access' = [StillKnown EXCEPT ![q] = 0]
      BY <2>5 DEF InvalidateFail, RenameToTrash
    <3>2. StillKnown \in [Repos -> Time] /\ repoDirs \subseteq Repos
      BY FailureTypes DEF DiskTypeOK
    <3> QED
      BY <2>2, <3>1, <3>2
  <2> QED
    BY <1>16, <2>3, <2>4, <2>5
<1> QED
  BY <1>1, <1>2, <1>3, <1>4, <1>5, <1>6, <1>7, <1>8, <1>9, <1>10, <1>11, <1>12, <1>13, <1>14,
     <1>15, <1>16 DEF DiskNext

Marked(i) == marker[i] # 0 \/ i \in torn

\* What is on disk for an id that nobody has is what could not be deleted.
ScratchOf(i) ==
    /\ stage[i] \in {"none", "removed"} /\ OnDisk(i) => i \in failed
    /\ stage[i] \in {"unmarked", "trash"} /\ Marked(i) => i \in failed
    /\ stage[i] = "held" /\ i \in torn => i \in failed

Scratch == up => \A i \in Ids : ScratchOf(i)

\* It survives what leaves an id alone, whatever else fails.
LEMMA ScratchSame ==
    ASSUME NEW i \in Ids, ScratchOf(i), i \in tmpDirs' => i \in tmpDirs, marker'[i] = marker[i],
           i \in torn' => i \in torn, stage'[i] = stage[i], failed \subseteq failed'
    PROVE  ScratchOf(i)'
BY DEF ScratchOf, OnDisk, Marked

\* Every step keeps Scratch: what a start finds under tmp/ has no owner and goes.
LEMMA ScratchStep ==
    ASSUME DiskTypeOK, DiskTypeOK', MemoryInv, Scratch, [DiskNext]_vars
    PROVE  Scratch'
<1> USE DEF DiskTypeOK
<1>1. CASE UNCHANGED <<tmpDirs, marker, torn, stage, failed, up>>
  BY <1>1, ScratchSame DEF Scratch
<1>2. CASE \/ ReserveBegin \/ EvictVictim \/ EvictFail \/ ReserveFull \/ EvictedEnough
           \/ SyncRepoIndex \/ IndexWriteFails \/ FlushTake \/ FlushApply \/ FlushFail
           \/ DiskTick \/ UNCHANGED vars
  <2>1. UNCHANGED <<tmpDirs, marker, torn, stage, failed, up>>
    BY <1>2 DEF ReserveBegin, EvictVictim, EvictFail, ReserveFull, EvictedEnough,
                SyncRepoIndex, IndexWriteFails, FlushTake, FlushApply, FlushFail, DiskTick,
                vars, diskVars, memVars, tmpVars
  <2> QED
    BY <1>1, <2>1
<1>3. CASE ReserveGrant
  <2>1. CASE UNCHANGED <<tmpDirs, marker, active, stage, left>>
    BY <1>1, <1>3, <2>1 DEF ReserveGrant
  <2>2. CASE Accountable /\ Fits(reserving.bytes)
    <3>1. PICK i \in Ids : /\ FreshId(i)
                           /\ tmpDirs' = tmpDirs \cup {i}
                           /\ marker' = [marker EXCEPT ![i] = reserving.bytes]
                           /\ stage' = [stage EXCEPT ![i] = "held"]
      BY <1>3, <2>2 DEF ReserveGrant
    <3>2. UNCHANGED <<torn, failed, up>>
      BY <1>3 DEF ReserveGrant
    <3>3. ScratchOf(i)'
      BY <3>1, <3>2 DEF ScratchOf, FreshId, OnDisk
    <3>4. ASSUME NEW j \in Ids, j # i, ScratchOf(j) PROVE ScratchOf(j)'
      BY <3>1, <3>2, <3>4, ScratchSame
    <3> QED
      BY <3>2, <3>3, <3>4 DEF Scratch
  <2> QED
    BY <1>3, <2>1, <2>2 DEF ReserveGrant
<1>4. CASE ReserveUnmarked
  <2>1. PICK i \in Ids : /\ tmpDirs' = tmpDirs \cup {i}
                         /\ torn' \in {torn, torn \cup {i}}
                         /\ failed' = failed \cup {i}
    BY <1>4 DEF ReserveUnmarked, LeftBehind
  <2>2. UNCHANGED <<marker, stage, up>>
    BY <1>4 DEF ReserveUnmarked
  <2>3. ASSUME NEW j \in Ids, j # i, ScratchOf(j) PROVE ScratchOf(j)'
    BY <2>1, <2>2, <2>3, ScratchSame
  <2>4. ScratchOf(i)'
    BY <2>1 DEF ScratchOf
  <2> QED
    BY <2>2, <2>3, <2>4 DEF Scratch
<1>5. ASSUME NEW i \in Ids,
             DropMarker(i) \/ DropTemp(i) \/ DropActive(i) \/ DeleteTrash(i)
      PROVE  Scratch'
  <2>1. /\ UNCHANGED <<torn, up>> /\ failed \subseteq failed'
        /\ \A j \in Ids : j # i => /\ j \in tmpDirs' <=> j \in tmpDirs
                                  /\ marker'[j] = marker[j] /\ stage'[j] = stage[j]
    BY <1>5 DEF DropMarker, DropTemp, DropActive, DeleteTrash, RemoveTemp, LeftBehind,
                diskVars, tmpVars
  <2>2. ASSUME NEW j \in Ids, j # i, ScratchOf(j) PROVE ScratchOf(j)'
    BY <2>1, <2>2, ScratchSame
  <2>3. ASSUME ScratchOf(i) PROVE ScratchOf(i)'
    <3>1. CASE DropMarker(i)
      BY <2>3, <3>1 DEF DropMarker, LeftBehind, ScratchOf, OnDisk, Marked
    <3>2. CASE DropTemp(i)
      BY <2>3, <3>2 DEF DropTemp, RemoveTemp, LeftBehind, ScratchOf, OnDisk, Marked
    <3>3. CASE DropActive(i)
      BY <2>3, <3>3 DEF DropActive, diskVars, tmpVars, ScratchOf, OnDisk, Marked
    <3>4. CASE DeleteTrash(i)
      BY <2>3, <3>4 DEF DeleteTrash, RemoveTemp, LeftBehind, ScratchOf, OnDisk, Marked
    <3> QED
      BY <1>5, <3>1, <3>2, <3>3, <3>4
  <2> QED
    BY <2>1, <2>2, <2>3 DEF Scratch
<1>6. ASSUME NEW i \in Ids, Download(i) \/ \E r \in Repos : Install(i, r)
      PROVE  Scratch'
  BY <1>1, <1>6 DEF Download, Install, memVars
<1>7. ASSUME NEW r \in Repos,
             \/ InitRepo(r) \/ LockRepo(r) \/ UnlockRepo(r) \/ RecordRepoAccess(r)
             \/ SetRepoProtected(r, TRUE) \/ SetRepoProtected(r, FALSE) \/ NoteRepoAccess(r)
      PROVE  Scratch'
  <2>1. UNCHANGED <<tmpDirs, marker, torn, stage, failed, up>>
    BY <1>7 DEF InitRepo, LockRepo, UnlockRepo, RecordRepoAccess, SetRepoProtected,
                NoteRepoAccess, diskVars, memVars, tmpVars
  <2> QED
    BY <1>1, <2>1
<1>8. ASSUME NEW r \in Repos, InvalidateRepo(r)
      PROVE  Scratch'
  <2>1. UNCHANGED <<marker, torn, failed, up>>
    BY <1>8 DEF InvalidateRepo
  <2>2. CASE r \notin repoDirs
    BY <1>1, <1>8, <2>1, <2>2 DEF InvalidateRepo
  <2>3. CASE r \in repoDirs
    <3>1. PICK i \in Ids : RenameToTrash(r, i) /\ stage' = [stage EXCEPT ![i] = "trash"]
      BY <1>8, <2>3 DEF InvalidateRepo
    <3>2. ScratchOf(i)'
      BY <2>1, <3>1 DEF RenameToTrash, FreshId, ScratchOf, OnDisk, Marked
    <3>3. ASSUME NEW j \in Ids, j # i, ScratchOf(j) PROVE ScratchOf(j)'
      BY <2>1, <3>1, <3>3, ScratchSame DEF RenameToTrash
    <3> QED
      BY <2>1, <3>2, <3>3 DEF Scratch
  <2> QED
    BY <2>2, <2>3
<1>9. ASSUME NEW r \in Repos, InvalidateFail(r)
      PROVE  Scratch'
  <2>1. PICK i \in Ids : RenameToTrash(r, i) /\ LeftBehind(i)
    BY <1>9 DEF InvalidateFail
  <2>2. UNCHANGED <<marker, torn, stage, up>>
    BY <1>9 DEF InvalidateFail
  <2>3. ScratchOf(i)'
    BY <2>1 DEF LeftBehind, ScratchOf
  <2>4. ASSUME NEW j \in Ids, j # i, ScratchOf(j) PROVE ScratchOf(j)'
    BY <2>1, <2>2, <2>4, ScratchSame DEF RenameToTrash, LeftBehind
  <2> QED
    BY <2>2, <2>3, <2>4 DEF Scratch
<1>10. CASE Crash
  BY <1>10 DEF Crash, Scratch
<1>11. CASE Start
  <2>1. /\ \A i \in Ids : active[i] = 0 /\ stage'[i] = "none"
        /\ tmpDirs' = {} /\ torn' = {} /\ \A i \in Ids : marker'[i] = 0
    BY <1>11 DEF Start, MemoryInv, NoBytes, memVars
  <2> QED
    BY <2>1 DEF Scratch, ScratchOf, OnDisk, Marked
<1>12. ASSUME NEW i \in Ids, StartFail(i)
       PROVE  Scratch'
  BY <1>12 DEF StartFail, Scratch
<1> QED
  BY <1>2, <1>3, <1>4, <1>5, <1>6, <1>7, <1>8, <1>9, <1>10, <1>11, <1>12 DEF DiskNext

-----------------------------------------------------------------------------
(* Space                                                                   *)

\* The totals are natural numbers, and what holders may still write was counted
\* as reserved.
LEMMA Totals ==
    ASSUME DiskTypeOK, MemoryInv
    PROVE  /\ SumFunction(size) \in Nat /\ SumFunction(tmpBytes) \in Nat
           /\ SumFunction(left) \in Nat /\ ReservedBytes \in Nat
           /\ SumFunction(left) <= ReservedBytes
<1> DEFINE reserved == [i \in Ids |-> Later(marker[i], active[i])]
<1>1. left \in [Ids -> Nat] /\ size \in [Repos -> Nat] /\ tmpBytes \in [Ids -> Nat]
  BY DiskAssumption DEF DiskTypeOK
<1>2. reserved \in [Ids -> Nat] /\ \A i \in Ids : left[i] <= reserved[i]
  BY DiskAssumption DEF DiskTypeOK, MemoryInv, Later
<1>3. ReservedBytes = SumFunction(reserved)
  BY DEF ReservedBytes
<1> HIDE DEF reserved
<1>4. SumFunction(left) <= SumFunction(reserved)
  BY <1>1, <1>2, DiskAssumption, SumFunctionLeq
<1> QED
  BY <1>1, <1>2, <1>3, <1>4, DiskAssumption, SumFunctionNat

\* A step that leaves the bytes alone, or takes some away, keeps within the limit.
LEMMA NoMoreBytes ==
    ASSUME DiskTypeOK, DiskTypeOK', NoOverAllocation,
           \A r \in Repos : size'[r] <= size[r],
           \A i \in Ids : tmpBytes'[i] <= tmpBytes[i] /\ left'[i] <= left[i]
    PROVE  NoOverAllocation'
<1>1. /\ left \in [Ids -> Nat] /\ size \in [Repos -> Nat] /\ tmpBytes \in [Ids -> Nat]
      /\ left' \in [Ids -> Nat] /\ size' \in [Repos -> Nat] /\ tmpBytes' \in [Ids -> Nat]
  BY DiskAssumption DEF DiskTypeOK
<1>2. /\ SumFunction(size') <= SumFunction(size)
      /\ SumFunction(tmpBytes') <= SumFunction(tmpBytes)
      /\ SumFunction(left') <= SumFunction(left)
  BY <1>1, DiskAssumption, SumFunctionLeq
<1>3. /\ SumFunction(size') \in Nat /\ SumFunction(tmpBytes') \in Nat /\ SumFunction(left') \in Nat
      /\ SumFunction(size) \in Nat /\ SumFunction(tmpBytes) \in Nat /\ SumFunction(left) \in Nat
  BY <1>1, DiskAssumption, SumFunctionNat
<1> QED
  BY <1>2, <1>3, DiskAssumption DEF NoOverAllocation, UsedBytes

\* Every step keeps what is on disk and what may still be written within MaxUsable.
LEMMA SpaceStep ==
    ASSUME DiskTypeOK, DiskTypeOK', MemoryInv, NoOverAllocation, [DiskNext]_vars
    PROVE  NoOverAllocation'
<1>0. /\ left \in [Ids -> Nat] /\ size \in [Repos -> Nat] /\ tmpBytes \in [Ids -> Nat]
  BY DiskAssumption DEF DiskTypeOK
<1>i. \A f \in [Ids -> Nat], x \in Ids, v \in Nat : \A h :
          h = [f EXCEPT ![x] = v] => SumFunction(h) = SumFunction(f) - f[x] + v
  BY DiskAssumption, SumUpdate
<1>r. \A f \in [Repos -> Nat], x \in Repos, v \in Nat : \A h :
          h = [f EXCEPT ![x] = v] => SumFunction(h) = SumFunction(f) - f[x] + v
  BY DiskAssumption, SumUpdate
<1>1. CASE UNCHANGED <<size, tmpBytes, left>>
  BY <1>1 DEF NoOverAllocation, UsedBytes
<1>2. CASE EvictVictim
  <2>1. PICK v \in Repos : size' = [size EXCEPT ![v] = 0]
    BY <1>2 DEF EvictVictim
  <2>2. tmpBytes' = tmpBytes /\ left' = left
    BY <1>2 DEF EvictVictim, tmpVars
  <2> QED
    BY <1>0, <2>1, <2>2, NoMoreBytes
<1>13. CASE EvictFail
  <2>1. PICK v \in Repos : \E kept \in 0 .. size[v] : size' = [size EXCEPT ![v] = kept]
    <3>1. PICK v \in Repos : \/ \E kept \in 0 .. size[v] : size' = [size EXCEPT ![v] = kept]
                             \/ size' = [size EXCEPT ![v] = 0]
      BY <1>13 DEF EvictFail
    <3>2. size[v] \in Nat
      BY <1>0
    <3> QED
      BY <3>1, <3>2
  <2>2. tmpBytes' = tmpBytes /\ left' = left
    BY <1>13 DEF EvictFail, tmpVars
  <2> QED
    BY <1>0, <2>1, <2>2, NoMoreBytes
<1>3. CASE ReserveGrant
  <2> DEFINE bytes == reserving.bytes
  <2>1. SUFFICES ASSUME Fits(bytes), NEW i \in Ids, FreshId(i),
                        left' = [left EXCEPT ![i] = bytes]
                 PROVE  NoOverAllocation'
    BY <1>1, <1>3 DEF ReserveGrant
  <2>2. bytes \in Nat /\ left[i] = 0
    BY <2>1, DiskAssumption DEF DiskTypeOK, Reserving, FreshId, MemoryInv
  <2>3. SumFunction(left') = SumFunction(left) - left[i] + bytes
    BY <1>0, <2>1, <2>2, <1>i, ZenonT(60)
  <2>4. size' = size /\ tmpBytes' = tmpBytes
    BY <1>3 DEF ReserveGrant
  <2>5. UsedBytes + ReservedBytes + bytes <= MaxUsable
    BY <2>1 DEF Fits
  <2> HIDE DEF bytes
  <2> QED
    BY <2>2, <2>3, <2>4, <2>5, Totals, DiskAssumption DEF NoOverAllocation, UsedBytes
<1>4. ASSUME NEW i \in Ids, Download(i)
      PROVE  NoOverAllocation'
  <2>1. tmpBytes[i] \in Nat /\ left[i] \in Nat /\ left[i] > 0
    BY <1>0, <1>4 DEF Download
  <2>2. /\ tmpBytes' = [tmpBytes EXCEPT ![i] = tmpBytes[i] + 1]
        /\ left' = [left EXCEPT ![i] = left[i] - 1]
        /\ size' = size
    BY <1>4 DEF Download
  <2>3. tmpBytes[i] + 1 \in Nat /\ left[i] - 1 \in Nat
    BY <2>1
  <2>4. SumFunction(tmpBytes') = SumFunction(tmpBytes) - tmpBytes[i] + (tmpBytes[i] + 1)
    <3>1. tmpBytes' = [tmpBytes EXCEPT ![i] = tmpBytes[i] + 1]
      BY <2>2
    <3> QED
      BY <1>0, <2>3, <3>1, <1>i, ZenonT(60)
  <2>5. SumFunction(left') = SumFunction(left) - left[i] + (left[i] - 1)
    <3>1. PICK v \in Nat : v = left[i] - 1
      BY <2>3
    <3>2. left' = [left EXCEPT ![i] = v]
      BY <2>2, <3>1
    <3>3. SumFunction(left') = SumFunction(left) - left[i] + v
      BY <1>0, <3>2, <1>i, ZenonT(60)
    <3> QED
      BY <3>1, <3>3
  <2> QED
    BY <2>1, <2>2, <2>4, <2>5, Totals, DiskAssumption DEF NoOverAllocation, UsedBytes
<1>5. ASSUME NEW i \in Ids, NEW r \in Repos, Install(i, r)
      PROVE  NoOverAllocation'
  <2>1. tmpBytes[i] \in Nat /\ size[r] \in Nat /\ size[r] + tmpBytes[i] \in Nat
    BY <1>0
  <2>2. /\ size' = [size EXCEPT ![r] = size[r] + tmpBytes[i]]
        /\ tmpBytes' = [tmpBytes EXCEPT ![i] = 0]
        /\ left' = left
    BY <1>5 DEF Install, memVars
  <2>3. SumFunction(size') = SumFunction(size) - size[r] + (size[r] + tmpBytes[i])
    BY <1>0, <2>1, <2>2, <1>r, ZenonT(60)
  <2>4. SumFunction(tmpBytes') = SumFunction(tmpBytes) - tmpBytes[i] + 0
    BY <1>0, <2>2, <1>i, ZenonT(60)
  <2> QED
    BY <2>1, <2>2, <2>3, <2>4, Totals, DiskAssumption DEF NoOverAllocation, UsedBytes
<1>6. ASSUME NEW i \in Ids, DropMarker(i) \/ DropTemp(i) \/ DeleteTrash(i) \/ StartFail(i)
      PROVE  NoOverAllocation'
  <2>1. /\ size' = size
        /\ left' = left \/ left' = [left EXCEPT ![i] = 0]
        /\ tmpBytes' = tmpBytes \/ \E kept \in 0 .. tmpBytes[i] : tmpBytes' = [tmpBytes EXCEPT ![i] = kept]
    <3>1. 0 \in 0 .. tmpBytes[i]
      BY <1>0
    <3> QED
      BY <1>6, <3>1 DEF DropMarker, DropTemp, DeleteTrash, StartFail, RemoveTemp, memVars
  <2> QED
    BY <1>0, <2>1, NoMoreBytes
<1>7. ASSUME NEW r \in Repos, InvalidateRepo(r) \/ InvalidateFail(r)
      PROVE  NoOverAllocation'
  <2>0. CASE UNCHANGED <<size, tmpBytes, left>>
    BY <1>1, <2>0
  <2>1. SUFFICES ASSUME NEW i \in Ids, RenameToTrash(r, i), left' = left
                 PROVE  NoOverAllocation'
    BY <1>7, <2>0 DEF InvalidateRepo, InvalidateFail
  <2>2. SumFunction(size') = SumFunction(size) - size[r] + 0
    <3>1. size' = [size EXCEPT ![r] = 0]
      BY <2>1 DEF RenameToTrash
    <3> QED
      BY <1>0, <3>1, <1>r, ZenonT(60)
  <2>3. size[r] \in Nat /\ tmpBytes[i] \in Nat
    BY <1>0
  <2>4. SumFunction(tmpBytes') = SumFunction(tmpBytes) - tmpBytes[i] + size[r]
    <3>1. tmpBytes' = [tmpBytes EXCEPT ![i] = size[r]]
      BY <2>1 DEF RenameToTrash
    <3> QED
      BY <1>0, <2>3, <3>1, <1>i, ZenonT(60)
  <2> QED
    BY <2>1, <2>2, <2>3, <2>4, Totals, DiskAssumption DEF NoOverAllocation, UsedBytes
<1>8. CASE Crash
  BY <1>0, <1>8, NoMoreBytes DEF Crash, NothingInMemory, NoBytes, tmpVars
<1>9. CASE Start
  BY <1>0, <1>9, NoMoreBytes DEF Start, memVars
<1>10. ASSUME NEW i \in Ids, DropActive(i)
       PROVE  UNCHANGED <<size, tmpBytes, left>>
  BY <1>10 DEF DropActive, diskVars, tmpVars
<1>11. ASSUME NEW r \in Repos,
              \/ InitRepo(r) \/ LockRepo(r) \/ UnlockRepo(r) \/ RecordRepoAccess(r)
              \/ SetRepoProtected(r, TRUE) \/ SetRepoProtected(r, FALSE) \/ NoteRepoAccess(r)
       PROVE  UNCHANGED <<size, tmpBytes, left>>
  BY <1>11 DEF InitRepo, LockRepo, UnlockRepo, RecordRepoAccess, SetRepoProtected,
               NoteRepoAccess, diskVars, memVars, tmpVars
<1>12. CASE \/ ReserveBegin \/ ReserveFull \/ EvictedEnough \/ ReserveUnmarked
            \/ SyncRepoIndex \/ IndexWriteFails \/ FlushTake \/ FlushApply \/ FlushFail \/ DiskTick
            \/ UNCHANGED vars
  <2>1. UNCHANGED <<size, tmpBytes, left>>
    BY <1>12 DEF ReserveBegin, ReserveFull, EvictedEnough, ReserveUnmarked, SyncRepoIndex,
                 IndexWriteFails, FlushTake, FlushApply, FlushFail, DiskTick, vars, diskVars,
                 memVars, tmpVars
  <2> QED
    BY <1>1, <2>1
<1> QED
  BY <1>1, <1>2, <1>3, <1>4, <1>5, <1>6, <1>7, <1>8, <1>9, <1>10, <1>11, <1>12, <1>13 DEF DiskNext

-----------------------------------------------------------------------------
(* Theorems                                                                *)

DiskInv == DiskTypeOK /\ MemoryInv /\ OverlayInv /\ Recorded /\ Scratch /\ NoOverAllocation

\* The invariant holds in the first state: a new, empty cache root.
LEMMA DiskInvInit == DiskInit => DiskInv
<1> SUFFICES ASSUME DiskInit PROVE DiskInv
  OBVIOUS
<1>1. DiskTypeOK
  BY TypeInit
<1>2. MemoryInv /\ OverlayInv /\ Recorded /\ Scratch
  BY DEF DiskInit, MemoryInv, OverlayInv, Recorded, Scratch, ScratchOf, OnDisk, Marked, NoBytes,
         NotReserving
<1>3. NoOverAllocation
  <2>1. size \in [Repos -> Nat] /\ tmpBytes \in [Ids -> Nat] /\ left \in [Ids -> Nat]
    BY DiskAssumption, <1>1 DEF DiskTypeOK
  <2>2. ASSUME NEW S, IsFiniteSet(S), NEW f, f = [x \in S |-> 0]
        PROVE  SumFunction(f) = 0
    BY <2>2, SumZero DEF SumFunction
  <2> QED
    BY <2>1, <2>2, DiskAssumption DEF DiskInit, NoOverAllocation, UsedBytes, NoTimes, NoBytes
<1> QED
  BY <1>1, <1>2, <1>3 DEF DiskInv

\* Every step keeps it.
LEMMA DiskInvStep == DiskInv /\ [DiskNext]_vars => DiskInv'
BY TypeStep, MemoryStep, OverlayStep, RecordedStep, ScratchStep, SpaceStep DEF DiskInv

\* The inductive invariant holds throughout.
LEMMA DiskInvariant == DiskSpec => []DiskInv
<1>1. DiskInit => DiskInv
  BY DiskInvInit
<1>2. DiskInv /\ [DiskNext]_vars => DiskInv'
  BY DiskInvStep
<1> QED
  BY <1>1, <1>2, PTL DEF DiskSpec

\* Every reachable state of the disk manager is well typed.
THEOREM DiskTypeCorrect == DiskSpec => []DiskTypeOK
<1>1. DiskInv => DiskTypeOK
  BY DEF DiskInv
<1> QED
  BY <1>1, DiskInvariant, PTL

\* "Reservations cannot over-allocate": whatever holders write, drop, evict or
\* invalidate, with crashes and restarts, the disk stays within the usable bytes.
THEOREM SpaceNeverOverAllocated == DiskSpec => []NoOverAllocation
<1>1. DiskInv => NoOverAllocation
  BY DEF DiskInv
<1> QED
  BY <1>1, DiskInvariant, PTL

\* flush_repo_accesses loses no access, also when eviction rewrites the index
\* between its two halves, or the index cannot be read or written: what a
\* truncated index takes is what had been flushed to it, never what is buffered.
THEOREM AccessesNeverLost == DiskSpec => []AccessesKept
<1>1. DiskInv => AccessesKept
  BY DEF DiskInv, Recorded, AccessesKept
<1> QED
  BY <1>1, DiskInvariant, PTL

\* After a start nothing of an earlier process is under tmp/ or reservations/,
\* wherever it crashed and whatever it or earlier cleanups failed to delete.
THEOREM ScratchAlwaysOwned == DiskSpec => []NoOrphanScratch
<1>1. DiskInv => NoOrphanScratch
  BY DEF DiskInv, Scratch, ScratchOf, NoOrphanScratch
<1> QED
  BY <1>1, DiskInvariant, PTL

\* Neither eviction nor invalidation removes a repository that is locked, and
\* eviction none that is protected.
THEOREM PinnedAlwaysKept == DiskSpec => PinnedKept
<1> DEFINE kept == \A r \in repoDirs :
        locks[r] > 0 \/ (reserving.pc # "none" /\ index[r].protected) => r \in repoDirs'
<1>1. DiskInv /\ [DiskNext]_vars => [kept]_vars
  <2> SUFFICES ASSUME DiskInv, DiskNext PROVE kept
    OBVIOUS
  <2>1. CASE EvictVictim
    <3>1. PICK v \in Repos : LruEvictableRepo(v) /\ repoDirs' = repoDirs \ {v}
      BY <2>1 DEF EvictVictim
    <3>2. locks[v] = 0 /\ ~reserving.index[v].protected
      BY <3>1 DEF LruEvictableRepo, Evictable
    <3>3. ~index[v].protected
      BY <2>1, <3>2, Zenon DEF EvictVictim, DiskInv, OverlayInv
    <3> QED
      BY <3>1, <3>2, <3>3
  <2>9. CASE EvictFail
    <3>1. PICK v \in Repos : LruEvictableRepo(v) /\ repoDirs \ {v} \subseteq repoDirs'
      BY <2>9 DEF EvictFail
    <3>2. locks[v] = 0 /\ ~reserving.index[v].protected
      BY <3>1 DEF LruEvictableRepo, Evictable
    <3>3. ~index[v].protected
      BY <2>9, <3>2, Zenon DEF EvictFail, DiskInv, OverlayInv
    <3> QED
      BY <3>1, <3>2, <3>3
  <2>2. ASSUME NEW q \in Repos, InvalidateRepo(q) \/ InvalidateFail(q) PROVE kept
    BY <2>2 DEF InvalidateRepo, InvalidateFail, RenameToTrash, MutexFree
  <2>3. CASE repoDirs \subseteq repoDirs'
    BY <2>3
  <2>4. CASE ReserveBegin \/ ReserveFull \/ EvictedEnough \/ ReserveGrant \/ ReserveUnmarked
    BY <2>3, <2>4 DEF ReserveBegin, ReserveFull, EvictedEnough, ReserveGrant, ReserveUnmarked,
                      diskVars
  <2>5. ASSUME NEW i \in Ids,
               \/ Download(i) \/ DropMarker(i) \/ DropTemp(i) \/ DropActive(i)
               \/ DeleteTrash(i) \/ StartFail(i)
        PROVE  kept
    BY <2>3, <2>5 DEF Download, DropMarker, DropTemp, DropActive, DeleteTrash, StartFail, diskVars
  <2>6. ASSUME NEW r \in Repos,
               \/ InitRepo(r) \/ LockRepo(r) \/ UnlockRepo(r) \/ RecordRepoAccess(r)
               \/ SetRepoProtected(r, TRUE) \/ SetRepoProtected(r, FALSE)
               \/ NoteRepoAccess(r) \/ \E i \in Ids : Install(i, r)
        PROVE  kept
    BY <2>3, <2>6 DEF InitRepo, LockRepo, UnlockRepo, RecordRepoAccess, SetRepoProtected,
                      NoteRepoAccess, Install, diskVars
  <2>7. CASE SyncRepoIndex \/ IndexWriteFails \/ FlushTake \/ FlushApply \/ FlushFail
    BY <2>3, <2>7 DEF SyncRepoIndex, IndexWriteFails, FlushTake, FlushApply, FlushFail, diskVars
  <2>8. CASE Crash \/ Start \/ DiskTick
    BY <2>3, <2>8 DEF Crash, Start, DiskTick, diskVars
  <2> QED
    BY <2>1, <2>2, <2>4, <2>5, <2>6, <2>7, <2>8, <2>9 DEF DiskNext
<1> QED
  BY <1>1, DiskInvariant, PTL DEF DiskSpec, PinnedKept

=============================================================================
