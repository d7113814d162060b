-------------------------- MODULE SupervisorProofs --------------------------
(***************************************************************************)
(* What the proofs about the strategies share: lemmas about the operators  *)
(* and the steps of Supervisor.                                            *)
(***************************************************************************)
EXTENDS Supervisor, SequenceTheorems, WellFoundedInduction, TLAPS

\* A stop leaves a supervisee dead or owing an exit, and only the latter
\* counts as owing.
LEMMA StopStates ==
  ASSUME NEW state \in ChildStates
  PROVE  /\ StopState(state) \in {"Dead", "ShuttingDown"}
         /\ Owes(state) <=> StopState(state) = "ShuttingDown"
  BY DEF ChildStates, StopState, Owes

\* Charging children whose budgets allow it stays within the budgets.
LEMMA ChargeType ==
  ASSUME NEW cp \in [Names -> 0..MaxChildRestarts], NEW S \in SUBSET Names,
         \A n \in S : ChildAllows(cp, n)
  PROVE  Charge(cp, S) \in [Names -> 0..MaxChildRestarts]
  BY SupervisorAssumption DEF ChildAllows, Charge

\* The supervisor's permits stay within its budget.
LEMMA PermitType ==
  ASSUME permits \in 0..MaxRestarts, TakeSupervisorPermit
  PROVE  permits' \in 0..MaxRestarts
  BY SupervisorAssumption DEF TakeSupervisorPermit, SupervisorAllows

\* A restart that falls out of its window frees a permit that was taken.
LEMMA WindowType ==
  ASSUME TypeOK, WindowPasses
  PROVE  /\ permits' \in 0..MaxRestarts
         /\ childPermits' \in [Names -> 0..MaxChildRestarts]
         /\ UNCHANGED <<order, specs, child, status, initializing, exiting>>
<1>1. /\ permits \in 0..MaxRestarts
      /\ childPermits \in [Names -> 0..MaxChildRestarts]
  BY DEF TypeOK
<1>2. CASE permits > 0 /\ permits' = permits - 1 /\ UNCHANGED childPermits
  BY <1>1, <1>2, SupervisorAssumption DEF WindowPasses
<1>3. ASSUME NEW n \in specs, childPermits[n] > 0,
             childPermits' = [childPermits EXCEPT ![n] = @ - 1]
      PROVE  childPermits' \in [Names -> 0..MaxChildRestarts]
  <2>1. n \in Names
    BY DEF TypeOK
  <2>2. childPermits[n] - 1 \in 0..MaxChildRestarts
    BY <1>1, <1>3, <2>1, SupervisorAssumption
  <2> QED BY <1>1, <1>3, <2>2
<1> QED BY <1>1, <1>2, <1>3 DEF WindowPasses

\* A name that is registered has its place in the map, the old one or a new one.
LEMMA RegisterType ==
  ASSUME TypeOK, NEW n \in Names, Register(n)
  PROVE  /\ TypeOK' /\ Working /\ n \notin specs /\ specs' = specs \cup {n}
         /\ \A m \in Names : child'[m] = IF m = n THEN "Starting" ELSE child[m]
         /\ UNCHANGED <<status, initializing, exiting>>
<1>1. /\ Working /\ n \notin specs /\ specs' = specs \cup {n}
      /\ child' = [child EXCEPT ![n] = "Starting"]
      /\ childPermits' = [childPermits EXCEPT ![n] = 0]
      /\ UNCHANGED <<status, initializing, exiting, permits>>
  BY DEF Register, MayRegister, KeepPlace
<1>2. /\ order' \in Seq(Names)
      /\ specs' \subseteq {order'[i] : i \in DOMAIN order'}
  <2>1. CASE order' = order /\ \E i \in DOMAIN order : order[i] = n
    BY <1>1, <2>1 DEF TypeOK
  <2>2. CASE order' = Append(order, n)
    <3>1. /\ order \in Seq(Names)
          /\ specs \subseteq {order[i] : i \in DOMAIN order}
      BY DEF TypeOK
    <3>2. /\ order' \in Seq(Names) /\ Len(order') = Len(order) + 1
          /\ \A i \in 1..Len(order) : order'[i] = order[i]
          /\ order'[Len(order) + 1] = n
      BY <2>2, <3>1, AppendProperties
    <3>3. DOMAIN order = 1..Len(order) /\ DOMAIN order' = 1..Len(order')
          /\ Len(order) \in Nat
      BY <3>1, <3>2, LenProperties
    <3> QED BY <1>1, <3>1, <3>2, <3>3
  <2> QED BY <2>1, <2>2 DEF Register, KeepPlace
<1>3. childPermits' \in [Names -> 0..MaxChildRestarts]
  BY <1>1, SupervisorAssumption DEF TypeOK
<1>4. /\ child' \in [Names -> ChildStates]
      /\ \A m \in Names : child'[m] = IF m = n THEN "Starting" ELSE child[m]
  BY <1>1 DEF TypeOK, ChildStates
<1>5. TypeOK'
  BY <1>1, <1>2, <1>3, <1>4 DEF TypeOK
<1> QED BY <1>1, <1>4, <1>5

\* Everything is started at once, and waited for to initialize.
LEMMA InitType == Init => TypeOK
<1> SUFFICES ASSUME Init PROVE TypeOK
  OBVIOUS
<1>1. /\ order \in Seq(Names) /\ specs \subseteq Names
      /\ child \in [Names -> ChildStates]
  BY SupervisorAssumption, ElementOfSeq DEF Init, ChildStates
<1> QED BY <1>1, SupervisorAssumption DEF Init, TypeOK

-----------------------------------------------------------------------------
(* The parts of a sequence.                                                *)

\* A set of numbers has a least one,
LEMMA Least ==
  ASSUME NEW T \in SUBSET Nat, T # {}
  PROVE  \E n \in T : \A m \in T : n <= m
<1> DEFINE R == OpToRel(<, Nat)
<1>1. \E n \in T : \A m \in T : <<m, n>> \notin R
  <2>1. IsWellFoundedOn(R, Nat)
    BY NatLessThanWellFounded
  <2> HIDE DEF R
  <2> QED BY <2>1, WFMin
<1>2. \A n, m \in Nat : <<m, n>> \in R <=> m < n
  BY DEF OpToRel
<1> HIDE DEF R
<1>3. PICK n \in T : \A m \in T : <<m, n>> \notin R
  BY <1>1
<1>4. ASSUME NEW m \in T PROVE n <= m
  <2>1. n \in Nat /\ m \in Nat /\ ~(m < n)
    BY <1>2, <1>3
  <2> QED BY <2>1
<1> QED BY <1>4

\* and a greatest one, when there is a bound on it.
LEMMA Greatest ==
  ASSUME NEW k \in Nat, NEW T \in SUBSET (1..k), T # {}
  PROVE  \E n \in T : \A m \in T : n >= m
<1> DEFINE U == {k - n : n \in T}
<1>1. U \in SUBSET Nat /\ U # {}
  <2>1. \A n \in T : k - n \in Nat
    OBVIOUS
  <2> QED BY <2>1
<1>2. PICK u \in U : \A v \in U : u <= v
  <2> HIDE DEF U
  <2> QED BY <1>1, Least
<1>3. PICK n \in T : u = k - n
  BY <1>2
<1>4. ASSUME NEW m \in T PROVE n >= m
  <2>1. k - n <= k - m
    BY <1>2, <1>3
  <2> QED BY <2>1
<1> QED BY <1>4

\* f is what Only computes for the beginnings of seq, up to the one of length k.
Filters(f, seq, S, k) ==
  f = [i \in 0..k |-> IF i = 0 THEN <<>>
                      ELSE IF seq[i] \in S THEN Append(f[i - 1], seq[i]) ELSE f[i - 1]]

LEMMA FilterExists ==
  ASSUME NEW k \in Nat, NEW seq, NEW S
  PROVE  \E f : Filters(f, seq, S, k)
<1> DEFINE D == {n \in 0..k : \A f : ~Filters(f, seq, S, n)}
<1> SUFFICES ASSUME D # {} PROVE FALSE
  <2>1. k \in 0..k
    OBVIOUS
  <2>2. ~ \A f : ~Filters(f, seq, S, k)
    BY <2>1
  <2> QED BY <2>2
<1>1. D \in SUBSET Nat
  OBVIOUS
<1>2. PICK n \in D : \A m \in D : n <= m
  <2> HIDE DEF D
  <2> QED BY <1>1, Least
<1>3. n # 0
  <2>1. Filters([i \in 0..0 |-> <<>>], seq, S, 0)
    BY DEF Filters
  <2> QED BY <2>1
<1>4. n - 1 \in 0..k /\ n - 1 < n /\ n \in 1..k
  BY <1>3
<1>5. n - 1 \notin D
  <2> HIDE DEF D
  <2> QED BY <1>1, <1>2, <1>4
<1>6. PICK f : Filters(f, seq, S, n - 1)
  BY <1>4, <1>5
<1> DEFINE g == [i \in 0..n |-> IF i < n THEN f[i]
                                ELSE IF seq[n] \in S THEN Append(f[n - 1], seq[n]) ELSE f[n - 1]]
<1>7. ASSUME NEW i \in 0..n
      PROVE  g[i] = IF i = 0 THEN <<>>
                    ELSE IF seq[i] \in S THEN Append(g[i - 1], seq[i]) ELSE g[i - 1]
  <2>1. CASE i < n
    <3>1. i \in 0..(n - 1) /\ (i # 0 => i - 1 \in 0..n /\ i - 1 < n)
      BY <1>4, <2>1
    <3>2. f[i] = IF i = 0 THEN <<>>
                 ELSE IF seq[i] \in S THEN Append(f[i - 1], seq[i]) ELSE f[i - 1]
      BY <1>6, <3>1 DEF Filters
    <3> QED BY <2>1, <3>1, <3>2
  <2>2. CASE i = n
    <3>1. n - 1 \in 0..n /\ n - 1 < n /\ ~(n < n)
      BY <1>4
    <3> QED BY <1>3, <2>2, <3>1
  <2> QED BY <1>4, <2>1, <2>2
<1>8. g = [i \in 0..n |-> IF i = 0 THEN <<>>
                          ELSE IF seq[i] \in S THEN Append(g[i - 1], seq[i]) ELSE g[i - 1]]
  <2>1. g = [i \in 0..n |-> g[i]]
    OBVIOUS
  <2> HIDE DEF g
  <2> QED BY <1>7, <2>1
<1>9. Filters(g, seq, S, n)
  BY <1>8 DEF Filters
<1> QED BY <1>9

\* r has those of the first k of seq that are in S, in their order.
Selected(r, seq, S, k) ==
  /\ \A i \in DOMAIN r : r[i] \in S
  /\ \A a \in 1..k : seq[a] \in S => \E i \in DOMAIN r : r[i] = seq[a]
  /\ \A i \in DOMAIN r : \E a \in 1..k : r[i] = seq[a]
  /\ \A i, j \in DOMAIN r : i < j => \E a, b \in 1..k : a < b /\ r[i] = seq[a] /\ r[j] = seq[b]

LEMMA SelectOneMore ==
  ASSUME NEW T, NEW seq \in Seq(T), NEW S, NEW k \in 1..Len(seq),
         NEW r \in Seq(T), Selected(r, seq, S, k - 1)
  PROVE  /\ seq[k] \in S => Append(r, seq[k]) \in Seq(T) /\ Selected(Append(r, seq[k]), seq, S, k)
         /\ seq[k] \notin S => Selected(r, seq, S, k)
<1>1. k \in Nat /\ \A a \in 1..k : a \in 1..(k - 1) \/ a = k
  BY LenProperties
<1>2. \A a \in 1..(k - 1) : a \in 1..k /\ a < k
  BY <1>1
<1>3. CASE seq[k] \notin S
  BY <1>1, <1>2, <1>3 DEF Selected
<1>4. CASE seq[k] \in S
  <2> DEFINE q == Append(r, seq[k])
  <2>1. /\ q \in Seq(T) /\ Len(r) \in Nat /\ DOMAIN r = 1..Len(r)
        /\ DOMAIN q = 1..(Len(r) + 1) /\ q[Len(r) + 1] = seq[k]
        /\ \A i \in 1..Len(r) : q[i] = r[i]
    <3>1. seq[k] \in T
      OBVIOUS
    <3> QED BY <3>1, AppendProperties, LenProperties
  <2> HIDE DEF q
  <2>2. \A i \in DOMAIN q : (i \in DOMAIN r /\ q[i] = r[i]) \/ (i = Len(r) + 1 /\ q[i] = seq[k])
    BY <2>1
  <2>3. \A i \in DOMAIN r : i \in DOMAIN q /\ q[i] = r[i]
    BY <2>1
  <2>4. Len(r) + 1 \in DOMAIN q /\ k \in 1..k
    BY <1>1, <2>1
  <2>5. \A i \in DOMAIN q : q[i] \in S
    BY <1>4, <2>2 DEF Selected
  <2>6. ASSUME NEW a \in 1..k, seq[a] \in S PROVE \E i \in DOMAIN q : q[i] = seq[a]
    <3>1. CASE a = k
      BY <2>1, <2>4, <3>1
    <3>2. CASE a \in 1..(k - 1)
      <4>1. PICK i \in DOMAIN r : r[i] = seq[a]
        BY <2>6, <3>2 DEF Selected
      <4> QED BY <2>3, <4>1
    <3> QED BY <1>1, <3>1, <3>2
  <2>7. ASSUME NEW i \in DOMAIN q PROVE \E a \in 1..k : q[i] = seq[a]
    <3>1. CASE i \in DOMAIN r /\ q[i] = r[i]
      <4>1. PICK a \in 1..(k - 1) : r[i] = seq[a]
        BY <3>1 DEF Selected
      <4> QED BY <1>2, <3>1, <4>1
    <3>2. CASE q[i] = seq[k]
      BY <2>4, <3>2
    <3> QED BY <2>2, <3>1, <3>2
  <2>8. ASSUME NEW i \in DOMAIN q, NEW j \in DOMAIN q, i < j
        PROVE  \E a, b \in 1..k : a < b /\ q[i] = seq[a] /\ q[j] = seq[b]
    <3>1. i \in DOMAIN r /\ q[i] = r[i]
      BY <2>1, <2>8
    <3>2. CASE j \in DOMAIN r /\ q[j] = r[j]
      <4>1. PICK a \in 1..(k - 1), b \in 1..(k - 1) : a < b /\ r[i] = seq[a] /\ r[j] = seq[b]
        BY <2>8, <3>1, <3>2 DEF Selected
      <4> QED BY <1>2, <3>1, <3>2, <4>1
    <3>3. CASE q[j] = seq[k]
      <4>1. PICK a \in 1..(k - 1) : r[i] = seq[a]
        BY <3>1 DEF Selected
      <4> QED BY <1>2, <2>4, <3>1, <3>3, <4>1
    <3> QED BY <2>2, <3>2, <3>3
  <2>9. Selected(q, seq, S, k)
    BY <2>5, <2>6, <2>7, <2>8 DEF Selected
  <2> QED BY <1>4, <2>1, <2>9 DEF q
<1> QED BY <1>3, <1>4

\* Only takes what is in S, in its order.
LEMMA OnlySelects ==
  ASSUME NEW T, NEW seq \in Seq(T), NEW S
  PROVE  Only(seq, S) \in Seq(T) /\ Selected(Only(seq, S), seq, S, Len(seq))
<1> DEFINE only == CHOOSE f : f = [i \in 0..Len(seq) |->
                      IF i = 0 THEN <<>>
                      ELSE IF seq[i] \in S THEN Append(f[i - 1], seq[i]) ELSE f[i - 1]]
           D == {n \in 0..Len(seq) : ~(only[n] \in Seq(T) /\ Selected(only[n], seq, S, n))}
<1>0. Len(seq) \in Nat
  BY LenProperties
<1>1. Only(seq, S) = only[Len(seq)]
  BY Zenon DEF Only
<1>2. only = [i \in 0..Len(seq) |->
                IF i = 0 THEN <<>>
                ELSE IF seq[i] \in S THEN Append(only[i - 1], seq[i]) ELSE only[i - 1]]
  <2>1. PICK f : Filters(f, seq, S, Len(seq))
    BY <1>0, FilterExists
  <2>2. f = [i \in 0..Len(seq) |->
               IF i = 0 THEN <<>>
               ELSE IF seq[i] \in S THEN Append(f[i - 1], seq[i]) ELSE f[i - 1]]
    BY <2>1 DEF Filters
  <2> QED BY <2>2, Zenon
<1> HIDE DEF only
<1>3. D = {}
  <2> SUFFICES ASSUME D # {} PROVE FALSE
    OBVIOUS
  <2>1. D \in SUBSET Nat
    BY <1>0
  <2>2. PICK n \in D : \A m \in D : n <= m
    <3> HIDE DEF D
    <3> QED BY <2>1, Least
  <2>3. n # 0
    <3>1. only[0] = <<>>
      BY <1>0, <1>2
    <3>2. Selected(<<>>, seq, S, 0) /\ <<>> \in Seq(T)
      BY DEF Selected
    <3> QED BY <3>1, <3>2
  <2>4. n - 1 \in 0..Len(seq) /\ n - 1 < n /\ n \in 1..Len(seq)
    BY <1>0, <2>3
  <2>5. n - 1 \notin D
    <3> HIDE DEF D
    <3> QED BY <2>1, <2>2, <2>4
  <2>6. only[n - 1] \in Seq(T) /\ Selected(only[n - 1], seq, S, n - 1)
    BY <2>4, <2>5
  <2>7. only[n] = IF seq[n] \in S THEN Append(only[n - 1], seq[n]) ELSE only[n - 1]
    BY <1>2, <2>3
  <2>8. only[n] \in Seq(T) /\ Selected(only[n], seq, S, n)
    BY <2>4, <2>6, <2>7, SelectOneMore
  <2> QED BY <2>8
<1>4. Len(seq) \in 0..Len(seq)
  BY <1>0
<1> QED BY <1>1, <1>3, <1>4
=============================================================================
