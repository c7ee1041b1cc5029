--------------------------- MODULE RequestProofs ---------------------------
(***************************************************************************)
(* Proofs about what a request to a model needs, is given and brings, up to *)
(* the answer that the chat is sent.                                        *)
(*                                                                          *)
(* First what the rest is proved by: induction over numbers, that a loop    *)
(* has a result, sums, and what a sort gives.                               *)
(*                                                                          *)
(* The tokens: for any number of logins and of calls of the service,        *)
(* whatever is killed or fails, the file holds a whole private token or the *)
(* trace of a login that did not get through its save.                      *)
(*                                                                          *)
(* The stream of a reply: whatever the body, and wherever the network cuts  *)
(* it, what the user sees is the text of the lines that were taken.         *)
(*                                                                          *)
(* The menu: whatever a provider lists, each model that can chat is offered *)
(* once, and Enter takes the recommended one whenever it is offered.        *)
(*                                                                          *)
(* The memory: whatever was said, and however the turns of the chats        *)
(* interleave, what a turn is shown is its own, short, and the best.        *)
(*                                                                          *)
(* The answer: whatever the model wrote, and whichever requests fail, the   *)
(* letters that were sent have arrived, and what Telegram refuses had tags  *)
(* of its own, nothing to show, or more than the limit of a message.        *)
(***************************************************************************)
EXTENDS
  CopilotToken, ModelStream, ModelMenu, Memory, ReplyText,
  SequenceTheorems, FiniteSetTheorems, WellFoundedInduction, TLAPS

-----------------------------------------------------------------------------
(* Numbers. *)

(* A set of numbers has a first one. *)
LEMMA FirstPlace ==
  ASSUME NEW S \in SUBSET Nat, S # {}
  PROVE  \E x \in S : \A y \in S : x <= y
<1>1. IsWellFoundedOn(OpToRel(<, Nat), Nat)
  BY NatLessThanWellFounded
<1>2. PICK x \in S : \A y \in S : <<y, x>> \notin OpToRel(<, Nat)
  BY <1>1, WFMin
<1>3. \A y \in S : ~(y < x)
  BY <1>2 DEF OpToRel
<1>4. \A y \in S : y \in Int /\ x \in Int
  OBVIOUS
<1>5. \A y \in S : x <= y
  BY <1>3, <1>4
<1> QED BY <1>2, <1>5

-----------------------------------------------------------------------------
(* Induction, over a set instead of a predicate: the provers cannot take the
   theorems of the library, whose parameter is an operator. *)

LEMMA NatSets ==
  ASSUME NEW T, 0 \in T, \A n \in Nat : n \in T => n + 1 \in T
  PROVE  Nat \subseteq T
<1> SUFFICES ASSUME ~(Nat \subseteq T) PROVE FALSE
  OBVIOUS
<1> DEFINE M == Nat \ T
<1>1. M \in SUBSET Nat /\ M # {}
  OBVIOUS
<1>2. PICK x \in M : \A y \in M : x <= y
  <2> HIDE DEF M
  <2> QED BY <1>1, FirstPlace
<1>3. x \in Nat /\ x \notin T /\ x # 0
  BY <1>2
<1>4. x - 1 \in Nat /\ ~(x <= x - 1) /\ (x - 1) + 1 = x
  BY <1>3
<1>5. x - 1 \in T
  BY <1>2, <1>4
<1> QED BY <1>3, <1>4, <1>5

(* A set that holds 0 and with n, up to N, what comes next holds 0..N. *)
LEMMA UpTo ==
  ASSUME NEW N \in Nat, NEW T, 0 \in T, \A n \in 0..N : n \in T /\ n < N => n + 1 \in T
  PROVE  0..N \subseteq T
<1> DEFINE U == {n \in Nat : n <= N => n \in T}
<1>1. 0 \in U
  OBVIOUS
<1>2. ASSUME NEW n \in Nat, n \in U PROVE n + 1 \in U
  BY <1>2
<1>3. Nat \subseteq U
  <2> HIDE DEF U
  <2> QED BY <1>1, <1>2, NatSets
<1> QED BY <1>3

(* A loop of N rounds has a result: step gives what a round makes of what the
   round before it made. *)
Rounds(S) == [S \X Nat -> S]

IsLoop(f, N, S, f0, step) ==
  /\ f \in [0..N -> S]
  /\ f[0] = f0
  /\ \A n \in 1..N : f[n] = step[<<f[n - 1], n>>]

LEMMA Recursion ==
  ASSUME NEW N \in Nat, NEW S, NEW f0 \in S, NEW step \in Rounds(S)
  PROVE  \E f : IsLoop(f, N, S, f0, step)
<1> DEFINE T == {n \in Nat : \E f \in [0..n -> S] : f[0] = f0 /\ \A i \in 1..n : f[i] = step[<<f[i - 1], i>>]}
<1>1. 0 \in T
  <2> DEFINE f == [i \in 0..0 |-> f0]
  <2>1. f \in [0..0 -> S] /\ f[0] = f0 /\ \A i \in 1..0 : f[i] = step[<<f[i - 1], i>>]
    OBVIOUS
  <2> QED BY <2>1
<1>2. ASSUME NEW n \in Nat, n \in T PROVE n + 1 \in T
  <2>1. PICK f \in [0..n -> S] : f[0] = f0 /\ \A i \in 1..n : f[i] = step[<<f[i - 1], i>>]
    BY <1>2
  <2> DEFINE g == [i \in 0..(n + 1) |-> IF i <= n THEN f[i] ELSE step[<<f[n], n + 1>>]]
  <2>2. f[n] \in S /\ <<f[n], n + 1>> \in S \X Nat
    OBVIOUS
  <2>3. step[<<f[n], n + 1>>] \in S
    BY <2>2 DEF Rounds
  <2>4. g \in [0..(n + 1) -> S]
    BY <2>3
  <2>5. g[0] = f0
    BY <2>1
  <2>6. \A i \in 1..(n + 1) : g[i] = step[<<g[i - 1], i>>]
    <3> SUFFICES ASSUME NEW i \in 1..(n + 1) PROVE g[i] = step[<<g[i - 1], i>>]
      OBVIOUS
    <3>1. CASE i <= n
      <4>1. i \in 1..n /\ i - 1 \in 0..n /\ i \in 0..(n + 1) /\ i - 1 \in 0..(n + 1)
        BY <3>1
      <4>2. g[i] = f[i] /\ g[i - 1] = f[i - 1]
        BY <4>1
      <4> HIDE DEF g
      <4> QED BY <4>1, <4>2, <2>1
    <3>2. CASE ~(i <= n)
      <4>1. i = n + 1 /\ i - 1 = n
        BY <3>2
      <4>2. g[n + 1] = step[<<f[n], n + 1>>] /\ g[n] = f[n]
        OBVIOUS
      <4> HIDE DEF g
      <4> QED BY <4>1, <4>2
    <3> QED BY <3>1, <3>2
  <2> HIDE DEF g
  <2> QED BY <2>4, <2>5, <2>6
<1>3. N \in T
  <2> HIDE DEF T
  <2> QED BY <1>1, <1>2, NatSets
<1> QED BY <1>3 DEF IsLoop

-----------------------------------------------------------------------------
(* Sums. *)

SumUpTo(s) == CHOOSE sum : sum = [n \in 0..Len(s) |-> IF n = 0 THEN 0 ELSE sum[n - 1] + s[n]]

LEMMA SumIs ==
  ASSUME NEW s \in Seq(Nat)
  PROVE  /\ SumUpTo(s) \in [0..Len(s) -> Nat]
         /\ \A n \in 0..Len(s) : SumUpTo(s)[n] = IF n = 0 THEN 0 ELSE SumUpTo(s)[n - 1] + s[n]
<1> DEFINE step == [p \in Nat \X Nat |-> p[1] + (IF p[2] \in 1..Len(s) THEN s[p[2]] ELSE 0)]
<1>0. Len(s) \in Nat /\ \A n \in 1..Len(s) : s[n] \in Nat
  BY LenProperties, ElementOfSeq
<1>1. step \in [Nat \X Nat -> Nat]
  BY <1>0
<1>2. PICK f \in [0..Len(s) -> Nat] :
        f[0] = 0 /\ \A n \in 1..Len(s) : f[n] = step[<<f[n - 1], n>>]
  <2> DEFINE N == Len(s)
             S == Nat
             none == 0
  <2>1. N \in Nat /\ none \in S /\ step \in Rounds(S)
    BY <1>0, <1>1 DEF Rounds
  <2> HIDE DEF step, N, S, none
  <2>2. \E f : IsLoop(f, N, S, none, step)
    BY <2>1, Recursion
  <2> QED BY <2>2 DEF N, S, none, IsLoop
<1>3. ASSUME NEW n \in 0..Len(s), n # 0 PROVE step[<<f[n - 1], n>>] = f[n - 1] + s[n]
  <2>1. n - 1 \in 0..Len(s) /\ n \in Nat /\ n \in 1..Len(s)
    BY <1>0, <1>3
  <2>2. f[n - 1] \in Nat
    BY <2>1
  <2> QED BY <2>1, <2>2
<1>4. f = [n \in 0..Len(s) |-> IF n = 0 THEN 0 ELSE f[n - 1] + s[n]]
  <2> HIDE DEF step
  <2>1. ASSUME NEW n \in 0..Len(s) PROVE f[n] = IF n = 0 THEN 0 ELSE f[n - 1] + s[n]
    <3>1. CASE n = 0
      BY <3>1, <1>2
    <3>2. CASE n # 0
      <4>1. n \in 1..Len(s)
        BY <3>2, <1>0
      <4> QED BY <4>1, <3>2, <1>2, <1>3
    <3> QED BY <3>1, <3>2
  <2> QED BY <2>1
<1>5. SumUpTo(s) = [n \in 0..Len(s) |-> IF n = 0 THEN 0 ELSE SumUpTo(s)[n - 1] + s[n]]
  BY <1>4 DEF SumUpTo
<1> DEFINE g == SumUpTo(s)
<1>6. DOMAIN g = 0..Len(s) /\ \A n \in 0..Len(s) : g[n] = IF n = 0 THEN 0 ELSE g[n - 1] + s[n]
  <2>1. g = [n \in 0..Len(s) |-> IF n = 0 THEN 0 ELSE g[n - 1] + s[n]]
    BY <1>5
  <2> HIDE DEF g
  <2> QED BY <2>1
<1>7. 0..Len(s) \subseteq {n \in 0..Len(s) : g[n] \in Nat}
  <2> DEFINE T == {n \in 0..Len(s) : g[n] \in Nat}
  <2> HIDE DEF g
  <2>1. 0 \in T
    BY <1>0, <1>6
  <2>2. ASSUME NEW n \in 0..Len(s), n \in T, n < Len(s) PROVE n + 1 \in T
    <3>1. n + 1 \in 0..Len(s) /\ n + 1 # 0 /\ (n + 1) - 1 = n /\ n + 1 \in 1..Len(s)
      BY <1>0, <2>2
    <3>2. g[n + 1] = g[n] + s[n + 1]
      BY <3>1, <1>6
    <3> QED BY <3>1, <3>2, <2>2, <1>0
  <2> HIDE DEF T
  <2>3. 0..Len(s) \subseteq T
    BY <2>1, <2>2, <1>0, UpTo
  <2> QED BY <2>3 DEF T
<1>8. g = [n \in 0..Len(s) |-> g[n]]
  <2>1. g = [n \in 0..Len(s) |-> IF n = 0 THEN 0 ELSE g[n - 1] + s[n]]
    BY <1>5
  <2> HIDE DEF g
  <2> QED BY <2>1
<1>9. g \in [0..Len(s) -> Nat]
  <2> HIDE DEF g
  <2> QED BY <1>7, <1>8
<1> HIDE DEF g
<1> QED BY <1>6, <1>9 DEF g

LEMMA TotalIs ==
  ASSUME NEW s
  PROVE  Total(s) = SumUpTo(s)[Len(s)]
BY DEF Total, SumUpTo

(* Sums of sequences that agree up to N. *)
LEMMA SumsAgree ==
  ASSUME NEW s \in Seq(Nat), NEW t \in Seq(Nat), NEW N \in Nat, N <= Len(s), N <= Len(t),
         \A i \in 1..N : s[i] = t[i]
  PROVE  \A n \in 0..N : SumUpTo(s)[n] = SumUpTo(t)[n]
<1> DEFINE T == {n \in 0..N : SumUpTo(s)[n] = SumUpTo(t)[n]}
<1>0. Len(s) \in Nat /\ Len(t) \in Nat
  BY LenProperties
<1>1. 0 \in T
  <2>1. 0 \in 0..N /\ 0 \in 0..Len(s) /\ 0 \in 0..Len(t)
    BY <1>0
  <2>2. SumUpTo(s)[0] = 0 /\ SumUpTo(t)[0] = 0
    BY <2>1, SumIs
  <2> QED BY <2>1, <2>2
<1>2. ASSUME NEW n \in 0..N, n \in T, n < N PROVE n + 1 \in T
  <2>1. /\ n + 1 \in 0..Len(s) /\ n + 1 \in 0..Len(t) /\ n + 1 # 0 /\ (n + 1) - 1 = n
        /\ n + 1 \in 1..N /\ n + 1 \in 0..N
    BY <1>0, <1>2
  <2>2. SumUpTo(s)[n + 1] = SumUpTo(s)[n] + s[n + 1]
    BY <2>1, SumIs
  <2>3. SumUpTo(t)[n + 1] = SumUpTo(t)[n] + t[n + 1]
    BY <2>1, SumIs
  <2> QED BY <2>1, <2>2, <2>3, <1>2
<1> HIDE DEF T
<1>3. 0..N \subseteq T
  BY <1>1, <1>2, UpTo
<1> QED BY <1>3 DEF T

LEMMA TotalOfEmpty == Total(<<>>) = 0
<1>1. <<>> \in Seq(Nat) /\ Len(<<>>) = 0
  BY EmptySeq
<1>2. PICK s \in Seq(Nat) : s = <<>> /\ Len(s) = 0
  BY <1>1
<1>3. 0 \in 0..Len(s)
  BY <1>2
<1>4. SumUpTo(s)[0] = 0
  BY <1>3, SumIs
<1>5. Total(s) = 0
  BY <1>2, <1>4, TotalIs
<1> QED BY <1>2, <1>5

LEMMA TotalOfAppend ==
  ASSUME NEW s \in Seq(Nat), NEW n \in Nat
  PROVE  Total(s) \in Nat /\ Total(Append(s, n)) = Total(s) + n
<1> DEFINE t == Append(s, n)
<1>1. /\ t \in Seq(Nat) /\ Len(t) = Len(s) + 1 /\ Len(s) \in Nat
      /\ t[Len(s) + 1] = n /\ \A i \in 1..Len(s) : t[i] = s[i]
  BY AppendProperties, LenProperties
<1> HIDE DEF t
<1>2. SumUpTo(s)[Len(s)] = SumUpTo(t)[Len(s)]
  <2>1. Len(s) <= Len(s) /\ Len(s) <= Len(t) /\ Len(s) \in 0..Len(s)
    BY <1>1
  <2>2. \A i \in 1..Len(s) : s[i] = t[i]
    BY <1>1
  <2>3. \A k \in 0..Len(s) : SumUpTo(s)[k] = SumUpTo(t)[k]
    BY <1>1, <2>1, <2>2, SumsAgree
  <2> QED BY <2>1, <2>3
<1>3. /\ Len(s) + 1 \in 0..Len(t) /\ Len(s) + 1 # 0 /\ (Len(s) + 1) - 1 = Len(s)
      /\ Len(s) \in 0..Len(s)
  BY <1>1
<1>4. SumUpTo(t)[Len(s) + 1] = SumUpTo(t)[Len(s)] + n
  BY <1>1, <1>3, SumIs
<1>5. SumUpTo(s)[Len(s)] \in Nat
  BY <1>3, SumIs
<1>6. Total(t) = SumUpTo(t)[Len(s) + 1] /\ Total(s) = SumUpTo(s)[Len(s)]
  BY <1>1, TotalIs
<1> QED BY <1>2, <1>4, <1>5, <1>6 DEF t

-----------------------------------------------------------------------------
(* Sorting. *)

(* R puts the elements of S in one order. *)
Orders(R, S) ==
  /\ \A x, y \in S : x # y => <<x, y>> \in R \/ <<y, x>> \in R
  /\ \A x \in S : <<x, x>> \notin R
  /\ \A x, y, z \in S : <<x, y>> \in R /\ <<y, z>> \in R => <<x, z>> \in R

Before(x, S, R) == {y \in S : <<y, x>> \in R}

LEMMA BeforeGrows ==
  ASSUME NEW S, IsFiniteSet(S), NEW R, Orders(R, S)
  PROVE  /\ \A x \in S : Cardinality(Before(x, S, R)) \in 0..(Cardinality(S) - 1)
         /\ \A x, y \in S : <<x, y>> \in R =>
              Cardinality(Before(x, S, R)) < Cardinality(Before(y, S, R))
<1>1. ASSUME NEW x \in S
      PROVE  /\ IsFiniteSet(Before(x, S, R)) /\ Cardinality(Before(x, S, R)) \in Nat
             /\ Cardinality(Before(x, S, R) \cup {x}) = Cardinality(Before(x, S, R)) + 1
             /\ IsFiniteSet(Before(x, S, R) \cup {x})
  <2>1. Before(x, S, R) \in SUBSET S
    BY DEF Before
  <2>2. IsFiniteSet(Before(x, S, R)) /\ Cardinality(Before(x, S, R)) \in Nat
    BY <2>1, FS_Subset, FS_CardinalityType
  <2>3. x \notin Before(x, S, R)
    BY DEF Before, Orders
  <2> QED BY <2>2, <2>3, FS_AddElement
<1>2. Cardinality(S) \in Nat
  BY FS_CardinalityType
<1>3. ASSUME NEW x \in S PROVE Cardinality(Before(x, S, R)) \in 0..(Cardinality(S) - 1)
  <2>1. Before(x, S, R) \cup {x} \in SUBSET S
    BY DEF Before
  <2>2. Cardinality(Before(x, S, R) \cup {x}) <= Cardinality(S)
    BY <2>1, FS_Subset
  <2> QED BY <1>1, <1>2, <2>2
<1>4. ASSUME NEW x \in S, NEW y \in S, <<x, y>> \in R
      PROVE  Cardinality(Before(x, S, R)) < Cardinality(Before(y, S, R))
  <2>1. Before(x, S, R) \cup {x} \in SUBSET Before(y, S, R)
    BY <1>4 DEF Before, Orders
  <2>2. IsFiniteSet(Before(y, S, R))
    BY <1>1
  <2>3. Cardinality(Before(x, S, R) \cup {x}) <= Cardinality(Before(y, S, R))
    BY <2>1, <2>2, FS_Subset
  <2>4. /\ Cardinality(Before(x, S, R)) \in Nat /\ Cardinality(Before(y, S, R)) \in Nat
        /\ Cardinality(Before(x, S, R) \cup {x}) = Cardinality(Before(x, S, R)) + 1
    BY <1>1
  <2> QED BY <2>3, <2>4
<1> QED BY <1>3, <1>4

(* Every place is taken. *)
LEMMA PlacesAreTaken ==
  ASSUME NEW S, IsFiniteSet(S), NEW R, Orders(R, S), NEW k \in 0..(Cardinality(S) - 1)
  PROVE  \E x \in S : Cardinality(Before(x, S, R)) = k
<1> SUFFICES ASSUME \A x \in S : Cardinality(Before(x, S, R)) # k PROVE FALSE
  OBVIOUS
<1> DEFINE n == Cardinality(S)
           T == (0..(n - 1)) \ {k}
           f == [x \in S |-> Cardinality(Before(x, S, R))]
<1>1. n \in Nat
  BY FS_CardinalityType
<1>2. IsFiniteSet(0..(n - 1)) /\ Cardinality(0..(n - 1)) = n
  <2>1. 0 \in Int /\ n - 1 \in Int
    BY <1>1
  <2>2. IsFiniteSet(0..(n - 1)) /\ Cardinality(0..(n - 1)) = IF 0 > n - 1 THEN 0 ELSE (n - 1) - 0 + 1
    BY <2>1, FS_Interval
  <2> HIDE DEF n
  <2> QED BY <2>2, <1>1
<1>3. IsFiniteSet(T) /\ Cardinality(T) < n
  <2>1. k \in 0..(n - 1)
    OBVIOUS
  <2> HIDE DEF n
  <2>2. IsFiniteSet(T) /\ Cardinality(T) = n - 1
    BY <1>2, <2>1, FS_RemoveElement
  <2> QED BY <2>2, <1>1
<1>4. f \in [S -> T]
  BY BeforeGrows
<1>5. PICK x, y \in S : x # y /\ f[x] = f[y]
  <2> HIDE DEF f, T
  <2> QED BY <1>3, <1>4, FS_PigeonHole
<1>6. f[x] < f[y] \/ f[y] < f[x]
  <2>1. <<x, y>> \in R \/ <<y, x>> \in R
    BY <1>5 DEF Orders
  <2> QED BY <2>1, BeforeGrows
<1>7. f[x] \in Int /\ f[y] \in Int
  BY BeforeGrows
<1> QED BY <1>5, <1>6, <1>7

(* What a sort gives: every element at one place, in the order. *)
LEMMA InOrderSorts ==
  ASSUME NEW S, IsFiniteSet(S), NEW R, Orders(R, S)
  PROVE  /\ Cardinality(S) \in Nat
         /\ InOrder(S, R) \in [1..Cardinality(S) -> S]
         /\ \A x \in S : \E i \in 1..Cardinality(S) : InOrder(S, R)[i] = x
         /\ \A i, j \in 1..Cardinality(S) :
              i < j => <<InOrder(S, R)[i], InOrder(S, R)[j]>> \in R
<1> DEFINE n == Cardinality(S)
           o == InOrder(S, R)
<1>1. n \in Nat
  BY FS_CardinalityType
<1>2. o = [k \in 1..n |-> CHOOSE x \in S : Cardinality(Before(x, S, R)) = k - 1]
  BY DEF InOrder, Before
<1>3. ASSUME NEW k \in 1..n PROVE o[k] \in S /\ Cardinality(Before(o[k], S, R)) = k - 1
  <2>1. k - 1 \in 0..(Cardinality(S) - 1)
    BY <1>1
  <2>2. \E x \in S : Cardinality(Before(x, S, R)) = k - 1
    BY <2>1, PlacesAreTaken
  <2>3. o[k] = CHOOSE x \in S : Cardinality(Before(x, S, R)) = k - 1
    BY <1>2
  <2> HIDE DEF o
  <2> QED BY <2>2, <2>3
<1>4. o \in [1..n -> S]
  <2>1. DOMAIN o = 1..n /\ o = [k \in 1..n |-> o[k]]
    BY <1>2
  <2> HIDE DEF o
  <2> QED BY <2>1, <1>3
<1> HIDE DEF o
<1>5. ASSUME NEW x \in S, NEW y \in S, Cardinality(Before(x, S, R)) = Cardinality(Before(y, S, R))
      PROVE  x = y
  <2> SUFFICES ASSUME x # y PROVE FALSE
    OBVIOUS
  <2>1. <<x, y>> \in R \/ <<y, x>> \in R
    BY DEF Orders
  <2>2. Cardinality(Before(x, S, R)) \in Int
    BY BeforeGrows
  <2> QED BY <2>1, <2>2, <1>5, BeforeGrows
<1>6. ASSUME NEW x \in S PROVE \E i \in 1..n : o[i] = x
  <2> DEFINE i == Cardinality(Before(x, S, R)) + 1
  <2>1. i \in 1..n /\ Cardinality(Before(x, S, R)) = i - 1
    BY <1>1, BeforeGrows
  <2> HIDE DEF i
  <2>2. o[i] \in S /\ Cardinality(Before(o[i], S, R)) = i - 1
    BY <2>1, <1>3
  <2>3. o[i] = x
    BY <2>1, <2>2, <1>5
  <2> QED BY <2>1, <2>3
<1>7. ASSUME NEW i \in 1..n, NEW j \in 1..n, i < j PROVE <<o[i], o[j]>> \in R
  <2>1. /\ o[i] \in S /\ Cardinality(Before(o[i], S, R)) = i - 1
        /\ o[j] \in S /\ Cardinality(Before(o[j], S, R)) = j - 1
    BY <1>3
  <2>2. i - 1 # j - 1 /\ ~(j - 1 < i - 1)
    BY <1>7, <1>1
  <2>3. o[i] # o[j] /\ <<o[j], o[i]>> \notin R
    BY <2>1, <2>2, BeforeGrows
  <2> QED BY <2>1, <2>3 DEF Orders
<1> QED BY <1>1, <1>4, <1>6, <1>7 DEF o

-----------------------------------------------------------------------------
(* The tokens. *)

TokenSpec == TokenInit /\ [][TokenNext]_tokenVars

-----------------------------------------------------------------------------
(* The inductive invariant. *)

CallState ==
  [at : {"idle", "fetch", "answered", "send", "answer", "failed"},
   got : {{}} \union {{t} : t \in CopilotTokens}]

LoginAt ==
  {"new", "check", "asleep", "slowed", "authorized", "truncated",
   "written", "done", "unsaved", "failed", "killed"}

LoginState ==
  [at : LoginAt, elapsed : 0..(Expires + 1), sleep : 0..(Interval + SlowDown)]

OneLoginRuns == \A k, l \in Logins : LoginRuns(k) /\ LoginRuns(l) => k = l

(* A login begins when those before it have ended: after one that is still to
   begin or at work, none has begun. *)
LaterAreNew ==
  \A k, l \in Logins :
    k > l /\ (login[l].at = "new" \/ LoginRuns(l)) => login[k].at = "new"

(* Between its write and its chmod a login's token stays in the file. *)
WrittenIsThere == \A l \in Logins : login[l].at = "written" => tokenFile = l

(* A token is one that GitHub granted: its login came as far as to write it. *)
Granted(t) == t \in Logins => login[t].at \in {"written", "done", "unsaved", "killed"}

TokensAreGranted == Granted(tokenFile) /\ Granted(githubToken)

TokenIInv ==
  /\ TokenTypeOK /\ TokenFileSettles /\ OneLoginRuns /\ LaterAreNew
  /\ WrittenIsThere /\ TokensAreGranted

-----------------------------------------------------------------------------
(* Sets of at most one Copilot token, as time passes or the API drops them. *)

LEMMA ZeroOfAssumption == 0 \in 0..(Expires + 1) /\ 0 \in 0..(Interval + SlowDown)
  BY TokenAssumption

LEMMA LessIsBelow ==
  ASSUME NEW m \in Nat, NEW n \in 0..m
  PROVE  Less(n) \in 0..m
  BY DEF Less

(* What holds one token or none, holds one token or none a tick later. *)
LEMMA AgedType ==
  ASSUME NEW s \in {{}} \union {{t} : t \in CopilotTokens}
  PROVE  Aged(s) \in {{}} \union {{t} : t \in CopilotTokens}
<1>1. CASE s = {}
  BY <1>1 DEF Aged
<1>2. CASE \E t \in CopilotTokens : s = {t}
  <2>1. PICK t \in CopilotTokens : s = {t}
    BY <1>2
  <2>2. PICK u : u = [t EXCEPT !.left = Less(@)]
    OBVIOUS
  <2>3. u \in CopilotTokens
    BY <2>2, LessIsBelow, TokenAssumption DEF CopilotTokens
  <2>4. Aged(s) = {u}
    BY <2>1, <2>2 DEF Aged
  <2> QED BY <2>3, <2>4
<1> QED BY <1>1, <1>2

LEMMA DroppedType ==
  ASSUME NEW s \in {{}} \union {{t} : t \in CopilotTokens}
  PROVE  Dropped(s) \in {{}} \union {{t} : t \in CopilotTokens}
<1>1. CASE s = {}
  BY <1>1 DEF Dropped
<1>2. CASE \E t \in CopilotTokens : s = {t}
  <2>1. PICK t \in CopilotTokens : s = {t}
    BY <1>2
  <2>2. PICK u : u = [t EXCEPT !.ok = FALSE]
    OBVIOUS
  <2>3. u \in CopilotTokens
    BY <2>2 DEF CopilotTokens
  <2>4. Dropped(s) = {u}
    BY <2>1, <2>2 DEF Dropped
  <2> QED BY <2>3, <2>4
<1> QED BY <1>1, <1>2

(* The cached token is such a set. *)
LEMMA CachedIsOneOrNone ==
  (/\ copilotToken \subseteq CopilotTokens
   /\ \A s, t \in copilotToken : s = t)
  <=> copilotToken \in {{}} \union {{t} : t \in CopilotTokens}
<1>1. ASSUME copilotToken \subseteq CopilotTokens, \A s, t \in copilotToken : s = t
      PROVE  copilotToken \in {{}} \union {{t} : t \in CopilotTokens}
  <2>1. CASE copilotToken = {}
    BY <2>1
  <2>2. CASE copilotToken # {}
    <3>1. PICK t \in copilotToken : TRUE
      BY <2>2
    <3>2. copilotToken = {t}
      BY <1>1, <3>1
    <3> QED BY <1>1, <3>1, <3>2
  <2> QED BY <2>1, <2>2
<1> QED BY <1>1

(* The shape of the state, in the names used below. *)
LEMMA TokenShape ==
  TokenTypeOK <=>
    /\ tokenFile \in Logins \union {Absent, Torn}
    /\ filePrivate \in BOOLEAN
    /\ githubToken \in Logins \union {0}
    /\ copilotToken \in {{}} \union {{t} : t \in CopilotTokens}
    /\ call \in [TokenCalls -> CallState]
    /\ login \in [Logins -> LoginState]
  BY CachedIsOneOrNone DEF TokenTypeOK, CallState, LoginState, LoginAt

-----------------------------------------------------------------------------
(* The steps of the logins. *)

Running(s) == s.at \notin {"new", "done", "unsaved", "failed", "killed"}

WroteAt == {"written", "done", "unsaved", "killed"}

(* A login that runs, or begins: those before it have ended, none runs. *)
MayMove(l) ==
  \/ LoginRuns(l)
  \/ /\ login[l].at = "new" /\ \A k \in Logins : k < l => login[k].at # "new"
     /\ \A k \in Logins : ~LoginRuns(k)

(* What every step of a login does: it moves one login, which runs already or
   begins when none runs, and leaves the service alone. *)
LoginMoves(l, s) ==
  /\ s \in LoginState /\ s.at # "new"
  /\ login' = [login EXCEPT ![l] = s]
  /\ MayMove(l)
  /\ login[l].at \in WroteAt => s.at \in WroteAt
  /\ UNCHANGED serviceVars

LEMMA MoveEffects ==
  ASSUME TokenIInv, NEW l \in Logins, NEW s, LoginMoves(l, s)
  PROVE  /\ login' \in [Logins -> LoginState]
         /\ login'[l] = s
         /\ \A k \in Logins : k # l => login'[k] = login[k]
         /\ OneLoginRuns'
         /\ LaterAreNew'
         /\ \A k \in Logins : Granted(k) => Granted(k)'
<1>1. login \in [Logins -> LoginState]
  BY TokenShape DEF TokenIInv
<1>2. /\ login' \in [Logins -> LoginState]
      /\ login'[l] = s
      /\ \A k \in Logins : k # l => login'[k] = login[k]
  BY <1>1 DEF LoginMoves
<1>3. OneLoginRuns'
  <2>1. SUFFICES ASSUME NEW j \in Logins, NEW k \in Logins, LoginRuns(j)', LoginRuns(k)'
                 PROVE  j = k
    BY DEF OneLoginRuns
  <2>2. j # l => LoginRuns(j)
    BY <1>2, <2>1 DEF LoginRuns
  <2>3. k # l => LoginRuns(k)
    BY <1>2, <2>1 DEF LoginRuns
  <2>4. j = l \/ k = l => Running(s)
    BY <1>2, <2>1 DEF LoginRuns, Running
  <2>5. \A i \in Logins : LoginRuns(i) /\ LoginRuns(l) => i = l
    BY DEF TokenIInv, OneLoginRuns
  <2>6. LoginRuns(j) /\ LoginRuns(k) => j = k
    BY DEF TokenIInv, OneLoginRuns
  <2> QED BY <2>2, <2>3, <2>4, <2>5, <2>6 DEF LoginMoves, MayMove
<1>4. \A k \in Logins : Granted(k) => Granted(k)'
  BY <1>2 DEF Granted, LoginMoves, WroteAt
<1>5. LaterAreNew'
  <2>1. SUFFICES ASSUME NEW j \in Logins, NEW k \in Logins, k > j,
                        login'[j].at = "new" \/ LoginRuns(j)'
                 PROVE  login'[k].at = "new"
    BY DEF LaterAreNew
  <2>2. CASE j = l
    <3>1. login[l].at = "new" \/ LoginRuns(l)
      BY DEF LoginMoves, MayMove
    <3>2. k # l /\ login[k].at = "new"
      BY <2>1, <2>2, <3>1, TokenAssumption DEF TokenIInv, LaterAreNew
    <3> QED BY <1>2, <3>2
  <2>3. CASE j # l
    <3>1. login[j].at = "new" \/ LoginRuns(j)
      BY <1>2, <2>1, <2>3 DEF LoginRuns
    <3>2. login[k].at = "new"
      BY <2>1, <3>1 DEF TokenIInv, LaterAreNew
    <3>3. k # l
      BY <2>1, <3>1, <3>2 DEF LoginMoves, MayMove, LoginRuns
    <3> QED BY <1>2, <3>2, <3>3
  <2> QED BY <2>2, <2>3
<1> QED BY <1>2, <1>3, <1>4, <1>5

(* Each kind of step is such a move. *)
LEMMA LoginStateFields ==
  ASSUME NEW s \in LoginState, NEW x \in LoginAt
  PROVE  /\ [s EXCEPT !.at = x] \in LoginState
         /\ [s EXCEPT !.at = x].at = x
  BY DEF LoginState

LEMMA SimpleMove ==
  ASSUME TokenIInv, NEW l \in Logins, NEW x \in LoginAt, x # "new",
         login' = [login EXCEPT ![l].at = x], UNCHANGED serviceVars, MayMove(l),
         login[l].at \in WroteAt => x \in WroteAt
  PROVE  \E s : s.at = x /\ LoginMoves(l, s)
<1>1. login \in [Logins -> LoginState]
  BY TokenShape DEF TokenIInv
<1>2. PICK s : s = [login[l] EXCEPT !.at = x]
  OBVIOUS
<1>3. s \in LoginState /\ s.at = x
  BY <1>1, <1>2, LoginStateFields
<1>4. login' = [login EXCEPT ![l] = s]
  BY <1>2
<1> QED BY <1>3, <1>4 DEF LoginMoves

LEMMA CheckTimeMoves ==
  ASSUME TokenIInv, NEW l \in Logins, CheckTime(l)
  PROVE  \E s : s.at \in {"failed", "asleep"} /\ LoginMoves(l, s)
<1>1. login \in [Logins -> LoginState]
  BY TokenShape DEF TokenIInv
<1>2. PICK s : s = IF login[l].elapsed > Expires
                   THEN [login[l] EXCEPT !.at = "failed"]
                   ELSE [login[l] EXCEPT !.at = "asleep", !.sleep = Interval]
  OBVIOUS
<1>3. Interval \in 0..(Interval + SlowDown)
  BY TokenAssumption
<1>4. s \in LoginState /\ s.at \in {"failed", "asleep"}
  BY <1>1, <1>2, <1>3 DEF LoginState, LoginAt
<1>5. login' = [login EXCEPT ![l] = s]
  BY <1>2 DEF CheckTime
<1>6. UNCHANGED serviceVars /\ MayMove(l) /\ login[l].at = "check"
  BY DEF CheckTime, LoginRuns, MayMove
<1>7. LoginMoves(l, s)
  BY <1>4, <1>5, <1>6 DEF LoginMoves, WroteAt
<1> QED BY <1>4, <1>7

LEMMA PollMoves ==
  ASSUME TokenIInv, NEW l \in Logins, Poll(l)
  PROVE  \E s : s.at \in {"check", "slowed", "failed", "authorized"} /\ LoginMoves(l, s)
<1>1. login \in [Logins -> LoginState]
  BY TokenShape DEF TokenIInv
<1>2. UNCHANGED serviceVars /\ MayMove(l) /\ login[l].at = "asleep"
  BY DEF Poll, LoginRuns, MayMove
<1>3. CASE login' = [login EXCEPT ![l].at = "slowed", ![l].sleep = SlowDown]
  <2>1. PICK s : s = [login[l] EXCEPT !.at = "slowed", !.sleep = SlowDown]
    OBVIOUS
  <2>2. SlowDown \in 0..(Interval + SlowDown)
    BY TokenAssumption
  <2>3. s \in LoginState /\ s.at = "slowed"
    BY <1>1, <2>1, <2>2 DEF LoginState, LoginAt
  <2>4. login' = [login EXCEPT ![l] = s]
    BY <1>1, <1>3, <2>1
  <2>5. LoginMoves(l, s)
    BY <1>2, <2>3, <2>4 DEF LoginMoves, WroteAt
  <2> QED BY <2>3, <2>5
<1>4. CASE \E x \in {"check", "failed", "authorized"} : login' = [login EXCEPT ![l].at = x]
  <2>1. PICK x \in {"check", "failed", "authorized"} : login' = [login EXCEPT ![l].at = x]
    BY <1>4
  <2>2. x \in LoginAt
    BY DEF LoginAt
  <2>3. \E s : s.at = x /\ LoginMoves(l, s)
    BY <1>2, <2>1, <2>2, SimpleMove DEF WroteAt
  <2> QED BY <2>1, <2>3
<1>5. \/ login' = [login EXCEPT ![l].at = "slowed", ![l].sleep = SlowDown]
      \/ \E x \in {"check", "failed", "authorized"} : login' = [login EXCEPT ![l].at = x]
  BY DEF Poll
<1> QED BY <1>3, <1>4, <1>5

LEMMA StateWithin ==
  ASSUME TokenIInv
  PROVE  /\ tokenFile \in Logins \union {Absent, Torn} /\ filePrivate \in BOOLEAN
         /\ githubToken \in Logins \union {0}
         /\ copilotToken \in {{}} \union {{t} : t \in CopilotTokens}
         /\ call \in [TokenCalls -> CallState]
         /\ login \in [Logins -> LoginState]
  BY TokenShape DEF TokenIInv

LEMMA ShapeSuffices ==
  ASSUME /\ tokenFile' \in Logins \union {Absent, Torn} /\ filePrivate' \in BOOLEAN
         /\ githubToken' \in Logins \union {0}
         /\ copilotToken' \in {{}} \union {{t} : t \in CopilotTokens}
         /\ call' \in [TokenCalls -> CallState]
         /\ login' \in [Logins -> LoginState]
  PROVE  TokenTypeOK'
<1>1. copilotToken' \subseteq CopilotTokens /\ \A s, t \in copilotToken' : s = t
  OBVIOUS
<1> QED BY <1>1 DEF TokenTypeOK, CallState, LoginState, LoginAt

(* Neither Absent nor Torn names a login. *)
LEMMA NotALogin == Absent \notin Logins /\ Torn \notin Logins /\ Absent # Torn
  BY TokenAssumption DEF Absent, Torn

(* A move that leaves the file alone keeps everything said of it. *)
LEMMA QuietMove ==
  ASSUME TokenIInv, NEW l \in Logins, NEW s, LoginMoves(l, s),
         UNCHANGED <<tokenFile, filePrivate>>, s.at \notin {"written", "done"},
         MayHaveBroken(l) => s.at \in {"killed", "unsaved"}
  PROVE  TokenIInv'
<1>1. /\ login' \in [Logins -> LoginState]
      /\ login'[l] = s
      /\ \A k \in Logins : k # l => login'[k] = login[k]
      /\ OneLoginRuns' /\ LaterAreNew'
      /\ \A k \in Logins : Granted(k) => Granted(k)'
  BY MoveEffects
<1>2. UNCHANGED <<githubToken, copilotToken, call>>
  BY DEF LoginMoves, serviceVars
<1>3. TokenTypeOK'
  BY <1>1, <1>2, StateWithin, ShapeSuffices
<1>4. TokenFileSettles'
  <2>1. ASSUME NEW k \in Logins, MayHaveBroken(k),
               \A j \in Logins : j > k => login[j].at # "done"
        PROVE  TokenFileSettles'
    <3>1. MayHaveBroken(k)'
      BY <1>1, <2>1 DEF MayHaveBroken
    <3>2. \A j \in Logins : j > k => login'[j].at # "done"
      BY <1>1, <2>1
    <3> QED BY <3>1, <3>2 DEF TokenFileSettles
  <2>2. CASE tokenFile = Absent \/ (tokenFile # Torn /\ filePrivate)
    BY <2>2 DEF TokenFileSettles
  <2> QED BY <2>1, <2>2 DEF TokenIInv, TokenFileSettles
<1>5. WrittenIsThere'
  BY <1>1 DEF TokenIInv, WrittenIsThere
<1>6. TokensAreGranted'
  BY <1>1, <1>2 DEF TokenIInv, TokensAreGranted, Granted
<1> QED BY <1>1, <1>3, <1>4, <1>5, <1>6 DEF TokenIInv

(* The login whose save has begun is the last that began. *)
LEMMA LastIsAtWork ==
  ASSUME TokenIInv, NEW l \in Logins, NEW s, LoginMoves(l, s), LoginRuns(l)
  PROVE  \A k \in Logins : k > l => login'[k].at # "done"
<1>1. \A k \in Logins : k # l => login'[k] = login[k]
  BY MoveEffects
<1>2. \A k \in Logins : k > l => k # l /\ login[k].at = "new"
  BY TokenAssumption DEF TokenIInv, LaterAreNew
<1> QED BY <1>1, <1>2

(* A step of save_token that fails. *)
LEMMA SaveFailsKeeps ==
  ASSUME TokenIInv, NEW l \in Logins, SaveFails(l), UNCHANGED serviceVars,
         login[l].at \in {"authorized", "truncated", "written"}
  PROVE  TokenIInv'
<1>1. LoginRuns(l) /\ MayMove(l)
  BY DEF LoginRuns, MayMove
<1>2. login' = [login EXCEPT ![l].at = "unsaved"] /\ UNCHANGED <<tokenFile, filePrivate>>
  BY DEF SaveFails
<1>3. \E s : s.at = "unsaved" /\ LoginMoves(l, s)
  BY <1>1, <1>2, SimpleMove DEF LoginAt, WroteAt
<1>4. PICK s : s.at = "unsaved" /\ LoginMoves(l, s)
  BY <1>3
<1> QED BY <1>2, <1>4, QuietMove

(* save_token, in three steps. *)
LEMMA TruncateKeeps ==
  ASSUME TokenIInv, NEW l \in Logins, Truncate(l)
  PROVE  TokenIInv'
<1>1. UNCHANGED serviceVars /\ LoginRuns(l) /\ MayMove(l) /\ login[l].at = "authorized"
  BY DEF Truncate, LoginRuns, MayMove
<1>2. CASE SaveFails(l)
  BY <1>1, <1>2, SaveFailsKeeps
<1>3. CASE /\ tokenFile' = Torn
           /\ filePrivate' = (filePrivate /\ tokenFile # Absent)
           /\ login' = [login EXCEPT ![l].at = "truncated"]
  <2>1. \E s : s.at = "truncated" /\ LoginMoves(l, s)
    BY <1>1, <1>3, SimpleMove DEF LoginAt, WroteAt
  <2>2. PICK s : s.at = "truncated" /\ LoginMoves(l, s)
    BY <2>1
  <2>3. /\ login' \in [Logins -> LoginState]
        /\ login'[l] = s
        /\ \A k \in Logins : k # l => login'[k] = login[k]
        /\ OneLoginRuns' /\ LaterAreNew'
        /\ \A k \in Logins : Granted(k) => Granted(k)'
    BY <2>2, MoveEffects
  <2>4. UNCHANGED <<githubToken, copilotToken, call>>
    BY <1>1 DEF serviceVars
  <2>5. TokenTypeOK'
    <3>1. tokenFile' \in Logins \union {Absent, Torn} /\ filePrivate' \in BOOLEAN
      BY <1>3
    <3> QED BY <2>3, <2>4, <3>1, StateWithin, ShapeSuffices
  <2>6. TokenFileSettles'
    <3>1. MayHaveBroken(l)'
      BY <2>2, <2>3 DEF MayHaveBroken
    <3>2. \A k \in Logins : k > l => login'[k].at # "done"
      BY <1>1, <2>2, LastIsAtWork
    <3> QED BY <3>1, <3>2 DEF TokenFileSettles
  <2>7. WrittenIsThere'
    <3>1. SUFFICES ASSUME NEW k \in Logins, login'[k].at = "written"
                   PROVE  FALSE
      BY DEF WrittenIsThere
    <3>2. k # l /\ login[k].at = "written"
      BY <2>2, <2>3, <3>1
    <3>3. LoginRuns(k)
      BY <3>2 DEF LoginRuns
    <3> QED BY <1>1, <3>2, <3>3 DEF TokenIInv, OneLoginRuns
  <2>8. TokensAreGranted'
    <3>1. Granted(tokenFile)'
      BY <1>3, NotALogin DEF Granted
    <3>2. Granted(githubToken)'
      BY <2>3, <2>4 DEF TokenIInv, TokensAreGranted, Granted
    <3> QED BY <3>1, <3>2 DEF TokensAreGranted
  <2> QED BY <2>3, <2>5, <2>6, <2>7, <2>8 DEF TokenIInv
<1> QED BY <1>2, <1>3 DEF Truncate

LEMMA FillKeeps ==
  ASSUME TokenIInv, NEW l \in Logins, Fill(l)
  PROVE  TokenIInv'
<1>1. UNCHANGED serviceVars /\ LoginRuns(l) /\ MayMove(l) /\ login[l].at = "truncated"
  BY DEF Fill, LoginRuns, MayMove
<1>2. CASE SaveFails(l)
  BY <1>1, <1>2, SaveFailsKeeps
<1>3. CASE /\ tokenFile' = l /\ UNCHANGED filePrivate
           /\ login' = [login EXCEPT ![l].at = "written"]
  <2>1. UNCHANGED <<filePrivate, githubToken, copilotToken, call>>
    BY <1>1, <1>3 DEF serviceVars
  <2>2. \E s : s.at = "written" /\ LoginMoves(l, s)
    BY <1>1, <1>3, SimpleMove DEF LoginAt, WroteAt
  <2>3. PICK s : s.at = "written" /\ LoginMoves(l, s)
    BY <2>2
  <2>4. /\ login' \in [Logins -> LoginState]
        /\ login'[l] = s
        /\ \A k \in Logins : k # l => login'[k] = login[k]
        /\ OneLoginRuns' /\ LaterAreNew'
        /\ \A k \in Logins : Granted(k) => Granted(k)'
    BY <2>3, MoveEffects
  <2>5. TokenTypeOK'
    BY <1>3, <2>1, <2>4, StateWithin, ShapeSuffices
  <2>6. TokenFileSettles'
    <3>1. MayHaveBroken(l)'
      BY <2>3, <2>4 DEF MayHaveBroken
    <3>2. \A k \in Logins : k > l => login'[k].at # "done"
      BY <1>1, <2>3, LastIsAtWork
    <3> QED BY <3>1, <3>2 DEF TokenFileSettles
  <2>7. WrittenIsThere'
    <3>1. SUFFICES ASSUME NEW k \in Logins, login'[k].at = "written", k # l
                   PROVE  FALSE
      BY <1>3 DEF WrittenIsThere
    <3>2. LoginRuns(k)
      BY <2>4, <3>1 DEF LoginRuns
    <3> QED BY <1>1, <3>1, <3>2 DEF TokenIInv, OneLoginRuns
  <2>8. TokensAreGranted'
    <3>1. Granted(tokenFile)'
      BY <1>3, <2>3, <2>4 DEF Granted
    <3>2. Granted(githubToken)'
      BY <2>1, <2>4 DEF TokenIInv, TokensAreGranted, Granted
    <3> QED BY <3>1, <3>2 DEF TokensAreGranted
  <2> QED BY <2>4, <2>5, <2>6, <2>7, <2>8 DEF TokenIInv
<1> QED BY <1>2, <1>3 DEF Fill

LEMMA SetModeKeeps ==
  ASSUME TokenIInv, NEW l \in Logins, SetMode(l)
  PROVE  TokenIInv'
<1>1. UNCHANGED serviceVars /\ LoginRuns(l) /\ MayMove(l) /\ login[l].at = "written"
  BY DEF SetMode, LoginRuns, MayMove
<1>2. CASE SaveFails(l)
  BY <1>1, <1>2, SaveFailsKeeps
<1>3. CASE /\ filePrivate' = TRUE /\ UNCHANGED tokenFile
           /\ login' = [login EXCEPT ![l].at = "done"]
  <2>1. UNCHANGED <<tokenFile, githubToken, copilotToken, call>>
    BY <1>1, <1>3 DEF serviceVars
  <2>2. \E s : s.at = "done" /\ LoginMoves(l, s)
    BY <1>1, <1>3, SimpleMove DEF LoginAt, WroteAt
  <2>3. PICK s : s.at = "done" /\ LoginMoves(l, s)
    BY <2>2
  <2>4. /\ login' \in [Logins -> LoginState]
        /\ login'[l] = s
        /\ \A k \in Logins : k # l => login'[k] = login[k]
        /\ OneLoginRuns' /\ LaterAreNew'
        /\ \A k \in Logins : Granted(k) => Granted(k)'
    BY <2>3, MoveEffects
  <2>5. TokenTypeOK'
    BY <1>3, <2>1, <2>4, StateWithin, ShapeSuffices
  <2>6. TokenFileSettles'
    <3>1. tokenFile = l
      BY <1>1 DEF TokenIInv, WrittenIsThere
    <3> QED BY <1>3, <2>1, <3>1, NotALogin DEF TokenFileSettles
  <2>7. WrittenIsThere'
    BY <2>1, <2>3, <2>4 DEF TokenIInv, WrittenIsThere
  <2>8. TokensAreGranted'
    BY <2>1, <2>4 DEF TokenIInv, TokensAreGranted, Granted
  <2> QED BY <2>4, <2>5, <2>6, <2>7, <2>8 DEF TokenIInv
<1> QED BY <1>2, <1>3 DEF SetMode

LEMMA LoginKeeps ==
  ASSUME TokenIInv, NEW l \in Logins,
         StartDeviceFlow(l) \/ LoginStep(l) \/ Killed(l)
  PROVE  TokenIInv'
<1>1. CASE StartDeviceFlow(l)
  <2>1. PICK x \in {"check", "failed"} : login' = [login EXCEPT ![l].at = x]
    BY <1>1 DEF StartDeviceFlow
  <2>2. /\ UNCHANGED serviceVars /\ UNCHANGED <<tokenFile, filePrivate>>
        /\ login[l].at = "new" /\ MayMove(l)
    BY <1>1 DEF StartDeviceFlow, MayMove
  <2>3. x \in LoginAt
    BY DEF LoginAt
  <2>4. \E s : s.at = x /\ LoginMoves(l, s)
    BY <2>1, <2>2, <2>3, SimpleMove DEF WroteAt
  <2>5. PICK s : s.at = x /\ LoginMoves(l, s)
    BY <2>4
  <2> QED BY <2>1, <2>2, <2>5, QuietMove DEF MayHaveBroken
<1>2. CASE CheckTime(l)
  <2>1. PICK s : s.at \in {"failed", "asleep"} /\ LoginMoves(l, s)
    BY <1>2, CheckTimeMoves
  <2>2. login[l].at = "check" /\ UNCHANGED <<tokenFile, filePrivate>>
    BY <1>2 DEF CheckTime
  <2> QED BY <2>1, <2>2, QuietMove DEF MayHaveBroken
<1>3. CASE Poll(l)
  <2>1. PICK s : s.at \in {"check", "slowed", "failed", "authorized"} /\ LoginMoves(l, s)
    BY <1>3, PollMoves
  <2>2. login[l].at = "asleep" /\ UNCHANGED <<tokenFile, filePrivate>>
    BY <1>3 DEF Poll
  <2> QED BY <2>1, <2>2, QuietMove DEF MayHaveBroken
<1>4. CASE SlowedDown(l)
  <2>1. /\ UNCHANGED serviceVars /\ UNCHANGED <<tokenFile, filePrivate>>
        /\ login[l].at = "slowed" /\ MayMove(l)
        /\ login' = [login EXCEPT ![l].at = "check"]
    BY <1>4 DEF SlowedDown, LoginRuns, MayMove
  <2>2. \E s : s.at = "check" /\ LoginMoves(l, s)
    BY <2>1, SimpleMove DEF LoginAt, WroteAt
  <2>3. PICK s : s.at = "check" /\ LoginMoves(l, s)
    BY <2>2
  <2> QED BY <2>1, <2>3, QuietMove DEF MayHaveBroken
<1>5. CASE Killed(l)
  <2>1. /\ UNCHANGED serviceVars /\ UNCHANGED <<tokenFile, filePrivate>>
        /\ MayMove(l) /\ login' = [login EXCEPT ![l].at = "killed"]
    BY <1>5 DEF Killed, MayMove
  <2>2. \E s : s.at = "killed" /\ LoginMoves(l, s)
    BY <2>1, SimpleMove DEF LoginAt, WroteAt
  <2>3. PICK s : s.at = "killed" /\ LoginMoves(l, s)
    BY <2>2
  <2> QED BY <2>1, <2>3, QuietMove
<1> QED BY <1>1, <1>2, <1>3, <1>4, <1>5, TruncateKeeps, FillKeeps, SetModeKeeps DEF LoginStep

-----------------------------------------------------------------------------
(* The steps of the service, of GitHub, and of time. *)

(* A step that leaves the file and the logins where they are. *)
LEMMA ServiceKeeps ==
  ASSUME TokenIInv, UNCHANGED <<tokenFile, filePrivate>>,
         login' \in [Logins -> LoginState],
         \A l \in Logins : login'[l].at = login[l].at,
         githubToken' \in {githubToken, LoadCachedToken},
         copilotToken' \in {{}} \union {{t} : t \in CopilotTokens},
         call' \in [TokenCalls -> CallState]
  PROVE  TokenIInv'
<1>1. githubToken' \in Logins \union {0}
  BY StateWithin DEF LoadCachedToken
<1>2. TokenTypeOK'
  BY <1>1, StateWithin, ShapeSuffices
<1>3. TokenFileSettles'
  BY DEF TokenIInv, TokenFileSettles, MayHaveBroken
<1>4. OneLoginRuns' /\ LaterAreNew' /\ WrittenIsThere'
  BY DEF TokenIInv, OneLoginRuns, LaterAreNew, WrittenIsThere, LoginRuns
<1>5. 0 \notin Logins
  BY TokenAssumption
<1>6. Granted(tokenFile)'
  BY DEF TokenIInv, TokensAreGranted, Granted
<1>7. Granted(githubToken)'
  BY <1>5 DEF TokenIInv, TokensAreGranted, Granted, LoadCachedToken
<1> QED BY <1>2, <1>3, <1>4, <1>6, <1>7 DEF TokenIInv, TokensAreGranted

LEMMA IdleIsAState == [c \in TokenCalls |-> Idle] \in [TokenCalls -> CallState]
  BY DEF Idle, CallState

(* A call moves to a place of its own, with a token or none. *)
LEMMA CallMoves ==
  ASSUME TokenIInv, NEW c \in TokenCalls, NEW s \in CallState,
         call' = [call EXCEPT ![c] = s],
         UNCHANGED <<tokenFile, filePrivate, login, githubToken>>,
         copilotToken' \in {{}} \union {{t} : t \in CopilotTokens}
  PROVE  TokenIInv'
<1>1. call' \in [TokenCalls -> CallState]
  BY StateWithin
<1> QED BY <1>1, StateWithin, ServiceKeeps

LEMMA GetTokenKeeps ==
  ASSUME TokenIInv, NEW c \in TokenCalls, GetToken(c)
  PROVE  TokenIInv'
<1>1. Fresh \in {{}} \union {{t} : t \in CopilotTokens}
  BY StateWithin DEF Fresh
<1>2. PICK s : s = IF Fresh # {} THEN [at |-> "send", got |-> Fresh]
                   ELSE [at |-> IF githubToken = 0 THEN "failed" ELSE "fetch", got |-> {}]
  OBVIOUS
<1>3. s \in CallState
  BY <1>1, <1>2 DEF CallState
<1>4. call' = [call EXCEPT ![c] = s]
  BY <1>2 DEF GetToken
<1>5. UNCHANGED <<tokenFile, filePrivate, login, githubToken, copilotToken>>
  BY DEF GetToken
<1> QED BY <1>3, <1>4, <1>5, StateWithin, CallMoves

(* A call goes to another place and keeps its token. *)
LEMMA CallGoes ==
  ASSUME TokenIInv, NEW c \in TokenCalls,
         NEW x \in {"idle", "fetch", "answered", "send", "answer", "failed"},
         call' = [call EXCEPT ![c].at = x],
         UNCHANGED <<tokenFile, filePrivate, login, githubToken>>,
         copilotToken' \in {{}} \union {{t} : t \in CopilotTokens}
  PROVE  TokenIInv'
<1>1. PICK s : s = [call[c] EXCEPT !.at = x]
  OBVIOUS
<1>2. s \in CallState
  BY <1>1, StateWithin DEF CallState
<1>3. call' = [call EXCEPT ![c] = s]
  BY <1>1
<1> QED BY <1>2, <1>3, CallMoves

LEMMA FetchAnsweredKeeps ==
  ASSUME TokenIInv, NEW c \in TokenCalls, FetchAnswered(c)
  PROVE  TokenIInv'
<1>1. UNCHANGED <<tokenFile, filePrivate, login, githubToken, copilotToken>>
  BY DEF FetchAnswered
<1>2. CASE call' = [call EXCEPT ![c].at = "failed"]
  BY <1>1, <1>2, StateWithin, CallGoes
<1>3. ASSUME NEW n \in {Life, Guess},
             call' = [call EXCEPT ![c] = [at |-> "answered", got |-> {[left |-> n, ok |-> TRUE]}]]
      PROVE  TokenIInv'
  <2>1. [left |-> n, ok |-> TRUE] \in CopilotTokens
    BY TokenAssumption DEF CopilotTokens
  <2>2. [at |-> "answered", got |-> {[left |-> n, ok |-> TRUE]}] \in CallState
    BY <2>1 DEF CallState
  <2> QED BY <1>1, <1>3, <2>2, StateWithin, CallMoves
<1> QED BY <1>2, <1>3 DEF FetchAnswered

LEMMA CallKeeps ==
  ASSUME TokenIInv, NEW c \in TokenCalls, GetToken(c) \/ CallStep(c)
  PROVE  TokenIInv'
<1>1. CASE StoreToken(c)
  <2>1. UNCHANGED <<tokenFile, filePrivate, login, githubToken>>
    BY <1>1 DEF StoreToken
  <2>2. copilotToken' \in {{}} \union {{t} : t \in CopilotTokens}
    BY <1>1, StateWithin DEF StoreToken, CallState
  <2> QED BY <1>1, <2>1, <2>2, CallGoes DEF StoreToken
<1>2. CASE SendRequest(c)
  <2>1. UNCHANGED <<tokenFile, filePrivate, login, githubToken, copilotToken>>
    BY <1>2 DEF SendRequest
  <2>2. PICK x \in {"answer", "failed"} : call' = [call EXCEPT ![c].at = x]
    BY <1>2 DEF SendRequest
  <2> QED BY <2>1, <2>2, StateWithin, CallGoes
<1>3. CASE CallReturns(c)
  <2>1. UNCHANGED <<tokenFile, filePrivate, login, githubToken, copilotToken>>
    BY <1>3 DEF CallReturns
  <2>2. Idle \in CallState
    BY DEF Idle, CallState
  <2> QED BY <1>3, <2>1, <2>2, StateWithin, CallMoves DEF CallReturns
<1> QED BY <1>1, <1>2, <1>3, GetTokenKeeps, FetchAnsweredKeeps DEF CallStep

LEMMA StartServiceKeeps ==
  ASSUME TokenIInv, StartService
  PROVE  TokenIInv'
<1>1. UNCHANGED <<tokenFile, filePrivate, login>> /\ copilotToken' = {}
  BY DEF StartService
<1> QED BY <1>1, IdleIsAState, StateWithin, ServiceKeeps DEF StartService

LEMMA RejectIssuedKeeps ==
  ASSUME TokenIInv, RejectIssuedTokens
  PROVE  TokenIInv'
<1>1. UNCHANGED <<tokenFile, filePrivate, login, githubToken>>
  BY DEF RejectIssuedTokens
<1>2. copilotToken' \in {{}} \union {{t} : t \in CopilotTokens}
  BY StateWithin, DroppedType DEF RejectIssuedTokens
<1>3. ASSUME NEW c \in TokenCalls
      PROVE  [call[c] EXCEPT !.got = Dropped(@)] \in CallState
  BY StateWithin, DroppedType DEF CallState
<1>4. call' \in [TokenCalls -> CallState]
  BY <1>3 DEF RejectIssuedTokens
<1> QED BY <1>1, <1>2, <1>4, StateWithin, ServiceKeeps

LEMMA TickKeeps ==
  ASSUME TokenIInv, Tick
  PROVE  TokenIInv'
<1>1. UNCHANGED <<tokenFile, filePrivate, githubToken>>
  BY DEF Tick
<1>2. copilotToken' \in {{}} \union {{t} : t \in CopilotTokens}
  BY StateWithin, AgedType DEF Tick
<1>3. ASSUME NEW c \in TokenCalls
      PROVE  [call[c] EXCEPT !.got = Aged(@)] \in CallState
  BY StateWithin, AgedType DEF CallState
<1>4. call' \in [TokenCalls -> CallState]
  BY <1>3 DEF Tick
<1>5. ASSUME NEW l \in Logins
      PROVE  login'[l] \in LoginState /\ login'[l].at = login[l].at
  <2>1. PICK s : s = [login[l] EXCEPT !.elapsed = IF @ > Expires THEN @ ELSE @ + 1,
                                      !.sleep = Less(@)]
    OBVIOUS
  <2>2. login[l] \in LoginState
    BY StateWithin
  <2>3. Less(login[l].sleep) \in 0..(Interval + SlowDown)
    BY <2>2, LessIsBelow, TokenAssumption DEF LoginState
  <2>4. (IF login[l].elapsed > Expires THEN login[l].elapsed ELSE login[l].elapsed + 1)
          \in 0..(Expires + 1)
    BY <2>2, TokenAssumption DEF LoginState
  <2>5. s \in LoginState /\ s.at = login[l].at
    BY <2>1, <2>2, <2>3, <2>4 DEF LoginState
  <2>6. login'[l] = IF ~LoginRuns(l) THEN login[l] ELSE s
    BY <2>1 DEF Tick
  <2> QED BY <2>2, <2>5, <2>6
<1>6. login' \in [Logins -> LoginState]
  BY <1>5 DEF Tick
<1> QED BY <1>1, <1>2, <1>4, <1>5, <1>6, ServiceKeeps

-----------------------------------------------------------------------------
(* The theorems. *)

LEMMA TokenInitIsInv == TokenInit => TokenIInv
<1> SUFFICES ASSUME TokenInit PROVE TokenIInv
  OBVIOUS
<1>1. login \in [Logins -> LoginState]
  BY ZeroOfAssumption DEF TokenInit, LoginState, LoginAt
<1>2. TokenTypeOK
  BY <1>1, IdleIsAState, TokenShape DEF TokenInit
<1>3. TokenFileSettles
  BY DEF TokenInit, TokenFileSettles
<1>4. OneLoginRuns /\ LaterAreNew /\ WrittenIsThere
  BY DEF TokenInit, OneLoginRuns, LaterAreNew, WrittenIsThere, LoginRuns
<1>5. TokensAreGranted
  BY NotALogin DEF TokenInit, TokensAreGranted, Granted, Absent
<1> QED BY <1>2, <1>3, <1>4, <1>5 DEF TokenIInv

LEMMA TokenStepKeeps == TokenIInv /\ [TokenNext]_tokenVars => TokenIInv'
<1> SUFFICES ASSUME TokenIInv, [TokenNext]_tokenVars PROVE TokenIInv'
  OBVIOUS
<1>1. CASE UNCHANGED tokenVars
  BY <1>1, StateWithin, ServiceKeeps DEF tokenVars
<1>2. CASE \E l \in Logins : RejectGithubToken(l)
  BY <1>2, StateWithin, ServiceKeeps DEF RejectGithubToken, serviceVars
<1> QED BY <1>1, <1>2, LoginKeeps, CallKeeps, StartServiceKeeps, RejectIssuedKeeps, TickKeeps
        DEF TokenNext

(* What the inductive invariant says holds of every reachable state. *)
LEMMA TokenIInvHolds == TokenSpec => []TokenIInv
  BY TokenInitIsInv, TokenStepKeeps, PTL DEF TokenSpec

(* The file and the memory of the service hold what they may, and a token in
   the file is whole and private, unless a login is in its save, or was killed
   or failed to save, and none after it saved its token: for any number of
   logins and calls, and whatever the times are (copilot.rs:53-60, 95-111). *)
THEOREM TokenInvHolds == TokenSpec => []TokenInv
<1>1. TokenIInv => TokenInv
  BY DEF TokenIInv, TokenInv
<1> QED BY <1>1, TokenIInvHolds, PTL

(* No token comes from anywhere else than a login that GitHub authorized and
   that came as far as to write it, neither the one in the file nor the one
   that the service read from it at its start (copilot.rs:60-95, 377-455). *)
THEOREM TokensAreGrantedHolds == TokenSpec => []TokensAreGranted
<1>1. TokenIInv => TokensAreGranted
  BY DEF TokenIInv
<1> QED BY <1>1, TokenIInvHolds, PTL

-----------------------------------------------------------------------------
(* The stream of a reply. *)

StreamSpec == StreamInit /\ [][StreamNext]_streamVars

(* How much text the first n symbols of s hold. *)
TextIn(s, n) == Cardinality({i \in 1..n : s[i] \in Texts})

(* How much of the body has been taken out of the buffer, line by line. *)
Arrived == Len(body) - Len(wire)
Taken == Arrived - Len(buf)

(* x came as the symbol y: as it was sent, or damaged, if a chunk ended inside
   a character. *)
CameAs(x, y) == x = y \/ (cut /\ x = "?" /\ y \in Texts)

StreamTyped ==
  /\ at \in {"probe", "ask", "reading", "done", "closed", "calls", "failed"}
  /\ IsBody(body)
  /\ wire \in Seq(Symbols) /\ buf \in Seq(Symbols \union {"?"})
  /\ full \in Seq(Texts \union {"?"}) /\ accumulated = full
  /\ cut \in BOOLEAN
  /\ reply \in Seq([id : BOOLEAN, name : BOOLEAN])

(* The body is what was taken, then the buffer, then the wire. *)
BodyInParts ==
  /\ Arrived \in Nat /\ Taken \in Nat
  /\ \A i \in DOMAIN wire : wire[i] = body[Arrived + i]
  /\ \A i \in DOMAIN buf : CameAs(buf[i], body[Taken + i])

CutIsNoticed == Arrived > 0 /\ body[Arrived] = "e1" => cut

LinesAreWhole == Taken > 0 => body[Taken] = "nl"

TextIsTaken ==
  /\ Len(full) = TextIn(body, Taken)
  /\ \A i \in 1..Taken : body[i] \in Texts => CameAs(full[TextIn(body, i)], body[i])

EndIsKnown ==
  /\ at = "done" => \A i \in (Taken + 1)..Len(body) : body[i] \notin Texts
  /\ at = "closed" => ~HasLine(buf)

NothingReadYet ==
  at \in {"probe", "ask", "calls"} => wire = <<>> /\ buf = <<>> /\ full = <<>>

StreamIInv ==
  /\ StreamTyped /\ NothingReadYet /\ BodyInParts /\ CutIsNoticed /\ LinesAreWhole
  /\ TextIsTaken /\ EndIsKnown /\ NoCallPassedOver

-----------------------------------------------------------------------------
(* Counting text. *)

LEMMA TextSetFinite ==
  ASSUME NEW s, NEW n \in Nat
  PROVE  IsFiniteSet({i \in 1..n : s[i] \in Texts})
<1>1. IsFiniteSet(1..n)
  BY FS_Interval
<1>2. {i \in 1..n : s[i] \in Texts} \in SUBSET (1..n)
  OBVIOUS
<1> QED BY <1>1, <1>2, FS_Subset

LEMMA TextInNat ==
  ASSUME NEW s, NEW n \in Nat
  PROVE  TextIn(s, n) \in Nat /\ TextIn(s, 0) = 0
<1>1. TextIn(s, n) \in Nat
  BY TextSetFinite, FS_CardinalityType DEF TextIn
<1>2. {i \in 1..0 : s[i] \in Texts} = {}
  OBVIOUS
<1>3. TextIn(s, 0) = 0
  BY <1>2, FS_EmptySet DEF TextIn
<1> QED BY <1>1, <1>3

(* Up to n there is the text up to m and what lies between. *)
LEMMA TextInParts ==
  ASSUME NEW s, NEW m \in Nat, NEW n \in Nat, m <= n
  PROVE  /\ IsFiniteSet({i \in (m + 1)..n : s[i] \in Texts})
         /\ TextIn(s, n) = TextIn(s, m) + Cardinality({i \in (m + 1)..n : s[i] \in Texts})
<1> DEFINE A == {i \in 1..m : s[i] \in Texts}
           B == {i \in (m + 1)..n : s[i] \in Texts}
<1>1. IsFiniteSet(A)
  BY TextSetFinite
<1>2. IsFiniteSet(B)
  <2>1. IsFiniteSet((m + 1)..n)
    BY FS_Interval
  <2>2. B \in SUBSET ((m + 1)..n)
    OBVIOUS
  <2> QED BY <2>1, <2>2, FS_Subset
<1>3. {i \in 1..n : s[i] \in Texts} = A \cup B
  OBVIOUS
<1>4. A \cap B = {}
  OBVIOUS
<1>5. Cardinality(A \cup B) = Cardinality(A) + Cardinality(B) - Cardinality(A \cap B)
  BY <1>1, <1>2, FS_Union
<1>6. Cardinality({}) = 0 /\ Cardinality(A) \in Nat /\ Cardinality(B) \in Nat
  BY <1>1, <1>2, FS_EmptySet, FS_CardinalityType
<1>7. TextIn(s, n) = Cardinality(A \cup B) /\ TextIn(s, m) = Cardinality(A)
  BY <1>3 DEF TextIn
<1>8. TextIn(s, n) = TextIn(s, m) + Cardinality(B)
  <2>1. Cardinality(A \cap B) = 0
    BY <1>4, <1>6
  <2> HIDE DEF A, B
  <2> QED BY <2>1, <1>5, <1>6, <1>7
<1> QED BY <1>2, <1>8 DEF B

LEMMA TextInGrows ==
  ASSUME NEW s, NEW m \in Nat, NEW n \in Nat, m <= n
  PROVE  TextIn(s, m) <= TextIn(s, n)
<1> DEFINE B == {i \in (m + 1)..n : s[i] \in Texts}
<1>1. Cardinality(B) \in Nat
  BY TextInParts, FS_CardinalityType
<1>2. TextIn(s, n) = TextIn(s, m) + Cardinality(B)
  BY TextInParts
<1>3. TextIn(s, m) \in Nat
  BY TextInNat
<1> HIDE DEF B
<1> QED BY <1>1, <1>2, <1>3

(* A text counts. *)
LEMMA TextCounts ==
  ASSUME NEW s, NEW m \in Nat, NEW n \in Nat, m < n, s[n] \in Texts
  PROVE  TextIn(s, m) < TextIn(s, n)
<1>1. n - 1 \in Nat /\ m <= n - 1 /\ n - 1 <= n
  OBVIOUS
<1>2. TextIn(s, m) <= TextIn(s, n - 1)
  BY <1>1, TextInGrows
<1>3. {i \in ((n - 1) + 1)..n : s[i] \in Texts} = {n}
  <2>1. ((n - 1) + 1)..n = {n}
    OBVIOUS
  <2> QED BY <2>1
<1>4. TextIn(s, n) = TextIn(s, n - 1) + 1
  <2>1. TextIn(s, n) = TextIn(s, n - 1) + Cardinality({i \in ((n - 1) + 1)..n : s[i] \in Texts})
    <3> DEFINE p == n - 1
    <3>1. p \in Nat /\ p <= n
      BY <1>1
    <3> HIDE DEF p
    <3>2. TextIn(s, n) = TextIn(s, p) + Cardinality({i \in (p + 1)..n : s[i] \in Texts})
      BY <3>1, TextInParts
    <3> QED BY <3>2 DEF p
  <2>2. Cardinality({n}) = 1
    BY FS_Singleton
  <2> QED BY <2>1, <2>2, <1>3
<1>5. TextIn(s, m) \in Nat /\ TextIn(s, n - 1) \in Nat
  BY <1>1, TextInNat
<1> QED BY <1>2, <1>4, <1>5

LEMMA SilentPart ==
  ASSUME NEW s, NEW m \in Nat, NEW n \in Nat, m <= n,
         \A i \in (m + 1)..n : s[i] \notin Texts
  PROVE  TextIn(s, n) = TextIn(s, m)
<1>1. {i \in (m + 1)..n : s[i] \in Texts} = {}
  OBVIOUS
<1> QED BY <1>1, TextInParts, FS_EmptySet, TextInNat

LEMMA TextPart ==
  ASSUME NEW s, NEW m \in Nat, NEW n \in Nat, m <= n,
         \A i \in (m + 1)..n : s[i] \in Texts
  PROVE  TextIn(s, n) = TextIn(s, m) + (n - m)
<1>1. {i \in (m + 1)..n : s[i] \in Texts} = (m + 1)..n
  OBVIOUS
<1>2. Cardinality((m + 1)..n) = n - m
  <2>1. m + 1 \in Int /\ n \in Int
    OBVIOUS
  <2>2. Cardinality((m + 1)..n) = IF m + 1 > n THEN 0 ELSE n - (m + 1) + 1
    BY <2>1, FS_Interval
  <2> QED BY <2>2
<1>3. TextIn(s, n) = TextIn(s, m) + Cardinality({i \in (m + 1)..n : s[i] \in Texts})
  BY TextInParts
<1> QED BY <1>1, <1>2, <1>3

-----------------------------------------------------------------------------
(* Where the first line of a buffer ends. *)

LEMMA MinIsFirst ==
  ASSUME NEW S \in SUBSET Nat, S # {}
  PROVE  Min(S) \in S /\ \A y \in S : Min(S) <= y
<1>1. \E x \in S : \A y \in S : x <= y
  BY FirstPlace
<1> QED BY <1>1 DEF Min

LineEnd(s) == SelectInSeq(s, LAMBDA x : x = "nl")

LEMMA LineEndIsFirst ==
  ASSUME NEW s, Len(s) \in Nat, DOMAIN s = 1..Len(s), HasLine(s)
  PROVE  /\ LineEnd(s) \in 1..Len(s) /\ s[LineEnd(s)] = "nl"
         /\ \A i \in 1..(LineEnd(s) - 1) : s[i] # "nl"
<1> DEFINE I == {i \in 1..Len(s) : s[i] = "nl"}
<1>1. I \in SUBSET Nat /\ I # {}
  BY DEF HasLine
<1>2. LineEnd(s) = Min(I)
  BY <1>1 DEF LineEnd, SelectInSeq
<1>3. Min(I) \in I /\ \A y \in I : Min(I) <= y
  <2> HIDE DEF I
  <2> QED BY <1>1, MinIsFirst
<1>4. LineEnd(s) \in 1..Len(s) /\ s[LineEnd(s)] = "nl"
  BY <1>2, <1>3
<1>5. ASSUME NEW i \in 1..(LineEnd(s) - 1) PROVE s[i] # "nl"
  <2>1. i \in 1..Len(s)
    BY <1>4
  <2>2. i \notin I
    BY <1>2, <1>3, <1>4
  <2> QED BY <2>1, <2>2
<1> QED BY <1>4, <1>5

LEMMA LineAndRest ==
  ASSUME NEW s, Len(s) \in Nat, DOMAIN s = 1..Len(s), HasLine(s)
  PROVE  FirstLine(s) = SubSeq(s, 1, LineEnd(s) - 1) /\ AfterLine(s) = SubSeq(s, LineEnd(s) + 1, Len(s))
BY DEF FirstLine, AfterLine, LineEnd

-----------------------------------------------------------------------------
(* The lines of a body: k symbols from d on, the last of them the line's end. *)

LineAt(s, d, k) ==
  /\ d + k <= Len(s) /\ (d > 0 => s[d] = "nl")
  /\ s[d + k] = "nl" /\ \A i \in 1..(k - 1) : s[d + i] # "nl"

(* What is left of s behind its first k elements. *)
LEMMA RestIs ==
  ASSUME NEW X, NEW s \in Seq(X), NEW k \in 0..Len(s)
  PROVE  LET others == SubSeq(s, k + 1, Len(s))
         IN  /\ others \in Seq(X) /\ Len(others) = Len(s) - k /\ DOMAIN others = 1..(Len(s) - k)
             /\ \A i \in 1..(Len(s) - k) : others[i] = s[k + i]
<1> DEFINE others == SubSeq(s, k + 1, Len(s))
           m == k + 1
<1>1. Len(s) \in Nat /\ k \in Nat /\ k <= Len(s)
  BY LenProperties
<1>2. m \in 1..(Len(s) + 1) /\ Len(s) \in (m - 1)..Len(s)
  BY <1>1
<1>3. /\ SubSeq(s, m, Len(s)) \in Seq(X)
      /\ Len(SubSeq(s, m, Len(s))) = Len(s) - m + 1
      /\ \A i \in 1..(Len(s) - m + 1) : SubSeq(s, m, Len(s))[i] = s[m + i - 1]
  <2> HIDE DEF m
  <2> QED BY <1>2, SubSeqProperties
<1>4. /\ others \in Seq(X) /\ Len(others) = Len(s) - m + 1
      /\ \A i \in 1..(Len(s) - m + 1) : others[i] = s[m + i - 1]
  BY <1>3
<1>5. DOMAIN others = 1..Len(others)
  BY <1>4, LenProperties
<1>6. Len(s) - m + 1 = Len(s) - k /\ \A i \in 1..(Len(s) - k) : m + i - 1 = k + i
  BY <1>1
<1> HIDE DEF others, m
<1>7. /\ Len(others) = Len(s) - k /\ DOMAIN others = 1..(Len(s) - k)
      /\ \A i \in 1..(Len(s) - k) : others[i] = s[k + i]
  BY <1>4, <1>5, <1>6
<1> QED BY <1>4, <1>7 DEF others

LEMMA BodySymbols ==
  ASSUME NEW s, IsBody(s)
  PROVE  /\ Len(s) \in Nat /\ DOMAIN s = 1..Len(s)
         /\ \A i \in 1..Len(s) : s[i] \in Symbols
<1>1. s \in Seq(Symbols)
  BY DEF IsBody
<1> QED BY <1>1, LenProperties, ElementOfSeq

LEMMA TextFollows ==
  ASSUME NEW s, IsBody(s), NEW p \in DOMAIN s, s[p] \in Texts
  PROVE  p > 1 /\ s[p - 1] \in {"data:"} \union Texts
BY DEF IsBody

LEMMA TextIsFollowed ==
  ASSUME NEW s, IsBody(s), NEW p \in DOMAIN s, p < Len(s), s[p] \in {"data:"} \union Texts
  PROVE  s[p + 1] \in {"nl"} \union Texts
BY DEF IsBody

LEMMA DataOpensLine ==
  ASSUME NEW s, IsBody(s), NEW p \in DOMAIN s, s[p] = "data:"
  PROVE  p = 1 \/ s[p - 1] = "nl"
BY DEF IsBody

(* A line with a delta is text up to its end. *)
LEMMA LineIsText ==
  ASSUME NEW s, IsBody(s), NEW d \in Nat, NEW k \in Nat, k > 1, LineAt(s, d, k),
         s[d + 1] = "data:"
  PROVE  \A i \in 2..(k - 1) : s[d + i] \in Texts
<1> SUFFICES ASSUME NEW j \in 2..(k - 1), s[d + j] \notin Texts PROVE FALSE
  OBVIOUS
<1> DEFINE S == {i \in 2..(k - 1) : s[d + i] \notin Texts}
<1>1. PICK i \in S : \A y \in S : i <= y
  <2>1. S \in SUBSET Nat
    OBVIOUS
  <2>2. j \in S
    OBVIOUS
  <2> HIDE DEF S
  <2> QED BY <2>1, <2>2, FirstPlace
<1>2. i \in 2..(k - 1) /\ s[d + i] \notin Texts
  BY <1>1
<1>3. s[d + (i - 1)] \in {"data:"} \union Texts
  <2>1. CASE i = 2
    BY <2>1, <1>2
  <2>2. CASE i # 2
    <3>1. i - 1 \in 2..(k - 1) /\ i - 1 < i
      BY <2>2, <1>2
    <3>2. i - 1 \notin S
      BY <3>1, <1>1
    <3> QED BY <3>1, <3>2
  <2> QED BY <2>1, <2>2
<1> DEFINE p == d + (i - 1)
<1>4. p \in DOMAIN s /\ p < Len(s) /\ p + 1 = d + i
  BY <1>2, BodySymbols DEF LineAt
<1>5. s[p + 1] \in {"nl"} \union Texts
  <2>1. s[p] \in {"data:"} \union Texts
    BY <1>3
  <2> HIDE DEF p
  <2> QED BY <1>4, <2>1, TextIsFollowed
<1>6. s[d + i] # "nl"
  <2>1. i \in 1..(k - 1)
    BY <1>2
  <2> QED BY <2>1 DEF LineAt
<1> QED BY <1>2, <1>4, <1>5, <1>6

(* Any other line holds none. *)
LEMMA LineIsSilent ==
  ASSUME NEW s, IsBody(s), NEW d \in Nat, NEW k \in Nat, k > 0, LineAt(s, d, k),
         k > 1 => s[d + 1] # "data:"
  PROVE  \A i \in 1..k : s[d + i] \notin Texts
<1> SUFFICES ASSUME NEW j \in 1..k, s[d + j] \in Texts PROVE FALSE
  OBVIOUS
<1> DEFINE S == {i \in 1..k : s[d + i] \in Texts}
<1>1. PICK i \in S : \A y \in S : i <= y
  <2>1. S \in SUBSET Nat
    OBVIOUS
  <2>2. j \in S
    OBVIOUS
  <2> HIDE DEF S
  <2> QED BY <2>1, <2>2, FirstPlace
<1>2. i \in 1..k /\ s[d + i] \in Texts
  BY <1>1
<1>3. d + i \in DOMAIN s
  BY <1>2, BodySymbols DEF LineAt
<1> DEFINE p == d + (i - 1)
<1>4. p \in Nat /\ d + i = p + 1
  BY <1>2
<1>5. p > 0 /\ s[p] \in {"data:"} \union Texts
  <2>1. d + i > 1 /\ s[d + i - 1] \in {"data:"} \union Texts
    BY <1>2, <1>3, TextFollows
  <2>2. d + i - 1 = p
    BY <1>2
  <2> QED BY <2>1, <2>2, <1>4
<1>6. i # 1
  <2> SUFFICES ASSUME i = 1 PROVE FALSE
    OBVIOUS
  <2>1. p = d
    BY <1>2
  <2>2. s[d] = "nl"
    BY <2>1, <1>5 DEF LineAt
  <2> QED BY <2>1, <2>2, <1>5 DEF Texts
<1>7. i - 1 \in 1..k /\ i - 1 \notin S
  BY <1>1, <1>2, <1>6
<1>8. s[p] = "data:"
  BY <1>5, <1>7
<1>9. p \in DOMAIN s
  BY <1>3, <1>4, <1>5, BodySymbols
<1>10. p = 1 \/ s[p - 1] = "nl"
  <2> HIDE DEF p
  <2> QED BY <1>8, <1>9, DataOpensLine
<1>11. CASE i = 2
  <2>1. p = d + 1
    BY <1>11
  <2> QED BY <2>1, <1>8, <1>11, <1>2
<1>12. CASE i # 2
  <2>1. i - 2 \in 1..(k - 1) /\ p - 1 = d + (i - 2) /\ p # 1
    BY <1>12, <1>2, <1>6
  <2> QED BY <2>1, <1>10 DEF LineAt
<1> QED BY <1>11, <1>12

-----------------------------------------------------------------------------
(* The beginning, and the steps that take nothing from the wire. *)

LEMMA EmptyBody == IsBody(<<>>) /\ Len(<<>>) = 0 /\ DOMAIN <<>> = {} /\ \A S : <<>> \in Seq(S)
BY DEF IsBody

LEMMA StreamInitIsInv == StreamInit => StreamIInv
<1> SUFFICES ASSUME StreamInit PROVE StreamIInv
  OBVIOUS
<1>0. IsBody(body)
  BY EmptyBody DEF StreamInit
<1>1. StreamTyped
  BY <1>0, EmptyBody DEF StreamInit, StreamTyped
<1>2. Arrived = 0 /\ Taken = 0
  <2>1. Len(body) = 0 /\ Len(wire) = 0 /\ Len(buf) = 0
    BY EmptyBody DEF StreamInit
  <2> QED BY <2>1 DEF Arrived, Taken
<1>3. BodyInParts
  BY <1>2 DEF StreamInit, BodyInParts
<1>4. CutIsNoticed /\ LinesAreWhole
  BY <1>2 DEF CutIsNoticed, LinesAreWhole
<1>5. TextIsTaken
  BY <1>2, TextInNat DEF StreamInit, TextIsTaken
<1>6. EndIsKnown /\ NothingReadYet /\ NoCallPassedOver
  BY DEF StreamInit, EndIsKnown, NothingReadYet, NoCallPassedOver
<1> QED BY <1>1, <1>3, <1>4, <1>5, <1>6 DEF StreamIInv

(* What the reader holds. *)
readerVars == <<body, wire, buf, accumulated, full, cut>>

LEMMA ReaderKeeps ==
  StreamIInv /\ UNCHANGED readerVars =>
    BodyInParts' /\ CutIsNoticed' /\ LinesAreWhole' /\ TextIsTaken'
<1> SUFFICES ASSUME StreamIInv, UNCHANGED readerVars
             PROVE  BodyInParts' /\ CutIsNoticed' /\ LinesAreWhole' /\ TextIsTaken'
  OBVIOUS
<1>1. Arrived' = Arrived /\ Taken' = Taken
  BY DEF readerVars, Arrived, Taken
<1>2. BodyInParts' /\ CutIsNoticed'
  BY <1>1 DEF readerVars, StreamIInv, BodyInParts, CutIsNoticed, CameAs
<1>3. LinesAreWhole' /\ TextIsTaken'
  BY <1>1 DEF readerVars, StreamIInv, LinesAreWhole, TextIsTaken, CameAs
<1> QED BY <1>2, <1>3

LEMMA ProbeKeeps == StreamIInv /\ Probe => StreamIInv'
<1> SUFFICES ASSUME StreamIInv, Probe PROVE StreamIInv'
  OBVIOUS
<1>0. UNCHANGED readerVars
  BY DEF Probe, readerVars
<1>1. BodyInParts' /\ CutIsNoticed' /\ LinesAreWhole' /\ TextIsTaken'
  BY <1>0, ReaderKeeps
<1>2. CASE at' = "failed" /\ UNCHANGED reply
  <2>1. StreamTyped'
    BY <1>0, <1>2 DEF readerVars, StreamIInv, StreamTyped
  <2>2. EndIsKnown' /\ NothingReadYet' /\ NoCallPassedOver'
    BY <1>2 DEF EndIsKnown, NothingReadYet, NoCallPassedOver
  <2> QED BY <1>1, <2>1, <2>2 DEF StreamIInv
<1>3. ASSUME NEW r \in Replies, reply' = r.calls,
             at' = CASE ~r.choice -> "failed"
                     [] ParseReply(r) # {} -> "calls"
                     [] OTHER -> "ask"
      PROVE  StreamIInv'
  <2>1. r.choice \in BOOLEAN /\ r.calls \in Seq([id : BOOLEAN, name : BOOLEAN])
    BY StreamAssumption
  <2>2. /\ at' \in {"failed", "calls", "ask"}
        /\ at' = "ask" => ParseReply(r) = {}
    BY <1>3, <2>1
  <2>3. StreamTyped'
    BY <1>0, <1>3, <2>1, <2>2 DEF readerVars, StreamIInv, StreamTyped
  <2>4. EndIsKnown' /\ NothingReadYet'
    BY <1>0, <2>2 DEF EndIsKnown, StreamIInv, NothingReadYet, readerVars, Probe
  <2>5. NoCallPassedOver'
    BY <1>3, <2>2 DEF NoCallPassedOver, ParseReply
  <2> QED BY <1>1, <2>3, <2>4, <2>5 DEF StreamIInv
<1> QED BY <1>2, <1>3 DEF Probe

LEMMA OpenStreamKeeps == StreamIInv /\ OpenStream => StreamIInv'
<1> SUFFICES ASSUME StreamIInv, OpenStream PROVE StreamIInv'
  OBVIOUS
<1>1. CASE at' = "failed" /\ UNCHANGED <<body, wire>>
  <2>0. UNCHANGED readerVars /\ UNCHANGED reply
    BY <1>1 DEF OpenStream, readerVars
  <2>1. StreamTyped'
    BY <2>0, <1>1 DEF readerVars, StreamIInv, StreamTyped
  <2>2. EndIsKnown' /\ NothingReadYet' /\ NoCallPassedOver'
    BY <1>1 DEF EndIsKnown, NothingReadYet, NoCallPassedOver
  <2> QED BY <2>0, <2>1, <2>2, ReaderKeeps DEF StreamIInv
<1>2. CASE at' = "reading" /\ body' \in Bodies /\ wire' = body'
  <2>1. IsBody(body')
    BY <1>2, StreamAssumption
  <2>2. body' \in Seq(Symbols) /\ wire' \in Seq(Symbols) /\ Len(body') \in Nat
    BY <2>1, <1>2, BodySymbols DEF IsBody
  <2>3. at = "ask" /\ UNCHANGED <<reply, buf, accumulated, full, cut>>
    BY DEF OpenStream
  <2>4. StreamTyped'
    BY <1>2, <2>1, <2>2, <2>3 DEF StreamIInv, StreamTyped
  <2>5. buf' = <<>> /\ full' = <<>> /\ Len(buf') = 0
    BY EmptyBody, <2>3 DEF StreamIInv, NothingReadYet
  <2>6. Arrived' = 0 /\ Taken' = 0
    <3>1. Len(wire') = Len(body')
      BY <1>2
    <3>2. Len(body') \in Nat /\ Len(buf') = 0
      BY <2>2, <2>5
    <3>3. Arrived' = 0
      BY <3>1, <3>2 DEF Arrived
    <3> QED BY <3>2, <3>3 DEF Taken
  <2>7. BodyInParts'
    BY <1>2, <2>5, <2>6 DEF BodyInParts
  <2>8. CutIsNoticed' /\ LinesAreWhole'
    BY <2>6 DEF CutIsNoticed, LinesAreWhole
  <2>9. TextIsTaken'
    BY <2>5, <2>6, TextInNat DEF TextIsTaken
  <2>10. EndIsKnown' /\ NothingReadYet'
    BY <1>2 DEF EndIsKnown, NothingReadYet
  <2>11. NoCallPassedOver'
    BY <1>2, <2>3 DEF StreamIInv, NoCallPassedOver
  <2> QED BY <2>4, <2>7, <2>8, <2>9, <2>10, <2>11 DEF StreamIInv
<1> QED BY <1>1, <1>2 DEF OpenStream

LEMMA NextRequestKeeps == StreamIInv /\ NextRequest => StreamIInv'
<1> SUFFICES ASSUME StreamIInv, NextRequest PROVE StreamIInv'
  OBVIOUS
<1>0. IsBody(body')
  BY EmptyBody DEF NextRequest
<1>1. StreamTyped'
  BY <1>0, EmptyBody DEF NextRequest, StreamTyped
<1>2. Arrived' = 0 /\ Taken' = 0
  <2>1. Len(body') = 0 /\ Len(wire') = 0 /\ Len(buf') = 0
    BY EmptyBody DEF NextRequest
  <2> QED BY <2>1 DEF Arrived, Taken
<1>3. BodyInParts' /\ NothingReadYet'
  BY <1>2 DEF NextRequest, BodyInParts, NothingReadYet
<1>4. CutIsNoticed' /\ LinesAreWhole'
  BY <1>2 DEF CutIsNoticed, LinesAreWhole
<1>5. TextIsTaken'
  BY <1>2, TextInNat DEF NextRequest, TextIsTaken
<1>6. EndIsKnown' /\ NoCallPassedOver'
  BY DEF NextRequest, EndIsKnown, NoCallPassedOver
<1> QED BY <1>1, <1>3, <1>4, <1>5, <1>6 DEF StreamIInv

LEMMA EndKeeps == StreamIInv /\ (ConnectionFails \/ BodyEnds) => StreamIInv'
<1> SUFFICES ASSUME StreamIInv, ConnectionFails \/ BodyEnds PROVE StreamIInv'
  OBVIOUS
<1>1. /\ UNCHANGED readerVars /\ UNCHANGED reply
      /\ at = "reading" /\ at' \in {"failed", "closed"} /\ ~HasLine(buf)
  BY DEF ConnectionFails, BodyEnds, readerVars
<1>2. StreamTyped'
  BY <1>1 DEF readerVars, StreamIInv, StreamTyped
<1>3. EndIsKnown' /\ NothingReadYet'
  <2>1. ~HasLine(buf')
    BY <1>1 DEF readerVars
  <2> QED BY <2>1, <1>1 DEF EndIsKnown, NothingReadYet
<1>4. NoCallPassedOver'
  BY <1>1 DEF StreamIInv, NoCallPassedOver
<1> QED BY <1>1, <1>2, <1>3, <1>4, ReaderKeeps DEF StreamIInv

-----------------------------------------------------------------------------
(* A chunk arrives. *)

LEMMA DecodeIs ==
  ASSUME NEW c \in Seq(Symbols)
  PROVE  /\ Decode(c) \in Seq(Symbols \union {"?"}) /\ Len(Decode(c)) = Len(c)
         /\ \A i \in 1..Len(c) :
              \/ Decode(c)[i] = c[i]
              \/ /\ Decode(c)[i] = "?"
                 /\ (i = 1 /\ c[i] = "e2") \/ (i = Len(c) /\ c[i] = "e1")
<1> DEFINE D == Decode(c)
<1>1. Len(c) \in Nat /\ DOMAIN c = 1..Len(c) /\ \A i \in 1..Len(c) : c[i] \in Symbols
  BY LenProperties, ElementOfSeq
<1>2. D = [i \in 1..Len(c) |->
             IF (i = 1 /\ c[i] = "e2") \/ (i = Len(c) /\ c[i] = "e1") THEN "?" ELSE c[i]]
  BY <1>1 DEF Decode
<1>3. \A i \in 1..Len(c) :
        \/ D[i] = c[i]
        \/ /\ D[i] = "?"
           /\ (i = 1 /\ c[i] = "e2") \/ (i = Len(c) /\ c[i] = "e1")
  BY <1>2
<1>4. D \in [1..Len(c) -> Symbols \union {"?"}]
  <2> HIDE DEF D
  <2> DEFINE value(i) == IF (i = 1 /\ c[i] = "e2") \/ (i = Len(c) /\ c[i] = "e1") THEN "?" ELSE c[i]
  <2>0. D = [i \in 1..Len(c) |-> value(i)]
    BY <1>2
  <2>1. ASSUME NEW i \in 1..Len(c) PROVE value(i) \in Symbols \union {"?"}
    <3>1. c[i] \in Symbols
      BY <1>1
    <3>2. value(i) = "?" \/ value(i) = c[i]
      BY Zenon
    <3> HIDE DEF value
    <3> QED BY <3>1, <3>2
  <2> HIDE DEF value
  <2>2. [i \in 1..Len(c) |-> value(i)] \in [1..Len(c) -> Symbols \union {"?"}]
    BY <2>1
  <2> QED BY <2>0, <2>2
<1>5. D \in Seq(Symbols \union {"?"}) /\ Len(D) = Len(c)
  <2> HIDE DEF D
  <2>1. D \in Seq(Symbols \union {"?"}) /\ DOMAIN D = 1..Len(c)
    BY <1>1, <1>4, IsASeq
  <2> QED BY <2>1, <1>1, LenProperties
<1> QED BY <1>3, <1>5

LEMMA ReadChunkKeeps == StreamIInv /\ ReadChunk => StreamIInv'
<1> SUFFICES ASSUME StreamIInv, ReadChunk PROVE StreamIInv'
  OBVIOUS
<1>0. at = "reading" /\ UNCHANGED <<at, reply, body, accumulated, full>>
  BY DEF ReadChunk
<1>1. /\ IsBody(body) /\ wire \in Seq(Symbols) /\ buf \in Seq(Symbols \union {"?"})
      /\ cut \in BOOLEAN /\ Len(wire) \in Nat /\ Len(buf) \in Nat /\ Len(body) \in Nat
  BY BodySymbols, LenProperties DEF StreamIInv, StreamTyped
<1>2. PICK n \in 1..Len(wire) :
        /\ buf' = buf \o Decode(SubSeq(wire, 1, n))
        /\ wire' = SubSeq(wire, n + 1, Len(wire))
        /\ cut' = (cut \/ wire[n] = "e1")
  BY DEF ReadChunk
<1> DEFINE packet == SubSeq(wire, 1, n)
<1>3. /\ packet \in Seq(Symbols) /\ Len(packet) = n /\ \A i \in 1..n : packet[i] = wire[i]
  BY <1>1, SubSeqProperties
<1>4. /\ wire' \in Seq(Symbols) /\ Len(wire') = Len(wire) - n /\ DOMAIN wire' = 1..(Len(wire) - n)
      /\ \A i \in 1..(Len(wire) - n) : wire'[i] = wire[n + i]
  <2>1. n \in 0..Len(wire)
    BY <1>1
  <2> QED BY <1>1, <1>2, <2>1, RestIs
<1> DEFINE D == Decode(packet)
<1>5. /\ D \in Seq(Symbols \union {"?"}) /\ Len(D) = n
      /\ \A i \in 1..n :
           \/ D[i] = wire[i]
           \/ /\ D[i] = "?"
              /\ (i = 1 /\ wire[i] = "e2") \/ (i = n /\ wire[i] = "e1")
  <2> HIDE DEF packet
  <2> QED BY <1>3, DecodeIs
<1>6. /\ buf' \in Seq(Symbols \union {"?"}) /\ Len(buf') = Len(buf) + n
      /\ DOMAIN buf' = 1..(Len(buf) + n)
      /\ \A i \in 1..(Len(buf) + n) :
           buf'[i] = IF i <= Len(buf) THEN buf[i] ELSE D[i - Len(buf)]
  <2> HIDE DEF D
  <2>1. buf' = buf \o D
    BY <1>2 DEF D
  <2> DEFINE new == buf \o D
  <2>2. /\ new \in Seq(Symbols \union {"?"}) /\ Len(new) = Len(buf) + Len(D)
        /\ \A i \in 1..(Len(buf) + Len(D)) :
             new[i] = IF i <= Len(buf) THEN buf[i] ELSE D[i - Len(buf)]
    <3> DEFINE S == Symbols \union {"?"}
    <3>1. buf \in Seq(S) /\ D \in Seq(S)
      BY <1>1, <1>5
    <3> HIDE DEF S
    <3>2. /\ new \in Seq(S) /\ Len(new) = Len(buf) + Len(D)
          /\ \A i \in 1..(Len(buf) + Len(D)) :
               new[i] = IF i <= Len(buf) THEN buf[i] ELSE D[i - Len(buf)]
      BY <3>1, ConcatProperties
    <3> QED BY <3>2 DEF S
  <2>3. buf' = new /\ Len(D) = n
    BY <2>1, <1>5
  <2>4. DOMAIN new = 1..Len(new)
    BY <2>2, LenProperties
  <2> HIDE DEF new
  <2> QED BY <2>1, <2>2, <2>3, <2>4
<1> HIDE DEF D, packet
<1>7. /\ Arrived \in Nat /\ Taken \in Nat /\ Arrived = Len(body) - Len(wire) /\ Taken = Arrived - Len(buf)
  BY DEF StreamIInv, BodyInParts, Arrived, Taken
<1>8. Arrived' = Arrived + n /\ Taken' = Taken
  <2>1. Arrived' = Arrived + n
    BY <1>0, <1>1, <1>4, <1>7 DEF Arrived
  <2> QED BY <2>1, <1>1, <1>6, <1>7 DEF Taken
<1>9. \A i \in 1..Len(wire) : wire[i] = body[Arrived + i] /\ Arrived + i \in DOMAIN body
  <2>1. DOMAIN wire = 1..Len(wire) /\ DOMAIN body = 1..Len(body)
    BY <1>1, LenProperties, BodySymbols
  <2>2. \A i \in 1..Len(wire) : wire[i] = body[Arrived + i]
    BY <2>1 DEF StreamIInv, BodyInParts
  <2>3. \A i \in 1..Len(wire) : Arrived + i \in DOMAIN body
    BY <2>1, <1>1, <1>7
  <2> QED BY <2>2, <2>3
<1>10. cut' \in BOOLEAN /\ (cut => cut')
  BY <1>1, <1>2
<1>11. ASSUME NEW i \in 1..n
       PROVE  D[i] = body[Arrived + i] \/ (cut' /\ D[i] = "?" /\ body[Arrived + i] \in Texts)
  <2>1. wire[i] = body[Arrived + i] /\ Arrived + i \in DOMAIN body
    BY <1>9, <1>1
  <2>2. CASE D[i] = wire[i]
    BY <2>1, <2>2
  <2>3. CASE D[i] = "?" /\ i = 1 /\ wire[i] = "e2"
    <3> DEFINE p == Arrived + 1
    <3>1. p \in DOMAIN body /\ body[p] = "e2"
      BY <2>1, <2>3
    <3> HIDE DEF p
    <3>2. body[p - 1] = "e1" /\ p > 1
      BY <3>1, <1>1, TextFollows DEF IsBody, Texts
    <3>3. p - 1 = Arrived /\ Arrived > 0
      BY <3>2, <1>7 DEF p
    <3>4. cut
      BY <3>2, <3>3 DEF StreamIInv, CutIsNoticed
    <3> QED BY <2>1, <2>3, <3>4, <1>10 DEF Texts
  <2>4. CASE D[i] = "?" /\ i = n /\ wire[i] = "e1"
    <3>1. wire[n] = "e1"
      BY <2>4
    <3>2. cut'
      BY <3>1, <1>2
    <3>3. body[Arrived + i] \in Texts
      BY <2>1, <2>4 DEF Texts
    <3>4. D[i] = "?"
      BY <2>4
    <3> QED BY <3>2, <3>3, <3>4, <1>10
  <2> QED BY <2>2, <2>3, <2>4, <1>5
<1>12. BodyInParts'
  <2>1. Arrived' \in Nat /\ Taken' \in Nat
    BY <1>7, <1>8
  <2>2. \A i \in DOMAIN wire' : wire'[i] = body[Arrived' + i]
    <3> SUFFICES ASSUME NEW i \in 1..(Len(wire) - n) PROVE wire'[i] = body[Arrived + n + i]
      BY <1>4, <1>8
    <3>1. n + i \in 1..Len(wire) /\ Arrived + (n + i) = Arrived + n + i
      BY <1>1, <1>7
    <3> QED BY <3>1, <1>4, <1>9
  <2>3. \A i \in DOMAIN buf' :
          \/ buf'[i] = body[Taken + i]
          \/ cut' /\ buf'[i] = "?" /\ body[Taken + i] \in Texts
    <3> SUFFICES ASSUME NEW i \in 1..(Len(buf) + n)
                 PROVE  \/ buf'[i] = body[Taken + i]
                        \/ cut' /\ buf'[i] = "?" /\ body[Taken + i] \in Texts
      BY <1>6
    <3>1. CASE i <= Len(buf)
      <4>1. i \in DOMAIN buf
        BY <3>1, <1>1, LenProperties
      <4>2. CameAs(buf[i], body[Taken + i])
        BY <4>1 DEF StreamIInv, BodyInParts
      <4> QED BY <3>1, <4>2, <1>6, <1>10 DEF CameAs
    <3>2. CASE ~(i <= Len(buf))
      <4> DEFINE k == i - Len(buf)
      <4>1. k \in 1..n /\ Arrived + k = Taken + i
        BY <3>2, <1>1, <1>7
      <4>2. buf'[i] = D[k]
        BY <3>2, <1>6
      <4> HIDE DEF k
      <4> QED BY <4>1, <4>2, <1>11
    <3> QED BY <3>1, <3>2
  <2> QED BY <2>1, <2>2, <2>3, <1>0, <1>8 DEF BodyInParts, CameAs
<1>13. CutIsNoticed'
  <2>1. wire[n] = body[Arrived + n]
    BY <1>9
  <2> QED BY <2>1, <1>0, <1>2, <1>8 DEF CutIsNoticed
<1>14. LinesAreWhole' /\ TextIsTaken'
  <2>1. LinesAreWhole'
    BY <1>0, <1>8 DEF StreamIInv, LinesAreWhole
  <2>2. TextIsTaken'
    BY <1>0, <1>8, <1>10 DEF StreamIInv, TextIsTaken, CameAs
  <2> QED BY <2>1, <2>2
<1>15. StreamTyped'
  BY <1>0, <1>4, <1>6, <1>10 DEF StreamIInv, StreamTyped
<1>16. EndIsKnown' /\ NothingReadYet' /\ NoCallPassedOver'
  BY <1>0 DEF StreamIInv, EndIsKnown, NothingReadYet, NoCallPassedOver
<1> QED BY <1>12, <1>13, <1>14, <1>15, <1>16 DEF StreamIInv

-----------------------------------------------------------------------------
(* A line is taken. *)

LEMMA TakeLineKeeps == StreamIInv /\ TakeLine => StreamIInv'
<1> SUFFICES ASSUME StreamIInv, TakeLine PROVE StreamIInv'
  OBVIOUS
<1> DEFINE k == LineEnd(buf)
           line == FirstLine(buf)
           d == Taken
<1>0. at = "reading" /\ HasLine(buf) /\ UNCHANGED <<reply, body, wire, cut>>
  BY DEF TakeLine
<1>1. /\ IsBody(body) /\ buf \in Seq(Symbols \union {"?"}) /\ full \in Seq(Texts \union {"?"})
      /\ Len(buf) \in Nat /\ Len(body) \in Nat /\ Len(wire) \in Nat
      /\ DOMAIN buf = 1..Len(buf) /\ DOMAIN body = 1..Len(body)
  BY BodySymbols, LenProperties DEF StreamIInv, StreamTyped
<1>2. k \in 1..Len(buf) /\ buf[k] = "nl" /\ \A i \in 1..(k - 1) : buf[i] # "nl"
  BY <1>0, <1>1, LineEndIsFirst
<1>3. line = SubSeq(buf, 1, k - 1) /\ buf' = SubSeq(buf, k + 1, Len(buf))
  BY <1>0, <1>1, LineAndRest DEF TakeLine
<1>4. /\ line \in Seq(Symbols \union {"?"}) /\ Len(line) = k - 1
      /\ \A i \in 1..(k - 1) : line[i] = buf[i]
  <2> HIDE DEF k, line
  <2>1. k - 1 \in Int /\ 1 \in Int /\ 1 <= k /\ k - 1 <= Len(buf) /\ k - 1 >= 0
    BY <1>1, <1>2
  <2> QED BY <2>1, <1>1, <1>3, SubSeqProperties
<1>5. /\ buf' \in Seq(Symbols \union {"?"}) /\ Len(buf') = Len(buf) - k
      /\ DOMAIN buf' = 1..(Len(buf) - k)
      /\ \A i \in 1..(Len(buf) - k) : buf'[i] = buf[k + i]
  <2> HIDE DEF k
  <2>1. k \in 0..Len(buf)
    BY <1>1, <1>2
  <2> QED BY <1>1, <1>3, <2>1, RestIs
<1>6. /\ d \in Nat /\ d + Len(buf) = Arrived /\ Arrived <= Len(body)
      /\ Arrived' = Arrived /\ Taken' = d + k
  <2>1. Arrived \in Nat /\ Taken \in Nat
    BY DEF StreamIInv, BodyInParts
  <2>2. Arrived = Len(body) - Len(wire) /\ Taken = Arrived - Len(buf)
    BY DEF Arrived, Taken
  <2>3. Arrived' = Arrived
    BY <1>0 DEF Arrived
  <2>4. Taken' = Arrived' - Len(buf')
    BY DEF Taken
  <2> HIDE DEF k
  <2> QED BY <2>1, <2>2, <2>3, <2>4, <1>1, <1>2, <1>5
<1> HIDE DEF k, line, d
<1>6a. k \in Nat /\ k > 0
  BY <1>1, <1>2
<1>7. \A i \in 1..Len(buf) : CameAs(buf[i], body[d + i])
  BY <1>1 DEF StreamIInv, BodyInParts, d
<1>8. LineAt(body, d, k)
  <2>1. d + k <= Len(body)
    BY <1>1, <1>2, <1>6
  <2>2. d > 0 => body[d] = "nl"
    BY DEF StreamIInv, LinesAreWhole, d
  <2>3. body[d + k] = "nl"
    BY <1>2, <1>7 DEF CameAs, Texts
  <2>4. \A i \in 1..(k - 1) : body[d + i] # "nl"
    <3> SUFFICES ASSUME NEW i \in 1..(k - 1) PROVE body[d + i] # "nl"
      OBVIOUS
    <3>1. CameAs(buf[i], body[d + i]) /\ buf[i] # "nl"
      BY <1>1, <1>2, <1>7
    <3> QED BY <3>1 DEF CameAs, Texts
  <2> QED BY <2>1, <2>2, <2>3, <2>4 DEF LineAt
<1>9. BodyInParts'
  <2>1. Taken' \in Nat /\ Arrived' \in Nat
    BY <1>1, <1>2, <1>6
  <2>2. \A i \in DOMAIN wire' : wire'[i] = body[Arrived' + i]
    BY <1>0, <1>6 DEF StreamIInv, BodyInParts
  <2>3. \A i \in DOMAIN buf' : CameAs(buf'[i], body[d + k + i])
    <3> SUFFICES ASSUME NEW i \in 1..(Len(buf) - k) PROVE CameAs(buf'[i], body[d + k + i])
      BY <1>5
    <3>1. k + i \in 1..Len(buf) /\ d + (k + i) = d + k + i
      BY <1>1, <1>2, <1>6
    <3> QED BY <3>1, <1>5, <1>7
  <2> QED BY <2>1, <2>2, <2>3, <1>0, <1>6 DEF BodyInParts, CameAs
<1>10. CutIsNoticed' /\ LinesAreWhole'
  <2>1. CutIsNoticed'
    BY <1>0, <1>6 DEF StreamIInv, CutIsNoticed
  <2>2. body[d + k] = "nl"
    BY <1>8 DEF LineAt
  <2>3. LinesAreWhole'
    BY <2>2, <1>0, <1>6 DEF LinesAreWhole
  <2> QED BY <2>1, <2>3
(* What was shown stays, for the text of the lines before. *)
<1>11. /\ Len(full) = TextIn(body, d) /\ DOMAIN full = 1..Len(full)
       /\ \A i \in 1..d : body[i] \in Texts =>
            TextIn(body, i) \in 1..Len(full) /\ CameAs(full[TextIn(body, i)], body[i])
  <2>1. /\ Len(full) = TextIn(body, d)
        /\ \A i \in 1..d : body[i] \in Texts => CameAs(full[TextIn(body, i)], body[i])
    BY DEF StreamIInv, TextIsTaken, d
  <2>2. ASSUME NEW i \in 1..d, body[i] \in Texts PROVE TextIn(body, i) \in 1..Len(full)
    <3>1. i \in Nat /\ 0 < i /\ i <= d
      BY <1>6
    <3>2. TextIn(body, 0) < TextIn(body, i) /\ TextIn(body, i) <= TextIn(body, d)
      BY <3>1, <2>2, <1>6, TextCounts, TextInGrows
    <3>3. TextIn(body, 0) = 0 /\ TextIn(body, i) \in Nat /\ TextIn(body, d) \in Nat
      BY <3>1, <1>6, TextInNat
    <3> QED BY <3>2, <3>3, <2>1
  <2>3. DOMAIN full = 1..Len(full)
    BY <1>1, LenProperties
  <2> QED BY <2>1, <2>2, <2>3
(* A line without a delta. *)
<1>12. ASSUME \A i \in 1..k : body[d + i] \notin Texts, full' = full PROVE TextIsTaken'
  <2>1. \A i \in (d + 1)..(d + k) : body[i] \notin Texts
    <3> SUFFICES ASSUME NEW i \in (d + 1)..(d + k) PROVE body[i] \notin Texts
      OBVIOUS
    <3>1. i - d \in 1..k /\ d + (i - d) = i
      BY <1>2, <1>6
    <3> QED BY <3>1, <1>12
  <2>2. d \in Nat /\ d + k \in Nat /\ d <= d + k
    BY <1>2, <1>6
  <2>3. TextIn(body, d + k) = TextIn(body, d)
    BY <2>1, <2>2, SilentPart
  <2>4. \A i \in 1..(d + k) : body[i] \in Texts => CameAs(full[TextIn(body, i)], body[i])
    <3> SUFFICES ASSUME NEW i \in 1..(d + k), body[i] \in Texts
                 PROVE  CameAs(full[TextIn(body, i)], body[i])
      OBVIOUS
    <3>1. i \in 1..d
      BY <2>1, <2>2, <1>6
    <3> QED BY <3>1, <1>11
  <2> QED BY <2>3, <2>4, <1>0, <1>6, <1>11, <1>12 DEF TextIsTaken, CameAs
<1>13. at' \in {"done", "reading"}
  BY <1>0 DEF TakeLine
<1>14. NoCallPassedOver' /\ NothingReadYet'
  BY <1>0, <1>13 DEF StreamIInv, NoCallPassedOver, NothingReadYet
<1>15. CASE line = <<"DONE">>
  <2>1. at' = "done" /\ UNCHANGED <<accumulated, full>>
    BY <1>15 DEF TakeLine, line
  <2>2. k = 2 /\ buf[1] = "DONE"
    <3>1. Len(line) = 1 /\ line[1] = "DONE"
      BY <1>15
    <3>2. k - 1 = 1
      BY <3>1, <1>4
    <3>3. k = 2
      BY <3>2, <1>6a
    <3>4. line[1] = buf[1]
      BY <3>3, <1>4
    <3> QED BY <3>1, <3>3, <3>4
  <2>3. d + 1 \in DOMAIN body /\ body[d + 1] = "DONE"
    <3>1. CameAs(buf[1], body[d + 1])
      BY <1>2, <1>7, <2>2
    <3>2. d + 1 \in 1..Len(body)
      BY <1>1, <1>2, <1>6, <2>2
    <3> QED BY <3>1, <3>2, <2>2, <1>1 DEF CameAs
  <2>4. \A j \in (d + 1)..Len(body) : body[j] \notin Texts
    <3> DEFINE p == d + 1
    <3>1. p \in DOMAIN body /\ body[p] = "DONE"
      BY <2>3
    <3> HIDE DEF p
    <3>2. \A j \in p..Len(body) : body[j] \notin Texts
      BY <3>1, <1>1 DEF IsBody
    <3> QED BY <3>2 DEF p
  <2>5. \A i \in 1..k : body[d + i] \notin Texts
    <3> SUFFICES ASSUME NEW i \in 1..k PROVE body[d + i] \notin Texts
      OBVIOUS
    <3>1. d + i \in (d + 1)..Len(body)
      BY <1>1, <1>2, <1>6
    <3> QED BY <3>1, <2>4
  <2>6. TextIsTaken'
    BY <2>1, <2>5, <1>12
  <2>7. EndIsKnown'
    <3> SUFFICES ASSUME NEW i \in (d + k + 1)..Len(body) PROVE body[i] \notin Texts
      BY <2>1, <1>0, <1>6 DEF EndIsKnown
    <3>1. i \in (d + 1)..Len(body)
      BY <1>2, <1>6
    <3> QED BY <3>1, <2>4
  <2>8. StreamTyped'
    BY <2>1, <1>0, <1>5 DEF StreamIInv, StreamTyped
  <2> QED BY <1>9, <1>10, <1>14, <2>6, <2>7, <2>8 DEF StreamIInv
<1>16. CASE line # <<"DONE">>
  <2> DEFINE delta == DeltaOf(line)
  <2>1. accumulated' = accumulated \o delta /\ full' = full \o delta /\ at' = at
    BY <1>16 DEF TakeLine, line
  <2>2. EndIsKnown'
    BY <2>1, <1>0 DEF EndIsKnown
  <2>3. ASSUME delta \in Seq(Texts \union {"?"}) PROVE StreamTyped'
    <3> HIDE DEF delta
    <3>1. full' \in Seq(Texts \union {"?"})
      BY <2>1, <2>3, <1>1, ConcatProperties
    <3>2. accumulated' = full'
      BY <2>1 DEF StreamIInv, StreamTyped
    <3> QED BY <3>1, <3>2, <2>1, <1>0, <1>5 DEF StreamIInv, StreamTyped
  <2>4. CASE line # <<>> /\ Head(line) = "data:"
    <3>1. k > 1 /\ line[1] = "data:"
      <4>1. Len(line) # 0
        BY <2>4, <1>4, EmptySeq
      <4>2. Head(line) = line[1]
        BY <2>4, <1>4, HeadTailProperties
      <4> QED BY <4>1, <4>2, <2>4, <1>2, <1>4
    <3>2. body[d + 1] = "data:"
      <4>1. CameAs(buf[1], body[d + 1]) /\ buf[1] = line[1]
        BY <3>1, <1>1, <1>2, <1>4, <1>7
      <4>2. buf[1] = "data:"
        BY <4>1, <3>1
      <4> QED BY <4>1, <4>2 DEF CameAs
    <3>3. \A i \in 2..(k - 1) : body[d + i] \in Texts
      BY <3>1, <3>2, <1>1, <1>6a, <1>6, <1>8, LineIsText
    <3>4. /\ delta \in Seq(Symbols \union {"?"}) /\ Len(delta) = k - 2
          /\ \A i \in 1..(k - 2) : delta[i] = buf[i + 1]
      <4>1. delta = Tail(line)
        BY <2>4 DEF DeltaOf
      <4>2. /\ Tail(line) \in Seq(Symbols \union {"?"}) /\ Len(Tail(line)) = Len(line) - 1
            /\ \A i \in 1..Len(Tail(line)) : Tail(line)[i] = line[i + 1]
        BY <2>4, <1>4, HeadTailProperties
      <4>3. (k - 1) - 1 = k - 2 /\ \A i \in 1..(k - 2) : i + 1 \in 1..(k - 1)
        BY <1>2, <3>1
      <4> HIDE DEF delta
      <4> QED BY <4>1, <4>2, <4>3, <1>4
    <3> HIDE DEF delta
    <3>5. \A i \in 1..(k - 2) : CameAs(delta[i], body[d + 1 + i]) /\ body[d + 1 + i] \in Texts
      <4> SUFFICES ASSUME NEW i \in 1..(k - 2)
                   PROVE  CameAs(delta[i], body[d + 1 + i]) /\ body[d + 1 + i] \in Texts
        OBVIOUS
      <4>1. i + 1 \in 2..(k - 1) /\ i + 1 \in 1..Len(buf) /\ d + (i + 1) = d + 1 + i
        BY <1>1, <1>2, <1>6
      <4> QED BY <4>1, <3>3, <3>4, <1>7
    <3>6. delta \in Seq(Texts \union {"?"})
      <4>1. \A i \in 1..(k - 2) : delta[i] \in Texts \union {"?"}
        BY <3>5 DEF CameAs
      <4>2. DOMAIN delta = 1..(k - 2) /\ k - 2 \in Nat
        BY <3>1, <3>4, <1>2, LenProperties
      <4>3. delta \in [1..(k - 2) -> Symbols \union {"?"}]
        BY <3>4, <4>2, LenProperties
      <4>4. delta \in [1..(k - 2) -> Texts \union {"?"}]
        BY <4>1, <4>3
      <4> QED BY <4>2, <4>4, IsASeq
    <3>7. TextIsTaken'
      <4>1. /\ Len(full') = Len(full) + (k - 2)
            /\ \A i \in 1..(Len(full) + (k - 2)) :
                 full'[i] = IF i <= Len(full) THEN full[i] ELSE delta[i - Len(full)]
        <5> DEFINE new == full \o delta
        <5>1. /\ Len(new) = Len(full) + Len(delta)
              /\ \A i \in 1..(Len(full) + Len(delta)) :
                   new[i] = IF i <= Len(full) THEN full[i] ELSE delta[i - Len(full)]
          BY <3>6, <1>1, ConcatProperties
        <5>2. full' = new /\ Len(delta) = k - 2
          BY <2>1, <3>4
        <5> HIDE DEF new
        <5> QED BY <5>1, <5>2
      (* How the text is counted on this line. *)
      <4>2. d \in Nat /\ k \in Nat /\ k > 1 /\ k - 2 \in Nat
        BY <1>1, <1>2, <1>6, <3>1
      <4>3. TextIn(body, d + 1) = TextIn(body, d)
        <5>1. \A i \in (d + 1)..(d + 1) : body[i] \notin Texts
          BY <4>2, <3>2 DEF Texts
        <5> QED BY <5>1, <4>2, SilentPart
      <4>4. ASSUME NEW i \in 0..(k - 2) PROVE TextIn(body, d + 1 + i) = Len(full) + i
        <5>1. \A j \in (d + 1 + 1)..(d + 1 + i) : body[j] \in Texts
          <6> SUFFICES ASSUME NEW j \in (d + 1 + 1)..(d + 1 + i) PROVE body[j] \in Texts
            OBVIOUS
          <6>1. j - (d + 1) \in 1..(k - 2) /\ d + 1 + (j - (d + 1)) = j
            BY <4>2
          <6> QED BY <6>1, <3>5
        <5>2. d + 1 \in Nat /\ d + 1 + i \in Nat /\ d + 1 <= d + 1 + i /\ (d + 1 + i) - (d + 1) = i
          BY <4>2
        <5>3. TextIn(body, d + 1 + i) = TextIn(body, d + 1) + ((d + 1 + i) - (d + 1))
          BY <5>1, <5>2, TextPart
        <5> QED BY <5>2, <5>3, <4>3, <1>11
      <4>5. Len(full) \in Nat
        BY <1>1, LenProperties
      <4>6. TextIn(body, d + k) = Len(full')
        <5>1. d + 1 + (k - 2) = d + k - 1 /\ k - 2 \in 0..(k - 2) /\ d + k - 1 \in Nat
          BY <4>2
        <5>2. TextIn(body, d + k - 1) = Len(full) + (k - 2)
          BY <5>1, <4>4
        <5>3. \A i \in ((d + k - 1) + 1)..(d + k) : body[i] \notin Texts
          BY <4>2, <1>8 DEF LineAt, Texts
        <5>4. TextIn(body, d + k) = TextIn(body, d + k - 1)
          BY <5>1, <5>3, <4>2, SilentPart
        <5> QED BY <5>2, <5>4, <4>1
      <4>7. ASSUME NEW i \in 1..(d + k), body[i] \in Texts
            PROVE  CameAs(full'[TextIn(body, i)], body[i])
        <5>1. CASE i \in 1..d
          <6> DEFINE n == TextIn(body, i)
          <6>1. n \in 1..Len(full) /\ CameAs(full[n], body[i])
            BY <5>1, <4>7, <1>11
          <6> HIDE DEF n
          <6>2. full'[n] = full[n]
            BY <6>1, <4>1, <4>2, <4>5
          <6> QED BY <6>1, <6>2 DEF n
        <5>2. CASE i \notin 1..d
          <6> DEFINE j == i - (d + 1)
          <6>1. i # d + 1 /\ i # d + k
            BY <4>7, <3>2, <1>8 DEF Texts, LineAt
          <6>2. j \in 1..(k - 2) /\ d + 1 + j = i /\ j \in 0..(k - 2)
            BY <6>1, <5>2, <4>2
          <6> HIDE DEF j
          <6>3. TextIn(body, i) = Len(full) + j
            BY <6>2, <4>4
          <6>4. full'[Len(full) + j] = delta[j]
            <7>1. Len(full) + j \in 1..(Len(full) + (k - 2)) /\ ~(Len(full) + j <= Len(full))
                  /\ (Len(full) + j) - Len(full) = j
              BY <6>2, <4>2, <4>5
            <7> QED BY <7>1, <4>1
          <6>5. CameAs(delta[j], body[i])
            BY <6>2, <3>5
          <6> QED BY <6>3, <6>4, <6>5
        <5> QED BY <5>1, <5>2
      <4> QED BY <4>6, <4>7, <1>0, <1>6 DEF TextIsTaken, CameAs
    <3> QED BY <1>9, <1>10, <1>14, <2>2, <2>3, <3>6, <3>7 DEF StreamIInv
  <2>5. CASE ~(line # <<>> /\ Head(line) = "data:")
    <3>1. delta = <<>>
      BY <2>5 DEF DeltaOf
    <3>2. delta \in Seq(Texts \union {"?"})
      BY <3>1, EmptySeq
    <3>3. full' = full
      BY <2>1, <3>1, <1>1, ConcatEmptySeq
    <3>4. k > 1 => body[d + 1] # "data:"
      <4> SUFFICES ASSUME k > 1, body[d + 1] = "data:" PROVE FALSE
        OBVIOUS
      <4>1. CameAs(buf[1], body[d + 1]) /\ buf[1] = line[1]
        BY <1>1, <1>2, <1>4, <1>7
      <4>2. line[1] = "data:"
        BY <4>1 DEF CameAs, Texts
      <4>3. line # <<>>
        BY <1>4, <1>2, EmptySeq
      <4>4. Head(line) = line[1]
        BY <4>3, <1>4, HeadTailProperties
      <4>5. Head(line) = "data:"
        BY <4>2, <4>4
      <4> QED BY <2>5, <4>3, <4>5
    <3>5. \A i \in 1..k : body[d + i] \notin Texts
      BY <3>4, <1>1, <1>6a, <1>6, <1>8, LineIsSilent
    <3>6. TextIsTaken'
      BY <3>3, <3>5, <1>12
    <3> QED BY <1>9, <1>10, <1>14, <2>2, <2>3, <3>2, <3>6 DEF StreamIInv
  <2> QED BY <2>4, <2>5
<1> QED BY <1>15, <1>16

-----------------------------------------------------------------------------
(* What the inductive invariant says of what the user sees. *)

LEMMA StreamStepKeeps == StreamIInv /\ [StreamNext]_streamVars => StreamIInv'
<1> SUFFICES ASSUME StreamIInv, [StreamNext]_streamVars PROVE StreamIInv'
  OBVIOUS
<1>1. CASE UNCHANGED streamVars
  <2>1. UNCHANGED readerVars /\ UNCHANGED <<at, reply>>
    BY <1>1 DEF streamVars, readerVars
  <2>2. StreamTyped'
    BY <2>1 DEF readerVars, StreamIInv, StreamTyped
  <2>3. EndIsKnown'
    BY <2>1 DEF readerVars, StreamIInv, EndIsKnown, HasLine, Taken, Arrived
  <2>4. NothingReadYet' /\ NoCallPassedOver'
    BY <2>1 DEF readerVars, StreamIInv, NothingReadYet, NoCallPassedOver
  <2> QED BY <2>1, <2>2, <2>3, <2>4, ReaderKeeps DEF StreamIInv
<1>2. CASE Reading
  BY <1>2, TakeLineKeeps, ReadChunkKeeps, EndKeeps DEF Reading
<1> QED BY <1>1, <1>2, ProbeKeeps, OpenStreamKeeps, NextRequestKeeps DEF StreamNext

LEMMA StreamIInvImplies == StreamIInv => StreamInv
<1> SUFFICES ASSUME StreamIInv PROVE StreamInv
  OBVIOUS
<1>1. /\ IsBody(body) /\ Len(body) \in Nat /\ DOMAIN body = 1..Len(body)
      /\ Len(wire) \in Nat /\ Len(buf) \in Nat /\ DOMAIN buf = 1..Len(buf)
  BY BodySymbols, LenProperties DEF StreamIInv, StreamTyped
<1>2. /\ Taken \in Nat /\ Taken + Len(buf) = Arrived /\ Arrived + Len(wire) = Len(body)
      /\ Arrived \in Nat
  BY <1>1 DEF StreamIInv, BodyInParts, Arrived, Taken
<1>3. \A n : TextUpTo(n) = TextIn(body, n)
  BY DEF TextUpTo, TextIn
<1>4. /\ Len(full) = TextIn(body, Taken)
      /\ \A i \in 1..Taken : body[i] \in Texts => CameAs(full[TextIn(body, i)], body[i])
  BY DEF StreamIInv, TextIsTaken
<1>5. StreamTypeOK
  <2>1. /\ body \in Seq(Symbols) /\ wire \in Seq(Symbols) /\ buf \in Seq(Symbols \union {"?"})
        /\ full \in Seq(Texts \union {"?"}) /\ accumulated = full
    BY DEF StreamIInv, StreamTyped, IsBody
  <2>2. /\ \A i \in DOMAIN body : body[i] \in Symbols
        /\ \A i \in DOMAIN wire : wire[i] \in Symbols
        /\ \A i \in DOMAIN buf : buf[i] \in Symbols \union {"?"}
        /\ \A i \in DOMAIN full : full[i] \in Texts \union {"?"}
    BY <2>1, ElementOfSeq, LenProperties
  <2> QED BY <2>1, <2>2 DEF StreamIInv, StreamTyped, StreamTypeOK
<1>6. StreamedTextIsSent
  <2>1. Len(full) <= TextIn(body, Len(body))
    <3>1. Taken <= Len(body)
      BY <1>1, <1>2
    <3> QED BY <3>1, <1>1, <1>2, <1>4, TextInGrows
  <2>2. ASSUME NEW i \in DOMAIN body, body[i] \in Texts, TextIn(body, i) <= Len(full)
        PROVE  CameAs(full[TextIn(body, i)], body[i])
    <3>1. i \in Nat /\ i > 0
      BY <1>1
    <3>2. i <= Taken
      <4> SUFFICES ASSUME Taken < i PROVE FALSE
        BY <3>1, <1>2
      <4>1. TextIn(body, Taken) < TextIn(body, i)
        BY <3>1, <1>2, <2>2, TextCounts
      <4>2. TextIn(body, Taken) \in Nat /\ TextIn(body, i) \in Nat
        BY <3>1, <1>2, TextInNat
      <4> QED BY <4>1, <4>2, <2>2, <1>4
    <3>3. i \in 1..Taken
      BY <3>1, <3>2, <1>2
    <3> QED BY <3>3, <2>2, <1>4
  <2>3. Len(full) <= TextUpTo(Len(body))
    BY <2>1, <1>3
  <2>4. ASSUME NEW i \in DOMAIN body, body[i] \in Texts, TextUpTo(i) <= Len(full)
        PROVE  full[TextUpTo(i)] = body[i] \/ (cut /\ full[TextUpTo(i)] = "?")
    <3>1. TextUpTo(i) = TextIn(body, i)
      BY <1>3
    <3>2. CameAs(full[TextIn(body, i)], body[i])
      BY <3>1, <2>2, <2>4
    <3> QED BY <3>1, <3>2 DEF CameAs
  <2> QED BY <2>3, <2>4 DEF StreamedTextIsSent
<1>7. NothingMissingAtTheEnd
  <2>1. ASSUME at = "done" PROVE Len(full) = TextUpTo(Len(body))
    <3>1. \A i \in (Taken + 1)..Len(body) : body[i] \notin Texts
      BY <2>1 DEF StreamIInv, EndIsKnown
    <3>2. Taken <= Len(body)
      BY <1>1, <1>2
    <3>3. TextIn(body, Len(body)) = TextIn(body, Taken)
      BY <3>1, <3>2, <1>1, <1>2, SilentPart
    <3> QED BY <3>3, <1>3, <1>4
  <2>2. ASSUME at = "closed", NEW i \in LineEnds, \A j \in LineEnds : j <= i
        PROVE  Len(full) = TextUpTo(i)
    <3>1. i \in 1..Arrived /\ body[i] = "nl"
      BY DEF LineEnds, Arrived
    <3>2. i <= Taken
      <4> SUFFICES ASSUME ~(i <= Taken) PROVE FALSE
        OBVIOUS
      <4> DEFINE j == i - Taken
      <4>1. j \in DOMAIN buf /\ Taken + j = i
        BY <3>1, <1>1, <1>2
      <4> HIDE DEF j
      <4>2. CameAs(buf[j], body[i])
        BY <4>1 DEF StreamIInv, BodyInParts
      <4>3. buf[j] = "nl"
        BY <4>2, <3>1 DEF CameAs, Texts
      <4>4. ~HasLine(buf)
        BY <2>2 DEF StreamIInv, EndIsKnown
      <4> QED BY <4>1, <4>3, <4>4 DEF HasLine
    <3>3. Taken \in LineEnds
      <4>1. Taken > 0 /\ Taken \in 1..Arrived
        BY <3>1, <3>2, <1>1, <1>2
      <4>2. body[Taken] = "nl"
        BY <4>1 DEF StreamIInv, LinesAreWhole
      <4> QED BY <4>1, <4>2 DEF LineEnds, Arrived
    <3>4. i = Taken
      BY <3>1, <3>2, <3>3, <2>2, <1>2
    <3> QED BY <3>4, <1>3, <1>4
  <2>3. accumulated = full
    BY DEF StreamIInv, StreamTyped
  <2> QED BY <2>1, <2>2, <2>3 DEF NothingMissingAtTheEnd
<1> QED BY <1>5, <1>6, <1>7 DEF StreamIInv, StreamInv

(* For every body that the API may send, whole or broken off, and however the
   network cuts it: the user sees the text of the lines that arrived and
   nothing else, all of it when the answer is complete, and no call that could
   be run is passed over on the way to the answer (copilot.rs:484-556, 716-738;
   runtime.rs:515, 671-697). *)
THEOREM StreamInvHolds == StreamSpec => []StreamInv
BY StreamInitIsInv, StreamStepKeeps, StreamIInvImplies, PTL DEF StreamSpec

-----------------------------------------------------------------------------
(* The menu of models. *)

(* t has what s has at the places S, in the order R of the places. *)
Arranges(t, s, S, R) ==
  /\ \A k \in 1..Len(t) : \E i \in S : t[k] = s[i]
  /\ \A i \in S : \E k \in 1..Len(t) : t[k] = s[i]
  /\ \A j, k \in 1..Len(t) : j < k =>
       \E a, b \in S : t[j] = s[a] /\ t[k] = s[b] /\ <<a, b>> \in R

LEMMA ArrangedIs ==
  ASSUME NEW X, NEW s \in Seq(X), NEW S, S \subseteq DOMAIN s, NEW R, Orders(R, S)
  PROVE  /\ Arranged(s, S, R) \in Seq(X)
         /\ Len(Arranged(s, S, R)) = Cardinality(S)
         /\ Arranges(Arranged(s, S, R), s, S, R)
<1> DEFINE o == InOrder(S, R)
           n == Cardinality(S)
           t == Arranged(s, S, R)
<1>1. Len(s) \in Nat /\ DOMAIN s = 1..Len(s) /\ \A i \in 1..Len(s) : s[i] \in X
  BY LenProperties, ElementOfSeq
<1>2. IsFiniteSet(S)
  <2>1. 1 \in Int /\ Len(s) \in Int
    BY <1>1
  <2>2. IsFiniteSet(1..Len(s))
    BY <2>1, FS_Interval
  <2> QED BY <2>2, <1>1, FS_Subset
<1>3. /\ n \in Nat /\ o \in [1..n -> S]
      /\ \A x \in S : \E i \in 1..n : o[i] = x
      /\ \A i, j \in 1..n : i < j => <<o[i], o[j]>> \in R
  <2>1. o = InOrder(S, R) /\ n = Cardinality(S)
    OBVIOUS
  <2> HIDE DEF o, n
  <2> QED BY <2>1, <1>2, InOrderSorts
<1>4. t = [k \in 1..n |-> s[o[k]]]
  BY DEF Arranged
<1> HIDE DEF o, n, t
<1>5. \A k \in 1..n : o[k] \in S /\ t[k] = s[o[k]]
  BY <1>3, <1>4
<1>6. \A k \in 1..n : t[k] \in X
  BY <1>1, <1>5
<1>7. t \in Seq(X) /\ Len(t) = n
  <2>1. t \in [1..n -> X]
    BY <1>4, <1>6
  <2> QED BY <2>1, <1>3, IsASeq
<1>8. \A k \in 1..Len(t) : \E i \in S : t[k] = s[i]
  BY <1>5, <1>7
<1>9. \A i \in S : \E k \in 1..Len(t) : t[k] = s[i]
  BY <1>3, <1>5, <1>7
<1>10. \A j, k \in 1..Len(t) : j < k =>
         \E a, b \in S : t[j] = s[a] /\ t[k] = s[b] /\ <<a, b>> \in R
  <2> SUFFICES ASSUME NEW j \in 1..Len(t), NEW k \in 1..Len(t), j < k
               PROVE  \E a, b \in S : t[j] = s[a] /\ t[k] = s[b] /\ <<a, b>> \in R
    OBVIOUS
  <2>1. <<o[j], o[k]>> \in R
    BY <1>3, <1>7
  <2>2. o[j] \in S /\ t[j] = s[o[j]] /\ o[k] \in S /\ t[k] = s[o[k]]
    BY <1>5, <1>7
  <2> QED BY <2>1, <2>2
<1> QED BY <1>7, <1>8, <1>9, <1>10 DEF t, n, Arranges

(* What is in a list. *)
Members(s) == {s[i] : i \in 1..Len(s)}

LEMMA RetainedIs ==
  ASSUME NEW X, NEW s \in Seq(X), NEW S, S \subseteq DOMAIN s
  PROVE  LET t == Retained(s, S)
         IN  /\ t \in Seq(X) /\ Len(t) = Cardinality(S)
             /\ Members(t) = {s[i] : i \in S}
             /\ \A j, k \in 1..Len(t) : j < k =>
                  \E a, b \in S : t[j] = s[a] /\ t[k] = s[b] /\ a < b
<1> DEFINE R == {p \in S \X S : p[1] < p[2]}
           t == Retained(s, S)
<1>1. \A i \in S : i \in Nat
  <2>1. Len(s) \in Nat /\ DOMAIN s = 1..Len(s)
    BY LenProperties
  <2> QED BY <2>1
<1>2. \A i, j \in S : <<i, j>> \in R <=> i < j
  OBVIOUS
<1>3. t = Arranged(s, S, R)
  BY DEF Retained
<1> HIDE DEF R, t
<1>4. Orders(R, S)
  <2>1. \A x, y \in S : x # y => <<x, y>> \in R \/ <<y, x>> \in R
    BY <1>1, <1>2
  <2>2. \A x \in S : <<x, x>> \notin R
    BY <1>1, <1>2
  <2>3. \A x, y, z \in S : <<x, y>> \in R /\ <<y, z>> \in R => <<x, z>> \in R
    BY <1>1, <1>2
  <2> QED BY <2>1, <2>2, <2>3 DEF Orders
<1>5. /\ t \in Seq(X) /\ Len(t) = Cardinality(S)
      /\ \A k \in 1..Len(t) : \E i \in S : t[k] = s[i]
      /\ \A i \in S : \E k \in 1..Len(t) : t[k] = s[i]
      /\ \A j, k \in 1..Len(t) : j < k =>
           \E a, b \in S : t[j] = s[a] /\ t[k] = s[b] /\ <<a, b>> \in R
  <2>1. t \in Seq(X) /\ Len(t) = Cardinality(S) /\ Arranges(t, s, S, R)
    BY <1>3, <1>4, ArrangedIs
  <2> QED BY <2>1 DEF Arranges
<1>6. Members(t) = {s[i] : i \in S}
  <2>1. ASSUME NEW k \in 1..Len(t) PROVE \E i \in S : t[k] = s[i]
    BY <1>5
  <2>2. ASSUME NEW i \in S PROVE \E k \in 1..Len(t) : s[i] = t[k]
    BY <1>5
  <2> HIDE DEF t
  <2>3. Members(t) \subseteq {s[i] : i \in S}
    BY <2>1 DEF Members
  <2>4. {s[i] : i \in S} \subseteq Members(t)
    BY <2>2 DEF Members
  <2> QED BY <2>3, <2>4
<1> QED BY <1>2, <1>5, <1>6 DEF t

(* What comes before what is an order of the places, if first is one of what
   is there. *)
SortOrder(s, first) ==
  {p \in (DOMAIN s) \X (DOMAIN s) :
     \/ <<s[p[1]], s[p[2]]>> \in first
     \/ <<s[p[2]], s[p[1]]>> \notin first /\ p[1] < p[2]}

(* Some come first, and what is between two that are alike is like them. *)
IsKey(first, X) ==
  /\ \A x \in X : <<x, x>> \notin first
  /\ \A x, y, z \in X : <<x, y>> \in first /\ <<y, z>> \in first => <<x, z>> \in first
  /\ \A x, y, z \in X : <<x, z>> \in first => <<x, y>> \in first \/ <<y, z>> \in first

LEMMA StableSortIs ==
  ASSUME NEW X, NEW s \in Seq(X), NEW first, IsKey(first, X)
  PROVE  LET t == StableSort(s, first)
         IN  /\ t \in Seq(X) /\ Len(t) = Len(s)
             /\ Members(t) = Members(s)
             /\ \A j, k \in 1..Len(t) : j < k =>
                  \E a, b \in 1..Len(s) :
                    /\ a # b /\ t[j] = s[a] /\ t[k] = s[b]
                    /\ <<s[b], s[a]>> \notin first
<1> DEFINE S == 1..Len(s)
           R == SortOrder(s, first)
           t == StableSort(s, first)
<1>1. Len(s) \in Nat /\ DOMAIN s = S /\ \A i \in S : s[i] \in X
  BY LenProperties, ElementOfSeq
<1>2. \A i \in S : i \in Nat
  BY <1>1
<1>3. \A i, j \in S : <<i, j>> \in R <=> \/ <<s[i], s[j]>> \in first
                                         \/ <<s[j], s[i]>> \notin first /\ i < j
  <2> HIDE DEF S
  <2> QED BY <1>1 DEF SortOrder
<1>4. t = Arranged(s, S, R)
  BY <1>1 DEF StableSort, SortOrder
<1>5. Cardinality(S) = Len(s)
  <2>1. 1 \in Int /\ Len(s) \in Int
    BY <1>1
  <2>2. Cardinality(S) = IF 1 > Len(s) THEN 0 ELSE Len(s) - 1 + 1
    BY <2>1, FS_Interval
  <2> QED BY <2>2, <1>1
<1> HIDE DEF S, R, t
<1>6. Orders(R, S)
  <2>1. \A x, y \in S : x # y => <<x, y>> \in R \/ <<y, x>> \in R
    <3> SUFFICES ASSUME NEW x \in S, NEW y \in S, x # y PROVE <<x, y>> \in R \/ <<y, x>> \in R
      OBVIOUS
    <3>1. x < y \/ y < x
      BY <1>2
    <3> QED BY <3>1, <1>3
  <2>2. \A x \in S : <<x, x>> \notin R
    <3> SUFFICES ASSUME NEW x \in S PROVE <<x, x>> \notin R
      OBVIOUS
    <3>1. ~(x < x) /\ <<s[x], s[x]>> \notin first
      BY <1>1, <1>2 DEF IsKey
    <3> QED BY <3>1, <1>3
  <2>3. ASSUME NEW x \in S, NEW y \in S, NEW z \in S, <<x, y>> \in R, <<y, z>> \in R
        PROVE  <<x, z>> \in R
    <3>1. s[x] \in X /\ s[y] \in X /\ s[z] \in X
      BY <1>1
    <3>2. \/ <<s[x], s[y]>> \in first
          \/ <<s[y], s[x]>> \notin first /\ x < y
      BY <2>3, <1>3
    <3>3. \/ <<s[y], s[z]>> \in first
          \/ <<s[z], s[y]>> \notin first /\ y < z
      BY <2>3, <1>3
    <3>4. x < y /\ y < z => x < z
      BY <1>2
    <3>5. <<s[x], s[y]>> \in first /\ <<s[y], s[z]>> \in first => <<s[x], s[z]>> \in first
      BY <3>1 DEF IsKey
    <3>6. <<s[x], s[y]>> \in first => <<s[x], s[z]>> \in first \/ <<s[z], s[y]>> \in first
      BY <3>1 DEF IsKey
    <3>7. <<s[y], s[z]>> \in first => <<s[y], s[x]>> \in first \/ <<s[x], s[z]>> \in first
      BY <3>1 DEF IsKey
    <3>8. <<s[z], s[x]>> \in first => <<s[z], s[y]>> \in first \/ <<s[y], s[x]>> \in first
      BY <3>1 DEF IsKey
    <3>9. <<s[x], s[y]>> \in first => <<s[y], s[x]>> \notin first
      BY <3>1 DEF IsKey
    <3>10. <<s[y], s[z]>> \in first => <<s[z], s[y]>> \notin first
      BY <3>1 DEF IsKey
    <3>11. \/ <<s[x], s[z]>> \in first
           \/ <<s[z], s[x]>> \notin first /\ x < z
      BY <3>2, <3>3, <3>4, <3>5, <3>6, <3>7, <3>8, <3>9, <3>10
    <3> QED BY <3>11, <1>3
  <2> QED BY <2>1, <2>2, <2>3 DEF Orders
<1>7. /\ t \in Seq(X) /\ Len(t) = Len(s)
      /\ \A k \in 1..Len(t) : \E i \in S : t[k] = s[i]
      /\ \A i \in S : \E k \in 1..Len(t) : t[k] = s[i]
      /\ \A j, k \in 1..Len(t) : j < k =>
           \E a, b \in S : t[j] = s[a] /\ t[k] = s[b] /\ <<a, b>> \in R
  <2>1. S \subseteq DOMAIN s
    BY <1>1
  <2>2. t \in Seq(X) /\ Len(t) = Cardinality(S) /\ Arranges(t, s, S, R)
    BY <2>1, <1>4, <1>6, ArrangedIs
  <2> QED BY <2>2, <1>5 DEF Arranges
<1>8. Members(t) = Members(s)
  <2>1. Members(t) = {t[i] : i \in 1..Len(t)} /\ Members(s) = {s[i] : i \in S}
    BY DEF Members, S
  <2>2. ASSUME NEW k \in 1..Len(t) PROVE t[k] \in Members(s)
    BY <2>1, <1>7
  <2>3. ASSUME NEW i \in S PROVE s[i] \in Members(t)
    BY <2>1, <1>7
  <2> QED BY <2>1, <2>2, <2>3
<1>9. ASSUME NEW j \in 1..Len(t), NEW k \in 1..Len(t), j < k
      PROVE  \E a, b \in S : /\ a # b /\ t[j] = s[a] /\ t[k] = s[b]
                             /\ <<s[b], s[a]>> \notin first
  <2>1. PICK a \in S, b \in S : t[j] = s[a] /\ t[k] = s[b] /\ <<a, b>> \in R
    <3> HIDE DEF t, S, R
    <3>1. \A y \in 1..Len(t) : j < y =>
            \E a, b \in S : t[j] = s[a] /\ t[y] = s[b] /\ <<a, b>> \in R
      BY <1>7, <1>9
    <3>2. \E a, b \in S : t[j] = s[a] /\ t[k] = s[b] /\ <<a, b>> \in R
      BY <3>1, <1>9
    <3> QED BY <3>2
  <2>2. a # b
    BY <2>1, <1>6 DEF Orders
  <2>3. <<s[b], s[a]>> \notin first
    <3>1. s[a] \in X /\ s[b] \in X
      BY <1>1
    <3>2. \/ <<s[a], s[b]>> \in first
          \/ <<s[b], s[a]>> \notin first /\ a < b
      BY <2>1, <1>3
    <3>3. <<s[a], s[b]>> \in first /\ <<s[b], s[a]>> \in first => <<s[a], s[a]>> \in first
      BY <3>1 DEF IsKey
    <3>4. <<s[a], s[a]>> \notin first
      BY <3>1 DEF IsKey
    <3> QED BY <3>2, <3>3, <3>4
  <2> QED BY <2>1, <2>2, <2>3
<1> QED BY <1>7, <1>8, <1>9 DEF t, S

-----------------------------------------------------------------------------
(* The menu of a list. *)

Lowers(S) == {m.lower : m \in S}

(* No two are alike in their names, and the names go up. *)
Rises(s) == \A j, k \in 1..Len(s) : j < k => s[j].lower < s[k].lower

LEMMA KeysAreKeys == IsKey(ByName, ModelIds) /\ IsKey(ByRankAndName, ModelIds)
<1>1. \A m \in ModelIds : m.lower \in Nat /\ m.rank \in Nat
  BY MenuAssumption
<1>2. \A m, n \in ModelIds : <<m, n>> \in ByName <=> m.lower < n.lower
  BY DEF ByName
<1>3. \A m, n \in ModelIds : <<m, n>> \in ByRankAndName <=>
        (m.rank < n.rank \/ (m.rank = n.rank /\ m.lower < n.lower))
  BY DEF ByRankAndName
<1>4. IsKey(ByName, ModelIds)
  <2>1. \A x \in ModelIds : <<x, x>> \notin ByName
    BY <1>1, <1>2
  <2>2. \A x, y, z \in ModelIds : <<x, y>> \in ByName /\ <<y, z>> \in ByName => <<x, z>> \in ByName
    BY <1>1, <1>2
  <2>3. \A x, y, z \in ModelIds : <<x, z>> \in ByName => <<x, y>> \in ByName \/ <<y, z>> \in ByName
    BY <1>1, <1>2
  <2> QED BY <2>1, <2>2, <2>3 DEF IsKey
<1>5. IsKey(ByRankAndName, ModelIds)
  <2> DEFINE R == ByRankAndName
  <2>1. \A x \in ModelIds : <<x, x>> \notin R
    BY <1>1, <1>3
  <2>2. \A x, y, z \in ModelIds : <<x, y>> \in R /\ <<y, z>> \in R => <<x, z>> \in R
    BY <1>1, <1>3
  <2>3. \A x, y, z \in ModelIds : <<x, z>> \in R => <<x, y>> \in R \/ <<y, z>> \in R
    BY <1>1, <1>3
  <2> QED BY <2>1, <2>2, <2>3 DEF IsKey
<1> QED BY <1>4, <1>5

LEMMA NotBlankIs ==
  ASSUME NEW ids \in Seq(ModelIds)
  PROVE  /\ NotBlank(ids) \in Seq(ModelIds)
         /\ Members(NotBlank(ids)) = {m \in Members(ids) : m.lower # 0}
<1> DEFINE S == {i \in DOMAIN ids : ids[i].lower # 0}
           t == Retained(ids, S)
<1>1. DOMAIN ids = 1..Len(ids)
  BY LenProperties
<1>2. S \subseteq DOMAIN ids
  OBVIOUS
<1>3. {ids[i] : i \in S} = {m \in Members(ids) : m.lower # 0}
  BY <1>1 DEF Members
<1>4. t = NotBlank(ids)
  BY DEF NotBlank
<1> HIDE DEF S
<1>5. t \in Seq(ModelIds) /\ Members(t) = {ids[i] : i \in S}
  BY <1>2, RetainedIs
<1> QED BY <1>3, <1>4, <1>5

LEMMA SortedByName ==
  ASSUME NEW s \in Seq(ModelIds)
  PROVE  LET t == StableSort(s, ByName)
         IN  /\ t \in Seq(ModelIds) /\ Members(t) = Members(s)
             /\ \A j, k \in 1..Len(t) : j < k => t[j].lower <= t[k].lower
<1> DEFINE t == StableSort(s, ByName)
<1>1. /\ t \in Seq(ModelIds) /\ Members(t) = Members(s)
      /\ \A j, k \in 1..Len(t) : j < k =>
           \E a, b \in 1..Len(s) : /\ a # b /\ t[j] = s[a] /\ t[k] = s[b]
                                   /\ <<s[b], s[a]>> \notin ByName
  BY KeysAreKeys, StableSortIs
<1> HIDE DEF t
<1>2. ASSUME NEW j \in 1..Len(t), NEW k \in 1..Len(t), j < k PROVE t[j].lower <= t[k].lower
  <2>1. t[j] \in ModelIds /\ t[k] \in ModelIds
    BY <1>1, ElementOfSeq
  <2>2. <<t[k], t[j]>> \notin ByName
    BY <1>1, <1>2
  <2>3. ~(t[k].lower < t[j].lower)
    BY <2>1, <2>2 DEF ByName
  <2>4. t[j].lower \in Nat /\ t[k].lower \in Nat
    BY <2>1, MenuAssumption
  <2> QED BY <2>3, <2>4
<1> QED BY <1>1, <1>2 DEF t

LEMMA DedupIs ==
  ASSUME NEW s \in Seq(ModelIds),
         \A j, k \in 1..Len(s) : j < k => s[j].lower <= s[k].lower
  PROVE  LET t == Dedup(s)
         IN  /\ t \in Seq(ModelIds) /\ Rises(t)
             /\ Members(t) \subseteq Members(s) /\ Lowers(Members(t)) = Lowers(Members(s))
<1> DEFINE S == {i \in DOMAIN s : i = 1 \/ s[i].lower # s[i - 1].lower}
           t == Retained(s, S)
<1>1. Len(s) \in Nat /\ DOMAIN s = 1..Len(s) /\ \A i \in 1..Len(s) : s[i] \in ModelIds
  BY LenProperties, ElementOfSeq
<1>2. S \subseteq DOMAIN s /\ \A i \in S : i = 1 \/ s[i].lower # s[i - 1].lower
  OBVIOUS
<1>3. \A i \in 1..Len(s) : i = 1 \/ s[i].lower # s[i - 1].lower => i \in S
  BY <1>1
<1>4. t = Dedup(s)
  BY DEF Dedup
<1>5. \A i \in 1..Len(s) : s[i].lower \in Nat
  BY <1>1, MenuAssumption
<1> HIDE DEF S
<1>6. /\ t \in Seq(ModelIds) /\ Members(t) = {s[i] : i \in S}
      /\ \A j, k \in 1..Len(t) : j < k =>
           \E a, b \in S : t[j] = s[a] /\ t[k] = s[b] /\ a < b
  BY <1>2, RetainedIs
<1> HIDE DEF t
<1>7. ASSUME NEW a \in S, NEW b \in S, a < b PROVE s[a].lower < s[b].lower
  <2>1. a \in 1..Len(s) /\ b \in 1..Len(s)
    BY <1>1, <1>2
  <2>2. b - 1 \in 1..Len(s) /\ b - 1 < b /\ (a < b - 1 \/ a = b - 1) /\ b # 1
    BY <1>1, <1>7, <2>1
  <2>3. s[b - 1].lower <= s[b].lower /\ s[b - 1].lower # s[b].lower
    BY <1>2, <2>1, <2>2
  <2>4. s[a].lower <= s[b - 1].lower
    <3>1. CASE a < b - 1
      BY <2>1, <2>2, <3>1
    <3>2. CASE a = b - 1
      BY <2>1, <3>2, <1>5
    <3> QED BY <2>2, <3>1, <3>2
  <2> QED BY <2>1, <2>2, <2>3, <2>4, <1>5
<1>8. Rises(t)
  BY <1>6, <1>7 DEF Rises
<1>9. Members(t) \subseteq Members(s)
  <2>1. ASSUME NEW i \in S PROVE \E k \in 1..Len(s) : s[i] = s[k]
    BY <1>1, <1>2
  <2>2. Members(t) = {s[i] : i \in S} /\ Members(s) = {s[k] : k \in 1..Len(s)}
    BY <1>6 DEF Members
  <2>3. {s[i] : i \in S} \subseteq {s[k] : k \in 1..Len(s)}
    BY <2>1
  <2> QED BY <2>2, <2>3
<1>10. ASSUME NEW i \in 1..Len(s) PROVE \E m \in Members(t) : m.lower = s[i].lower
  <2> DEFINE alike == {k \in 1..Len(s) : s[k].lower = s[i].lower}
  <2>1. alike \in SUBSET Nat /\ alike # {}
    OBVIOUS
  <2>2. PICK k \in alike : \A l \in alike : k <= l
    <3> HIDE DEF alike
    <3> QED BY <2>1, FirstPlace
  <2>3. k = 1 \/ s[k].lower # s[k - 1].lower
    <3> SUFFICES ASSUME k # 1, s[k].lower = s[k - 1].lower PROVE FALSE
      OBVIOUS
    <3>1. k - 1 \in 1..Len(s) /\ ~(k <= k - 1)
      BY <1>1
    <3>2. k - 1 \in alike
      BY <3>1
    <3> QED BY <2>2, <3>1, <3>2
  <2>4. k \in S
    BY <2>3, <1>3
  <2>5. s[k] \in Members(t) /\ s[k].lower = s[i].lower
    BY <2>4, <1>6
  <2> QED BY <2>5
<1>11. Lowers(Members(t)) = Lowers(Members(s))
  <2>1. Lowers(Members(t)) \subseteq Lowers(Members(s))
    BY <1>9 DEF Lowers
  <2>2. ASSUME NEW i \in 1..Len(s) PROVE s[i].lower \in Lowers(Members(t))
    BY <1>10 DEF Lowers
  <2>3. Lowers(Members(s)) \subseteq Lowers(Members(t))
    BY <2>2 DEF Lowers, Members
  <2> QED BY <2>1, <2>3
<1> QED BY <1>4, <1>6, <1>8, <1>9, <1>11

(* What the menu is to offer of what is listed. *)
Offered(S) == IF \E m \in S : m.chat THEN {m \in S : m.chat} ELSE S

LEMMA ChattingIs ==
  ASSUME NEW s \in Seq(ModelIds), Rises(s)
  PROVE  LET t == Chatting(s)
         IN  /\ t \in Seq(ModelIds) /\ Rises(t)
             /\ Members(t) = Offered(Members(s))
<1> DEFINE S == {i \in DOMAIN s : ~IsNonChat(s[i])}
           t == Retained(s, S)
<1>1. DOMAIN s = 1..Len(s) /\ Len(s) \in Nat
  BY LenProperties
<1>2. S = {i \in 1..Len(s) : s[i].chat}
  BY <1>1 DEF IsNonChat
<1>3. S \subseteq DOMAIN s
  OBVIOUS
<1>4. Chatting(s) = IF S # {} THEN t ELSE s
  BY DEF Chatting
<1> HIDE DEF S
<1>5. S # {} <=> \E m \in Members(s) : m.chat
  BY <1>2 DEF Members
<1>6. CASE S = {}
  <2>1. Chatting(s) = s
    BY <1>4, <1>6
  <2>2. Offered(Members(s)) = Members(s)
    BY <1>5, <1>6 DEF Offered
  <2> QED BY <2>1, <2>2
<1>7. CASE S # {}
  <2>1. /\ t \in Seq(ModelIds) /\ Members(t) = {s[i] : i \in S}
        /\ \A j, k \in 1..Len(t) : j < k =>
             \E a, b \in S : t[j] = s[a] /\ t[k] = s[b] /\ a < b
    BY <1>3, RetainedIs
  <2> HIDE DEF t
  <2>2. \A a, b \in S : a < b => s[a].lower < s[b].lower
    BY <1>2 DEF Rises
  <2>3. Rises(t)
    BY <2>1, <2>2 DEF Rises
  <2>4. {s[i] : i \in S} = {m \in Members(s) : m.chat}
    BY <1>2 DEF Members
  <2>5. Offered(Members(s)) = {m \in Members(s) : m.chat}
    BY <1>5, <1>7 DEF Offered
  <2>6. Chatting(s) = t
    BY <1>4, <1>7
  <2> QED BY <2>1, <2>3, <2>4, <2>5, <2>6
<1> QED BY <1>6, <1>7

(* The menu offers each name once, by rank and then by name. *)
LEMMA MenuIs ==
  ASSUME NEW ids \in Seq(ModelIds)
  PROVE  LET entries == Menu(ids)
             offered == Offered({m \in Members(ids) : m.lower # 0})
         IN  /\ entries \in Seq(ModelIds)
             /\ Members(entries) \subseteq offered
             /\ Lowers(Members(entries)) = Lowers(offered)
             /\ \A j, k \in 1..Len(entries) : j < k =>
                  \/ entries[j].rank < entries[k].rank
                  \/ entries[j].rank = entries[k].rank /\ entries[j].lower < entries[k].lower
<1> DEFINE all == NotBlank(ids)
           sorted == StableSort(all, ByName)
           named == Dedup(sorted)
           chat == Chatting(named)
           entries == StableSort(chat, ByRankAndName)
           Named0 == {m \in Members(ids) : m.lower # 0}
           offered == Offered(Named0)
<1>1. all \in Seq(ModelIds) /\ Members(all) = Named0
  BY NotBlankIs
<1> HIDE DEF all
<1>2. /\ sorted \in Seq(ModelIds) /\ Members(sorted) = Named0
      /\ \A j, k \in 1..Len(sorted) : j < k => sorted[j].lower <= sorted[k].lower
  BY <1>1, SortedByName
<1> HIDE DEF sorted
<1>3. /\ named \in Seq(ModelIds) /\ Rises(named)
      /\ Members(named) \subseteq Named0 /\ Lowers(Members(named)) = Lowers(Named0)
  <2> HIDE DEF Named0
  <2>1. LET t == Dedup(sorted)
        IN  /\ t \in Seq(ModelIds) /\ Rises(t)
            /\ Members(t) \subseteq Members(sorted) /\ Lowers(Members(t)) = Lowers(Members(sorted))
    BY <1>2, DedupIs
  <2> QED BY <2>1, <1>2
<1> HIDE DEF named
<1>4. chat \in Seq(ModelIds) /\ Rises(chat) /\ Members(chat) = Offered(Members(named))
  BY <1>3, ChattingIs
<1> HIDE DEF chat
<1>5. /\ entries \in Seq(ModelIds) /\ Members(entries) = Members(chat)
      /\ \A j, k \in 1..Len(entries) : j < k =>
           \E a, b \in 1..Len(chat) : /\ a # b /\ entries[j] = chat[a] /\ entries[k] = chat[b]
                                      /\ <<chat[b], chat[a]>> \notin ByRankAndName
  BY <1>4, KeysAreKeys, StableSortIs
<1>6. entries = Menu(ids)
  BY DEF Menu, all, sorted, named, chat
<1> HIDE DEF entries
<1>7. \A m \in Named0 : m \in ModelIds
  <2>1. \A i \in 1..Len(ids) : ids[i] \in ModelIds
    BY ElementOfSeq
  <2> QED BY <2>1 DEF Members
<1> HIDE DEF Named0
<1>8. \A m \in Named0 : \E n \in Members(named) : n.lower = m.lower /\ n.chat = m.chat
  <2> SUFFICES ASSUME NEW m \in Named0
               PROVE  \E n \in Members(named) : n.lower = m.lower /\ n.chat = m.chat
    OBVIOUS
  <2>1. m.lower \in Lowers(Members(named))
    BY <1>3 DEF Lowers
  <2>2. PICK n \in Members(named) : n.lower = m.lower
    BY <2>1 DEF Lowers
  <2>3. n \in ModelIds /\ m \in ModelIds
    BY <1>3, <1>7
  <2> QED BY <2>2, <2>3, MenuAssumption
<1>9. (\E m \in Named0 : m.chat) <=> (\E m \in Members(named) : m.chat)
  <2>1. ASSUME NEW m \in Named0, m.chat PROVE \E n \in Members(named) : n.chat
    <3>1. PICK n \in Members(named) : n.lower = m.lower /\ n.chat = m.chat
      BY <1>8
    <3> QED BY <2>1, <3>1
  <2> QED BY <2>1, <1>3
<1>10. Members(entries) \subseteq offered
  BY <1>3, <1>4, <1>5, <1>9 DEF Offered
<1>11. ASSUME NEW m \in offered PROVE m.lower \in Lowers(Members(entries))
  <2>1. m \in Named0 /\ ((\E n \in Named0 : n.chat) => m.chat)
    BY DEF Offered
  <2>2. PICK n \in Members(named) : n.lower = m.lower /\ n.chat = m.chat
    BY <1>8, <2>1
  <2>3. n \in Offered(Members(named))
    BY <1>9, <2>1, <2>2 DEF Offered
  <2>4. n \in Members(entries)
    BY <1>4, <1>5, <2>3
  <2> QED BY <2>2, <2>4 DEF Lowers
<1>12. Lowers(Members(entries)) = Lowers(offered)
  <2>1. Lowers(Members(entries)) \subseteq Lowers(offered)
    BY <1>10 DEF Lowers
  <2>2. Lowers(offered) \subseteq Lowers(Members(entries))
    BY <1>11 DEF Lowers
  <2> QED BY <2>1, <2>2
<1>13. ASSUME NEW j \in 1..Len(entries), NEW k \in 1..Len(entries), j < k
       PROVE  \/ entries[j].rank < entries[k].rank
              \/ entries[j].rank = entries[k].rank /\ entries[j].lower < entries[k].lower
  <2>1. PICK a \in 1..Len(chat), b \in 1..Len(chat) :
          /\ a # b /\ entries[j] = chat[a] /\ entries[k] = chat[b]
          /\ <<chat[b], chat[a]>> \notin ByRankAndName
    BY <1>5, <1>13
  <2>2. chat[a] \in ModelIds /\ chat[b] \in ModelIds
    BY <1>4, ElementOfSeq
  <2>3. /\ chat[a].lower \in Nat /\ chat[b].lower \in Nat
        /\ chat[a].rank \in Nat /\ chat[b].rank \in Nat
    BY <2>2, MenuAssumption
  <2>4. chat[a].lower # chat[b].lower
    <3>1. Len(chat) \in Nat
      BY <1>4, LenProperties
    <3>2. a < b \/ b < a
      BY <2>1, <3>1
    <3>3. chat[a].lower < chat[b].lower \/ chat[b].lower < chat[a].lower
      BY <3>2, <1>4 DEF Rises
    <3> QED BY <3>3, <2>3
  <2>5. ~(chat[b].rank < chat[a].rank \/ (chat[b].rank = chat[a].rank /\ chat[b].lower < chat[a].lower))
    BY <2>1, <2>2 DEF ByRankAndName
  <2>6. \/ chat[a].rank < chat[b].rank
        \/ chat[a].rank = chat[b].rank /\ chat[a].lower < chat[b].lower
    <3> DEFINE p == chat[a]
               q == chat[b]
    <3>1. p.rank \in Nat /\ q.rank \in Nat /\ p.lower \in Nat /\ q.lower \in Nat
      BY <2>3
    <3>2. p.lower # q.lower
      BY <2>4
    <3>3. ~(q.rank < p.rank) /\ ~(q.rank = p.rank /\ q.lower < p.lower)
      BY <2>5
    <3> HIDE DEF p, q
    <3>4. p.rank < q.rank \/ (p.rank = q.rank /\ p.lower < q.lower)
      BY <3>1, <3>2, <3>3
    <3> QED BY <3>4 DEF p, q
  <2> HIDE DEF entries
  <2> QED BY <2>1, <2>6
<1> HIDE DEF offered
<1> QED BY <1>5, <1>6, <1>10, <1>12, <1>13 DEF offered, Named0

(* Enter takes the recommended model if the menu has it, else the first. *)
LEMMA DefaultIs ==
  ASSUME NEW entries \in Seq(ModelIds), entries # <<>>
  PROVE  /\ entries[DefaultIndex(entries)] \in Members(entries)
         /\ Recommended \in Members(entries) => entries[DefaultIndex(entries)] = Recommended
<1> DEFINE places == {i \in DOMAIN entries : entries[i] = Recommended}
<1>1. DOMAIN entries = 1..Len(entries) /\ Len(entries) \in Nat /\ Len(entries) # 0
  BY LenProperties, EmptySeq
<1>2. Recommended \in Members(entries) => places # {}
  BY <1>1 DEF Members
<1>3. CASE places = {}
  <2>1. DefaultIndex(entries) = 1
    BY <1>3 DEF DefaultIndex
  <2>2. 1 \in 1..Len(entries)
    BY <1>1
  <2> QED BY <1>2, <1>3, <2>1, <2>2 DEF Members
<1>4. CASE places # {}
  <2>1. places \in SUBSET Nat
    BY <1>1
  <2>2. \E i \in places : \A j \in places : i <= j
    <3> HIDE DEF places
    <3> QED BY <1>4, <2>1, FirstPlace
  <2>3. DefaultIndex(entries) = CHOOSE i \in places : \A j \in places : i <= j
    BY <1>4 DEF DefaultIndex
  <2>4. DefaultIndex(entries) \in places
    <3> HIDE DEF places
    <3> QED BY <2>2, <2>3
  <2>5. entries[DefaultIndex(entries)] = Recommended /\ DefaultIndex(entries) \in 1..Len(entries)
    BY <2>4, <1>1
  <2> QED BY <2>5 DEF Members
<1> QED BY <1>3, <1>4

-----------------------------------------------------------------------------
(* The inductive invariant. *)

Listings == [failed : BOOLEAN, ids : Seq(ModelIds)]

MenuTyped == menuAt \in {"ask", "listed", "offered", "answered"} /\ listed \in Listings

MenuIsOfTheList ==
  menuAt \in {"offered", "answered"} => menu = IF listed.failed THEN <<>> ELSE Menu(listed.ids)

AnswerIsTheDefault ==
  menuAt = "answered" =>
    answered = {IF menu = <<>> THEN Recommended ELSE menu[DefaultIndex(menu)]}

MenuIInv == MenuTyped /\ MenuIsOfTheList /\ AnswerIsTheDefault

MenuSpec == MenuInit /\ [][MenuNext]_menuVars

LEMMA NothingListed == <<>> \in Seq(ModelIds)
  BY EmptySeq

LEMMA MenuInitIsInv == MenuInit => MenuIInv
<1> SUFFICES ASSUME MenuInit PROVE MenuIInv
  OBVIOUS
<1>1. listed \in Listings
  BY NothingListed DEF MenuInit, Listings
<1> QED BY <1>1 DEF MenuInit, MenuIInv, MenuTyped, MenuIsOfTheList, AnswerIsTheDefault

(* Whatever the API answers with, what is listed is a list of models. *)
LEMMA ListsAreLists ==
  ASSUME NEW list \in ModelLists, NEW static \in {<<>>, <<Recommended>>}
  PROVE  CopilotModels(list) \in Listings /\ OpenAiModels(list, static) \in Listings
<1>1. list.ids \in Seq(ModelIds)
  <2>1. CASE list \in {[status |-> "no_answer", ids |-> <<>>], [status |-> "refused", ids |-> <<>>]}
    <3>1. list.ids = <<>>
      BY <2>1
    <3> QED BY <3>1, NothingListed
  <2>2. CASE list \in {[status |-> "ok", ids |-> ids] : ids \in SeqOf(ModelIds, MaxListed)}
    <3>1. list.ids \in SeqOf(ModelIds, MaxListed)
      BY <2>2
    <3>2. PICK n \in 0..MaxListed : list.ids \in [1..n -> ModelIds]
      BY <3>1 DEF SeqOf
    <3>3. n \in Nat
      BY MenuAssumption
    <3> QED BY <3>2, <3>3, IsASeq
  <2> QED BY <2>1, <2>2 DEF ModelLists
<1>2. KnownModels \in Seq(ModelIds) /\ static \in Seq(ModelIds)
  <2>1. Recommended \in ModelIds
    BY MenuAssumption
  <2>2. <<Recommended>> \in Seq(ModelIds)
    BY <2>1
  <2> QED BY <2>2, NothingListed, MenuAssumption
<1>3. CopilotModels(list) \in Listings
  BY <1>1, <1>2, NothingListed DEF CopilotModels, Listings
<1>4. OpenAiModels(list, static) \in Listings
  BY <1>1, <1>2, NothingListed DEF OpenAiModels, Listings
<1> QED BY <1>3, <1>4

LEMMA MenuStepKeeps == MenuIInv /\ [MenuNext]_menuVars => MenuIInv'
<1> SUFFICES ASSUME MenuIInv, [MenuNext]_menuVars PROVE MenuIInv'
  OBVIOUS
<1>1. CASE UNCHANGED menuVars
  BY <1>1 DEF menuVars, MenuIInv, MenuTyped, MenuIsOfTheList, AnswerIsTheDefault
<1>2. CASE ListModels
  <2>1. PICK list \in ModelLists :
          \/ listed' = CopilotModels(list)
          \/ \E static \in {<<>>, <<Recommended>>} : listed' = OpenAiModels(list, static)
    BY <1>2 DEF ListModels
  <2>2. listed' \in Listings
    BY <2>1, ListsAreLists
  <2> QED BY <1>2, <2>2 DEF ListModels, MenuIInv, MenuTyped, MenuIsOfTheList, AnswerIsTheDefault
<1>3. CASE OfferMenu
  BY <1>3 DEF OfferMenu, MenuIInv, MenuTyped, MenuIsOfTheList, AnswerIsTheDefault
<1>4. CASE AcceptDefault
  BY <1>4 DEF AcceptDefault, MenuIInv, MenuTyped, MenuIsOfTheList, AnswerIsTheDefault
<1> QED BY <1>1, <1>2, <1>3, <1>4 DEF MenuNext

LEMMA MenuIInvImplies == MenuIInv => MenuInv
<1> SUFFICES ASSUME MenuIInv PROVE MenuInv
  OBVIOUS
<1> DEFINE ids == listed.ids
           offered == Offered(Named)
<1>1. ids \in Seq(ModelIds) /\ listed.failed \in BOOLEAN
  BY DEF MenuIInv, MenuTyped, Listings
<1>2. Named = {m \in Members(ids) : m.lower # 0}
  <2>1. DOMAIN ids = 1..Len(ids)
    BY <1>1, LenProperties
  <2> QED BY <2>1 DEF Named, Range, Members
<1>3. ASSUME menuAt \in {"offered", "answered"}, ~listed.failed
      PROVE  /\ menu \in Seq(ModelIds)
             /\ Members(menu) \subseteq offered /\ Lowers(Members(menu)) = Lowers(offered)
             /\ \A j, k \in 1..Len(menu) : j < k =>
                  \/ menu[j].rank < menu[k].rank
                  \/ menu[j].rank = menu[k].rank /\ menu[j].lower < menu[k].lower
  <2>1. menu = Menu(ids)
    BY <1>3 DEF MenuIInv, MenuIsOfTheList
  <2> HIDE DEF ids
  <2> QED BY <1>1, <1>2, <2>1, MenuIs
<1>4. offered = LET chatting == {m \in Named : m.chat} IN IF chatting # {} THEN chatting ELSE Named
  BY DEF Offered
<1>5. MenuIsTheChatModels
  <2> SUFFICES ASSUME menuAt \in {"offered", "answered"}, ~listed.failed
               PROVE  LET chatting == {m \in Named : m.chat}
                          of == IF chatting # {} THEN chatting ELSE Named
                      IN  /\ {m.lower : m \in Range(menu)} = {m.lower : m \in of}
                          /\ Range(menu) \subseteq of
                          /\ \A i, j \in DOMAIN menu : i < j =>
                               \/ menu[i].rank < menu[j].rank
                               \/ menu[i].rank = menu[j].rank /\ menu[i].lower < menu[j].lower
    BY DEF MenuIsTheChatModels
  <2>1. DOMAIN menu = 1..Len(menu)
    BY <1>3, LenProperties
  <2>2. Range(menu) = Members(menu)
    BY <2>1 DEF Range, Members
  <2> HIDE DEF offered
  <2>3. /\ {m.lower : m \in Range(menu)} = {m.lower : m \in offered}
        /\ Range(menu) \subseteq offered
        /\ \A i, j \in DOMAIN menu : i < j =>
             \/ menu[i].rank < menu[j].rank
             \/ menu[i].rank = menu[j].rank /\ menu[i].lower < menu[j].lower
    BY <1>3, <2>1, <2>2 DEF Lowers
  <2> QED BY <2>3, <1>4
<1>6. DefaultIsRecommended
  <2> SUFFICES ASSUME menuAt = "answered", answered # {Recommended}
               PROVE  /\ answered \subseteq Named
                      /\ \/ Recommended \notin Named
                         \/ \E m \in Named : m # Recommended /\ m.lower = Recommended.lower
                      /\ (\E m \in Named : m.chat) => \A m \in answered : m.chat
    BY DEF DefaultIsRecommended
  <2> DEFINE chosen == menu[DefaultIndex(menu)]
  <2>1. menu # <<>> /\ answered = {chosen}
    BY DEF MenuIInv, AnswerIsTheDefault
  <2>2. ~listed.failed
    BY <2>1 DEF MenuIInv, MenuIsOfTheList
  <2>3. /\ menu \in Seq(ModelIds)
        /\ Members(menu) \subseteq offered /\ Lowers(Members(menu)) = Lowers(offered)
    BY <1>3, <2>2
  <2>4. chosen \in Members(menu) /\ (Recommended \in Members(menu) => chosen = Recommended)
    BY <2>1, <2>3, DefaultIs
  <2>5. Recommended \notin Members(menu)
    BY <2>1, <2>4
  <2> HIDE DEF chosen
  <2>6. chosen \in offered
    BY <2>3, <2>4
  <2>7. answered \subseteq Named /\ ((\E m \in Named : m.chat) => \A m \in answered : m.chat)
    BY <2>1, <2>6 DEF Offered
  <2>8. ASSUME Recommended \in Named
        PROVE  \E m \in Named : m # Recommended /\ m.lower = Recommended.lower
    <3>1. Recommended \in offered
      BY <2>8, MenuAssumption DEF Offered
    <3>2. Recommended.lower \in Lowers(Members(menu))
      BY <2>3, <3>1 DEF Lowers
    <3>3. PICK m \in Members(menu) : m.lower = Recommended.lower
      BY <3>2 DEF Lowers
    <3>4. m \in Named
      BY <2>3, <3>3 DEF Offered
    <3> QED BY <2>5, <3>3, <3>4
  <2> QED BY <2>7, <2>8
<1> QED BY <1>5, <1>6 DEF MenuInv

(* For every list that a provider may answer with: the menu has each model that
   can chat once, best first, and Enter takes the recommended one whenever it is
   there (commands.rs:966-1032). *)
THEOREM MenuInvHolds == MenuSpec => []MenuInv
BY MenuInitIsInv, MenuStepKeeps, MenuIInvImplies, PTL DEF MenuSpec

-----------------------------------------------------------------------------
(* The memory. *)

Results == [text : Memos, chat : MemoryChats, user : MemoryUsers \union {"none"}, score : Nat]

LEMMA CutOfNat ==
  ASSUME NEW length \in Nat, NEW cap \in Nat
  PROVE  Cut(length, cap) \in Nat /\ Cut(length, cap) <= cap + 1
  BY DEF Cut

(* What was said earlier, and what may be said, is a number. *)
LEMMA MemosArePairs ==
  ASSUME NEW memo \in Memos
  PROVE  memo = <<memo[1], memo[2]>> /\ memo[1] \in Nat /\ memo[2] \in Nat
<1> DEFINE earlier == UNION {UNION {{turns[i].said, turns[i].reply} : i \in DOMAIN turns} : turns \in Earlier}
           parts == Words \union {Redacted} \union earlier
<1>1. earlier \subseteq Nat
  <2> SUFFICES ASSUME NEW turns \in Earlier, NEW i \in DOMAIN turns
               PROVE  turns[i].said \in Nat /\ turns[i].reply \in Nat
    OBVIOUS
  <2>1. turns \in Seq([chat : MemoryChats, user : MemoryUsers, said : Nat, reply : Nat])
    BY MemoryAssumption
  <2>2. turns[i] \in [chat : MemoryChats, user : MemoryUsers, said : Nat, reply : Nat]
    BY <2>1, ElementOfSeq, LenProperties
  <2> QED BY <2>2
<1>2. parts \subseteq Nat
  <2>1. Words \subseteq Nat /\ {Redacted} \subseteq Nat
    BY MemoryAssumption DEF Redacted
  <2> HIDE DEF earlier
  <2> QED BY <1>1, <2>1
<1>3. memo \in parts \X parts
  BY DEF Memos
<1>4. memo[1] \in parts /\ memo[2] \in parts /\ memo = <<memo[1], memo[2]>>
  <2> HIDE DEF parts
  <2> QED BY <1>3
<1> HIDE DEF parts
<1> QED BY <1>2, <1>4

LEMMA LengthIsNat ==
  ASSUME NEW memo \in Memos
  PROVE  Length(memo) \in Nat
<1>1. memo[1] + memo[2] \in Nat
  BY MemosArePairs
<1> QED BY <1>1, MemoryAssumption, CutOfNat DEF Length

LEMMA LineLengthIsNat ==
  ASSUME NEW r \in Results
  PROVE  LineLength(r) \in Nat
<1>1. Length(r.text) \in Nat
  BY LengthIsNat DEF Results
<1> QED BY <1>1, MemoryAssumption, CutOfNat DEF LineLength

-----------------------------------------------------------------------------
(* The lines of the database's part. *)

LineStates == [lines : Seq(Results), total : Nat, full : BOOLEAN]

TextsOf(lines) == {lines[i].text : i \in 1..Len(lines)}
LengthsOf(lines) == [i \in DOMAIN lines |-> LineLength(lines[i])]

LEMMA LengthsOfAppend ==
  ASSUME NEW lines \in Seq(Results), NEW r \in Results
  PROVE  /\ LengthsOf(lines) \in Seq(Nat)
         /\ LengthsOf(Append(lines, r)) = Append(LengthsOf(lines), LineLength(r))
<1> DEFINE more == Append(lines, r)
           n == Len(lines)
           s == LengthsOf(lines)
           t == LengthsOf(more)
<1>1. /\ n \in Nat /\ DOMAIN lines = 1..n /\ \A i \in 1..n : lines[i] \in Results
      /\ DOMAIN more = 1..(n + 1) /\ more[n + 1] = r /\ \A i \in 1..n : more[i] = lines[i]
  <2>1. /\ more \in Seq(Results) /\ Len(more) = n + 1 /\ more[n + 1] = r
        /\ \A i \in 1..n : more[i] = lines[i]
    BY AppendProperties
  <2>2. n \in Nat /\ DOMAIN lines = 1..n /\ DOMAIN more = 1..Len(more)
    BY <2>1, LenProperties
  <2>3. \A i \in 1..n : lines[i] \in Results
    BY ElementOfSeq
  <2> HIDE DEF more, n
  <2> QED BY <2>1, <2>2, <2>3
<1> HIDE DEF more, n
<1>2. s = [i \in 1..n |-> LineLength(lines[i])] /\ t = [i \in 1..(n + 1) |-> LineLength(more[i])]
  BY <1>1 DEF LengthsOf
<1>3. \A i \in 1..n : LineLength(lines[i]) \in Nat
  BY <1>1, LineLengthIsNat
<1>4. s \in [1..n -> Nat] /\ s \in Seq(Nat) /\ Len(s) = n
  <2>1. s \in [1..n -> Nat]
    BY <1>2, <1>3
  <2> HIDE DEF s
  <2> QED BY <2>1, <1>1, IsASeq
<1>5. LineLength(r) \in Nat
  BY LineLengthIsNat
<1> DEFINE u == Append(s, LineLength(r))
<1>6. /\ u \in Seq(Nat) /\ Len(u) = n + 1 /\ u[n + 1] = LineLength(r)
      /\ \A i \in 1..n : u[i] = s[i]
  <2> HIDE DEF s
  <2> QED BY <1>4, <1>5, AppendProperties
<1>7. /\ t \in Seq(Nat) /\ Len(t) = n + 1 /\ t[n + 1] = LineLength(r)
      /\ \A i \in 1..n : t[i] = s[i]
  <2>1. \A i \in 1..(n + 1) : LineLength(more[i]) \in Nat
    BY <1>1, <1>3, <1>5
  <2>2. t \in [1..(n + 1) -> Nat]
    BY <1>2, <2>1
  <2>3. n + 1 \in Nat
    BY <1>1
  <2>4. t \in Seq(Nat) /\ Len(t) = n + 1
    <3> HIDE DEF t
    <3> QED BY <2>2, <2>3, IsASeq
  <2>5. t[n + 1] = LineLength(r) /\ \A i \in 1..n : t[i] = s[i]
    BY <1>1, <1>2
  <2> QED BY <2>4, <2>5
<1>8. t = u
  <2>1. \A i \in 1..(n + 1) : i = n + 1 \/ i \in 1..n
    BY <1>1
  <2>2. \A i \in 1..Len(t) : t[i] = u[i]
    <3> HIDE DEF t, u, s
    <3> QED BY <1>6, <1>7, <2>1
  <2> HIDE DEF t, u, s
  <2> QED BY <1>6, <1>7, <2>2, SeqEqual
<1> QED BY <1>4, <1>8 DEF more

(* The best comes first. *)
RankOrder(found) ==
  {p \in (DOMAIN found) \X (DOMAIN found) :
     \/ found[p[1]].score > found[p[2]].score
     \/ found[p[1]].score = found[p[2]].score /\ p[1] < p[2]}

LEMMA RankedSorts ==
  ASSUME NEW found \in Seq(Results)
  PROVE  /\ Ranked(found) \in [1..Len(found) -> 1..Len(found)]
         /\ \A i \in 1..Len(found) : \E k \in 1..Len(found) : Ranked(found)[k] = i
         /\ \A j, k \in 1..Len(found) :
              j < k => found[Ranked(found)[j]].score >= found[Ranked(found)[k]].score
<1> DEFINE n == Len(found)
           S == 1..n
           R == RankOrder(found)
           o == Ranked(found)
<1>1. n \in Nat /\ DOMAIN found = S /\ \A i \in S : found[i].score \in Nat
  <2>1. n \in Nat /\ DOMAIN found = S
    BY LenProperties
  <2>2. \A i \in S : found[i] \in Results
    BY ElementOfSeq
  <2> QED BY <2>1, <2>2 DEF Results
<1>2. \A i, j \in S : <<i, j>> \in R <=> \/ found[i].score > found[j].score
                                         \/ found[i].score = found[j].score /\ i < j
  <2> HIDE DEF S
  <2> QED BY <1>1 DEF RankOrder
<1>3. Orders(R, S)
  <2> DEFINE score == [i \in S |-> found[i].score]
  <2>1. \A i \in S : score[i] \in Nat /\ i \in Nat
    BY <1>1
  <2>2. \A i, j \in S : <<i, j>> \in R <=> score[i] > score[j] \/ (score[i] = score[j] /\ i < j)
    BY <1>2
  <2> HIDE DEF S, R, score
  <2>3. \A x, y \in S : x # y => <<x, y>> \in R \/ <<y, x>> \in R
    BY <2>1, <2>2
  <2>4. \A x \in S : <<x, x>> \notin R
    BY <2>1, <2>2
  <2>5. \A x, y, z \in S : <<x, y>> \in R /\ <<y, z>> \in R => <<x, z>> \in R
    BY <2>1, <2>2
  <2> QED BY <2>3, <2>4, <2>5 DEF Orders
<1>4. IsFiniteSet(S) /\ Cardinality(S) = n
  <2>1. 1 \in Int /\ n \in Int
    BY <1>1
  <2>2. IsFiniteSet(S) /\ Cardinality(S) = IF 1 > n THEN 0 ELSE n - 1 + 1
    BY <2>1, FS_Interval
  <2> HIDE DEF n
  <2> QED BY <2>2, <1>1
<1>5. o = InOrder(S, R)
  BY <1>1 DEF Ranked, RankOrder
<1>6. /\ o \in [S -> S] /\ \A x \in S : \E i \in S : o[i] = x
      /\ \A i, j \in S : i < j => <<o[i], o[j]>> \in R
  <2> HIDE DEF R, o
  <2>1. /\ o \in [1..Cardinality(S) -> S]
        /\ \A x \in S : \E i \in 1..Cardinality(S) : o[i] = x
        /\ \A i, j \in 1..Cardinality(S) : i < j => <<o[i], o[j]>> \in R
    <3> HIDE DEF S
    <3> QED BY <1>3, <1>4, <1>5, InOrderSorts
  <2>2. 1..Cardinality(S) = S
    BY <1>4
  <2> HIDE DEF S
  <2> QED BY <2>1, <2>2
<1>7. ASSUME NEW j \in S, NEW k \in S, j < k PROVE found[o[j]].score >= found[o[k]].score
  <2>1. <<o[j], o[k]>> \in R /\ o[j] \in S /\ o[k] \in S
    BY <1>6, <1>7
  <2>2. found[o[j]].score \in Nat /\ found[o[k]].score \in Nat
    BY <2>1, <1>1
  <2> HIDE DEF S, R, o
  <2>3. found[o[j]].score > found[o[k]].score \/ found[o[j]].score = found[o[k]].score
    BY <2>1, <1>2
  <2> QED BY <2>2, <2>3
<1> HIDE DEF o
<1> QED BY <1>6, <1>7 DEF o

LEMMA AddLineType ==
  ASSUME NEW st \in LineStates, NEW r \in Results
  PROVE  AddLine(st, r) \in LineStates
<1>1. /\ st = [lines |-> st.lines, total |-> st.total, full |-> st.full]
      /\ st.lines \in Seq(Results) /\ st.total \in Nat /\ st.full \in BOOLEAN
  BY DEF LineStates
<1>2. Append(st.lines, r) \in Seq(Results)
  BY <1>1, AppendProperties
<1>3. st.total + LineLength(r) \in Nat
  BY <1>1, LineLengthIsNat
<1>4. [st EXCEPT !.full = TRUE] \in LineStates
  BY DEF LineStates
<1>5. [lines |-> Append(st.lines, r), total |-> st.total + LineLength(r), full |-> FALSE] \in LineStates
  BY <1>2, <1>3 DEF LineStates
<1> QED BY <1>4, <1>5 DEF AddLine

LinesUpTo(found) ==
  CHOOSE shown : shown =
    [n \in 0..Least(TopK, Len(found)) |->
       IF n = 0 THEN [lines |-> <<>>, total |-> 0, full |-> FALSE]
       ELSE AddLine(shown[n - 1], found[Ranked(found)[n]])]

NoLines == [lines |-> <<>>, total |-> 0, full |-> FALSE]

LEMMA LinesAre ==
  ASSUME NEW found \in Seq(Results)
  PROVE  LET most == Least(TopK, Len(found))
             shown == LinesUpTo(found)
         IN  /\ most \in Nat /\ most <= TopK /\ most <= Len(found)
             /\ \A n \in 0..most : shown[n] \in LineStates
             /\ shown[0] = NoLines
             /\ \A n \in 1..most : shown[n] = AddLine(shown[n - 1], found[Ranked(found)[n]])
             /\ Lines(found) = shown[most].lines
<1> DEFINE most == Least(TopK, Len(found))
           best == [n \in 1..most |-> found[Ranked(found)[n]]]
           step == [p \in LineStates \X Nat |-> IF p[2] \in 1..most THEN AddLine(p[1], best[p[2]]) ELSE p[1]]
<1>0. most \in Nat /\ most <= TopK /\ most <= Len(found)
  <2>1. TopK \in Nat /\ Len(found) \in Nat
    BY LenProperties, MemoryAssumption
  <2> QED BY <2>1 DEF Least
<1>1. \A n \in 1..most : best[n] \in Results
  <2> SUFFICES ASSUME NEW n \in 1..most PROVE found[Ranked(found)[n]] \in Results
    OBVIOUS
  <2>1. Len(found) \in Nat
    BY LenProperties
  <2>2. n \in 1..Len(found)
    <3> HIDE DEF most
    <3> QED BY <1>0, <2>1
  <2>3. Ranked(found)[n] \in 1..Len(found)
    BY <2>2, RankedSorts
  <2> QED BY <2>3, ElementOfSeq
<1>2. step \in Rounds(LineStates)
  <2> HIDE DEF best, most
  <2>1. \A p \in LineStates \X Nat : p[1] \in LineStates
    OBVIOUS
  <2>2. \A p \in LineStates \X Nat : p[2] \in 1..most => AddLine(p[1], best[p[2]]) \in LineStates
    BY <1>1, <2>1, AddLineType
  <2> QED BY <2>1, <2>2 DEF Rounds
<1>3. NoLines \in LineStates
  BY EmptySeq DEF LineStates, NoLines
<1>4. PICK f : IsLoop(f, most, LineStates, NoLines, step)
  <2> HIDE DEF step, most
  <2> QED BY <1>0, <1>2, <1>3, Recursion
<1>5. f = [n \in 0..most |-> IF n = 0 THEN NoLines ELSE AddLine(f[n - 1], best[n])]
  <2>1. f \in [0..most -> LineStates] /\ f[0] = NoLines /\ \A n \in 1..most : f[n] = step[<<f[n - 1], n>>]
    BY <1>4 DEF IsLoop
  <2>2. ASSUME NEW n \in 0..most PROVE f[n] = IF n = 0 THEN NoLines ELSE AddLine(f[n - 1], best[n])
    <3>1. CASE n = 0
      BY <3>1, <2>1
    <3>2. CASE n # 0
      <4>1. n \in 1..most /\ n \in Nat /\ n - 1 \in 0..most
        <5> HIDE DEF most
        <5> QED BY <3>2, <1>0
      <4>2. f[n - 1] \in LineStates
        BY <2>1, <4>1
      <4>3. <<f[n - 1], n>> \in LineStates \X Nat
        BY <4>1, <4>2
      <4>4. step[<<f[n - 1], n>>] = AddLine(f[n - 1], best[n])
        <5> HIDE DEF best, most
        <5> QED BY <4>1, <4>3
      <4> HIDE DEF step
      <4> QED BY <2>1, <3>2, <4>1, <4>4
    <3> QED BY <3>1, <3>2
  <2> HIDE DEF step, best
  <2> QED BY <2>1, <2>2
<1> DEFINE shown == LinesUpTo(found)
<1>6. shown = [n \in 0..most |-> IF n = 0 THEN NoLines ELSE AddLine(shown[n - 1], best[n])]
  <2>1. \A g : (g = [n \in 0..most |-> IF n = 0 THEN NoLines ELSE AddLine(g[n - 1], best[n])])
            <=> (g = [n \in 0..most |-> IF n = 0 THEN NoLines ELSE AddLine(g[n - 1], found[Ranked(found)[n]])])
    <3> SUFFICES ASSUME NEW g
                 PROVE  [n \in 0..most |-> IF n = 0 THEN NoLines ELSE AddLine(g[n - 1], best[n])]
                        = [n \in 0..most |-> IF n = 0 THEN NoLines ELSE AddLine(g[n - 1], found[Ranked(found)[n]])]
      OBVIOUS
    <3>1. \A n \in 0..most : n # 0 => best[n] = found[Ranked(found)[n]]
      <4>1. \A n \in 0..most : n # 0 => n \in 1..most
        <5> HIDE DEF most
        <5> QED BY <1>0
      <4> QED BY <4>1
    <3> HIDE DEF best, most
    <3> QED BY <3>1
  <2>2. f = [n \in 0..most |-> IF n = 0 THEN NoLines ELSE AddLine(f[n - 1], found[Ranked(found)[n]])]
    <3> HIDE DEF best, most, step
    <3> QED BY <1>5, <2>1
  <2>3. shown = [n \in 0..most |-> IF n = 0 THEN NoLines ELSE AddLine(shown[n - 1], found[Ranked(found)[n]])]
    BY <2>2 DEF LinesUpTo, NoLines
  <2> HIDE DEF best, most, step, shown
  <2> QED BY <2>1, <2>3
<1>7. \A n \in 0..most : shown[n] = IF n = 0 THEN NoLines ELSE AddLine(shown[n - 1], best[n])
  <2> HIDE DEF best, most, step, shown
  <2> QED BY <1>6
<1>8. 0 \in 0..most /\ \A n \in 1..most : n \in 0..most /\ n # 0
  <2> HIDE DEF most
  <2> QED BY <1>0
<1>9. shown[0] = NoLines
  <2> HIDE DEF best, most, step, shown
  <2> QED BY <1>7, <1>8
<1>10. \A n \in 1..most : shown[n] = AddLine(shown[n - 1], best[n])
  <2> HIDE DEF best, most, step, shown
  <2> QED BY <1>7, <1>8
<1>11. \A n \in 0..most : shown[n] \in LineStates
  <2> DEFINE T == {n \in 0..most : shown[n] \in LineStates}
  <2>1. 0 \in T
    BY <1>3, <1>8, <1>9
  <2>2. ASSUME NEW n \in 0..most, n \in T, n < most PROVE n + 1 \in T
    <3>1. n + 1 \in 1..most /\ n + 1 \in 0..most /\ (n + 1) - 1 = n
      <4> HIDE DEF most
      <4> QED BY <1>0, <2>2
    <3>2. shown[n + 1] = AddLine(shown[n], best[n + 1]) /\ best[n + 1] \in Results
      <4> HIDE DEF best, most, step, shown
      <4> QED BY <3>1, <1>10, <1>1
    <3>3. shown[n] \in LineStates
      BY <2>2
    <3>4. shown[n + 1] \in LineStates
      <4> HIDE DEF best, most, step, shown
      <4> QED BY <3>2, <3>3, AddLineType
    <3> QED BY <3>1, <3>4
  <2> HIDE DEF T, most, shown
  <2>3. 0..most \subseteq T
    BY <1>0, <2>1, <2>2, UpTo
  <2> QED BY <2>3 DEF T
<1>12. Lines(found) = shown[most].lines
  BY DEF Lines, LinesUpTo
<1>13. \A n \in 1..most : shown[n] = AddLine(shown[n - 1], found[Ranked(found)[n]])
  <2>1. \A n \in 1..most : best[n] = found[Ranked(found)[n]]
    OBVIOUS
  <2> HIDE DEF best, most, step, shown
  <2> QED BY <1>10, <2>1
<1> HIDE DEF best, step
<1> QED BY <1>0, <1>9, <1>11, <1>12, <1>13

(* What holds of the lines after n of the best results. *)
ShownSoFar(found, st, n) ==
  LET o == Ranked(found)
  IN  /\ st \in LineStates
      /\ Len(st.lines) <= n
      /\ Cardinality(TextsOf(st.lines)) = Len(st.lines) /\ IsFiniteSet(TextsOf(st.lines))
      /\ Total(LengthsOf(st.lines)) = st.total /\ st.total <= MaxTotal
      /\ ~st.full => \A j \in 1..n : found[o[j]].text \in TextsOf(st.lines)
      /\ \A i \in 1..Len(st.lines) : \E k \in 1..n :
           /\ st.lines[i] = found[o[k]]
           /\ \A j \in 1..k : found[o[j]].text \in TextsOf(st.lines)

LEMMA NoLinesSoFar ==
  ASSUME NEW found \in Seq(Results)
  PROVE  ShownSoFar(found, NoLines, 0)
<1>1. PICK lines \in Seq(Results) : lines = <<>> /\ Len(lines) = 0
  BY EmptySeq
<1>2. NoLines = [lines |-> lines, total |-> 0, full |-> FALSE]
  BY <1>1 DEF NoLines
<1>3. NoLines \in LineStates
  BY <1>2 DEF LineStates
<1>4. 1..Len(lines) = {}
  BY <1>1
<1>5. TextsOf(lines) = {}
  BY <1>4 DEF TextsOf
<1>6. Cardinality(TextsOf(lines)) = 0 /\ IsFiniteSet(TextsOf(lines))
  BY <1>5, FS_EmptySet
<1>7. LengthsOf(lines) = <<>>
  <2>1. DOMAIN lines = {}
    BY <1>4, LenProperties
  <2>2. LengthsOf(lines) \in [1..0 -> Nat]
    BY <2>1 DEF LengthsOf
  <2>3. PICK none \in Seq(Nat) : none = <<>> /\ Len(none) = 0
    BY EmptySeq
  <2>4. none \in [1..0 -> Nat]
    BY <2>3, LenProperties
  <2>5. \A f, g \in [1..0 -> Nat] : f = g
    OBVIOUS
  <2> QED BY <2>2, <2>3, <2>4, <2>5
<1>8. Total(LengthsOf(lines)) = 0 /\ 0 <= MaxTotal
  BY <1>7, TotalOfEmpty, MemoryAssumption
<1>9. NoLines.lines = lines /\ NoLines.total = 0
  BY <1>2
<1> QED BY <1>1, <1>3, <1>4, <1>6, <1>8, <1>9 DEF ShownSoFar

LEMMA OneMoreLine ==
  ASSUME NEW found \in Seq(Results), NEW n \in Nat, n + 1 <= Len(found),
         NEW st, ShownSoFar(found, st, n)
  PROVE  ShownSoFar(found, AddLine(st, found[Ranked(found)[n + 1]]), n + 1)
<1> DEFINE o == Ranked(found)
           r == found[o[n + 1]]
           new == AddLine(st, r)
           lines == st.lines
           more == Append(lines, r)
<1>1. r \in Results
  <2>1. Len(found) \in Nat
    BY LenProperties
  <2>2. n + 1 \in 1..Len(found)
    BY <2>1
  <2>3. o[n + 1] \in 1..Len(found)
    BY <2>2, RankedSorts
  <2> QED BY <2>3, ElementOfSeq
<1>2. /\ st \in LineStates /\ lines \in Seq(Results) /\ st.total \in Nat /\ st.full \in BOOLEAN
      /\ Len(lines) \in Nat /\ Len(lines) <= n
      /\ Cardinality(TextsOf(lines)) = Len(lines) /\ IsFiniteSet(TextsOf(lines))
      /\ Total(LengthsOf(lines)) = st.total /\ st.total <= MaxTotal
  <2>1. st \in LineStates
    BY DEF ShownSoFar
  <2>2. lines \in Seq(Results) /\ st.total \in Nat /\ st.full \in BOOLEAN
    BY <2>1 DEF LineStates
  <2>3. Len(lines) \in Nat
    BY <2>2, LenProperties
  <2> HIDE DEF lines
  <2> QED BY <2>1, <2>2, <2>3 DEF ShownSoFar, lines
<1>3. ~st.full => \A j \in 1..n : found[o[j]].text \in TextsOf(lines)
  BY DEF ShownSoFar
<1>4. \A i \in 1..Len(lines) : \E k \in 1..n :
        lines[i] = found[o[k]] /\ \A j \in 1..k : found[o[j]].text \in TextsOf(lines)
  BY DEF ShownSoFar
<1>5. \A j \in 1..n : j \in 1..(n + 1)
  OBVIOUS
<1>6. \A j \in 1..(n + 1) : j = n + 1 \/ j \in 1..n
  OBVIOUS
<1>7. LineLength(r) \in Nat /\ MaxTotal \in Nat
  BY <1>1, LineLengthIsNat, MemoryAssumption
<1>8. \A i \in 1..Len(lines) : \E k \in 1..(n + 1) :
        lines[i] = found[o[k]] /\ \A j \in 1..k : found[o[j]].text \in TextsOf(lines)
  <2> HIDE DEF o, lines
  <2> QED BY <1>4, <1>5
<1>9. n + 1 \in Nat /\ Len(lines) <= n + 1
  <2> HIDE DEF lines
  <2> QED BY <1>2
<1>10. CASE st.full \/ \E i \in DOMAIN st.lines : st.lines[i].text = r.text
  <2>1. new = st
    BY <1>10 DEF AddLine
  <2>2. ~st.full => \A j \in 1..(n + 1) : found[o[j]].text \in TextsOf(lines)
    <3> SUFFICES ASSUME ~st.full, NEW j \in 1..(n + 1) PROVE found[o[j]].text \in TextsOf(lines)
      OBVIOUS
    <3>1. DOMAIN lines = 1..Len(lines)
      BY <1>2, LenProperties
    <3>2. r.text \in TextsOf(lines)
      BY <1>10, <3>1 DEF TextsOf
    <3> QED BY <3>2, <1>3, <1>6
  <2> HIDE DEF new, r, o
  <2> QED BY <2>1, <2>2, <1>2, <1>8, <1>9 DEF ShownSoFar, lines, o, new, r
<1>11. CASE /\ ~(st.full \/ \E i \in DOMAIN st.lines : st.lines[i].text = r.text)
            /\ st.total + LineLength(r) > MaxTotal
  <2>1. new = [st EXCEPT !.full = TRUE]
    BY <1>11 DEF AddLine
  <2>2. new.lines = lines /\ new.total = st.total /\ new.full = TRUE /\ new \in LineStates
    BY <2>1, <1>2 DEF LineStates
  <2> HIDE DEF new, r, o, lines
  <2>3. ShownSoFar(found, new, n + 1)
    BY <2>2, <1>2, <1>8, <1>9 DEF ShownSoFar, o
  <2> QED BY <2>3 DEF new, r, o
<1>12. CASE /\ ~(st.full \/ \E i \in DOMAIN st.lines : st.lines[i].text = r.text)
            /\ ~(st.total + LineLength(r) > MaxTotal)
  <2>1. new = [lines |-> more, total |-> st.total + LineLength(r), full |-> FALSE]
    BY <1>12 DEF AddLine
  <2>2. new.lines = more /\ new.total = st.total + LineLength(r) /\ new.full = FALSE
    BY <2>1
  <2>3. new \in LineStates
    BY <1>1, <1>2, AddLineType
  <2>4. /\ more \in Seq(Results) /\ Len(more) = Len(lines) + 1 /\ more[Len(lines) + 1] = r
        /\ \A i \in 1..Len(lines) : more[i] = lines[i]
    <3> HIDE DEF lines, r
    <3> QED BY <1>1, <1>2, AppendProperties
  <2>5. TextsOf(more) = TextsOf(lines) \cup {r.text}
    <3> HIDE DEF lines, r, more
    <3>1. \A i \in 1..Len(more) : i = Len(lines) + 1 \/ i \in 1..Len(lines)
      BY <2>4, <1>2
    <3>2. Len(lines) + 1 \in 1..Len(more) /\ \A i \in 1..Len(lines) : i \in 1..Len(more)
      BY <2>4, <1>2
    <3> QED BY <3>1, <3>2, <2>4 DEF TextsOf
  <2>6. r.text \notin TextsOf(lines)
    <3>1. DOMAIN lines = 1..Len(lines)
      BY <1>2, LenProperties
    <3> QED BY <1>12, <3>1 DEF TextsOf
  <2>7. Cardinality(TextsOf(more)) = Len(more) /\ IsFiniteSet(TextsOf(more))
    <3> DEFINE T == TextsOf(lines)
               x == r.text
    <3>1. IsFiniteSet(T) /\ x \notin T
      BY <2>6, <1>2
    <3> HIDE DEF T, x
    <3>2. IsFiniteSet(T \cup {x}) /\ Cardinality(T \cup {x}) = Cardinality(T) + 1
      BY <3>1, FS_AddElement
    <3> USE DEF T, x
    <3> HIDE DEF lines, r, more
    <3> QED BY <3>2, <2>4, <2>5, <1>2
  <2>8. Total(LengthsOf(more)) = st.total + LineLength(r)
    <3>1. LengthsOf(lines) \in Seq(Nat) /\ LengthsOf(more) = Append(LengthsOf(lines), LineLength(r))
      BY <1>1, <1>2, LengthsOfAppend
    <3> HIDE DEF lines, r, more
    <3> QED BY <3>1, <1>2, <1>7, TotalOfAppend
  <2>9. \A j \in 1..(n + 1) : found[o[j]].text \in TextsOf(more)
    <3>1. r.text \in TextsOf(more)
      BY <2>5
    <3>2. \A j \in 1..n : found[o[j]].text \in TextsOf(more)
      <4> HIDE DEF lines, more, o
      <4> QED BY <1>12, <1>3, <2>5
    <3> QED BY <3>1, <3>2, <1>6
  <2>10. \A i \in 1..Len(more) : \E k \in 1..(n + 1) :
           more[i] = found[o[k]] /\ \A j \in 1..k : found[o[j]].text \in TextsOf(more)
    <3> SUFFICES ASSUME NEW i \in 1..Len(more)
                 PROVE  \E k \in 1..(n + 1) :
                          more[i] = found[o[k]] /\ \A j \in 1..k : found[o[j]].text \in TextsOf(more)
      OBVIOUS
    <3>1. CASE i \in 1..Len(lines)
      <4>1. PICK k \in 1..(n + 1) :
              lines[i] = found[o[k]] /\ \A j \in 1..k : found[o[j]].text \in TextsOf(lines)
        BY <3>1, <1>8
      <4>2. more[i] = lines[i]
        BY <3>1, <2>4
      <4> HIDE DEF lines, more, o
      <4> QED BY <4>1, <4>2, <2>5
    <3>2. CASE i = Len(lines) + 1
      <4>1. n + 1 \in 1..(n + 1)
        OBVIOUS
      <4>2. more[i] = found[o[n + 1]]
        BY <3>2, <2>4
      <4> HIDE DEF lines, more, o
      <4> QED BY <4>1, <4>2, <2>9
    <3>3. i \in 1..Len(lines) \/ i = Len(lines) + 1
      <4> HIDE DEF lines, more
      <4> QED BY <2>4, <1>2
    <3> QED BY <3>1, <3>2, <3>3
  <2>11. Len(more) <= n + 1 /\ st.total + LineLength(r) <= MaxTotal
    <3> HIDE DEF lines, more, r
    <3> QED BY <2>4, <1>2, <1>7, <1>12
  <2> HIDE DEF new, r, o, lines, more
  <2>12. ShownSoFar(found, new, n + 1)
    BY <2>2, <2>3, <2>7, <2>8, <2>9, <2>10, <2>11 DEF ShownSoFar, o
  <2> QED BY <2>12 DEF new, r, o
<1> QED BY <1>10, <1>11, <1>12

(* What a turn is shown of what was found for it. *)
LEMMA LinesOfFound ==
  ASSUME NEW found \in Seq(Results)
  PROVE  LET lines == Lines(found)
         IN  /\ lines \in Seq(Results) /\ Len(lines) <= TopK
             /\ Cardinality(TextsOf(lines)) = Len(lines)
             /\ Total(LengthsOf(lines)) <= MaxTotal
             /\ \A i \in 1..Len(lines) : \E k \in 1..Len(found) : lines[i] = found[k]
             /\ \A k \in 1..Len(found), i \in 1..Len(lines) :
                  found[k].text \notin TextsOf(lines) => found[k].score <= lines[i].score
<1> DEFINE most == Least(TopK, Len(found))
           shown == LinesUpTo(found)
           o == Ranked(found)
           T == {n \in 0..most : ShownSoFar(found, shown[n], n)}
           lines == Lines(found)
<1>1. /\ most \in Nat /\ most <= TopK /\ most <= Len(found)
      /\ shown[0] = NoLines
      /\ \A n \in 1..most : shown[n] = AddLine(shown[n - 1], found[o[n]])
      /\ lines = shown[most].lines
  BY LinesAre
<1>2. Len(found) \in Nat /\ TopK \in Nat
  BY LenProperties, MemoryAssumption
<1> HIDE DEF most, shown, lines
<1>3. 0 \in T
  BY <1>1, NoLinesSoFar
<1>4. ASSUME NEW n \in 0..most, n \in T, n < most PROVE n + 1 \in T
  <2>1. n + 1 \in 0..most /\ n + 1 \in 1..most /\ (n + 1) - 1 = n /\ n \in Nat /\ n + 1 <= Len(found)
    BY <1>1, <1>2, <1>4
  <2>2. shown[n + 1] = AddLine(shown[n], found[o[n + 1]])
    BY <1>1, <2>1
  <2>3. ShownSoFar(found, shown[n], n)
    BY <1>4
  <2>4. ShownSoFar(found, shown[n + 1], n + 1)
    BY <2>1, <2>2, <2>3, OneMoreLine
  <2> QED BY <2>1, <2>4
<1>5. ShownSoFar(found, shown[most], most)
  <2> HIDE DEF T
  <2>1. 0..most \subseteq T
    BY <1>1, <1>3, <1>4, UpTo
  <2>2. most \in 0..most
    BY <1>1
  <2> QED BY <2>1, <2>2 DEF T
<1>6. /\ shown[most] \in LineStates
      /\ Len(lines) <= most
      /\ Cardinality(TextsOf(lines)) = Len(lines)
      /\ Total(LengthsOf(lines)) = shown[most].total /\ shown[most].total <= MaxTotal
      /\ \A i \in 1..Len(lines) : \E k \in 1..most :
           lines[i] = found[o[k]] /\ \A j \in 1..k : found[o[j]].text \in TextsOf(lines)
  BY <1>1, <1>5 DEF ShownSoFar
<1>7. lines \in Seq(Results) /\ Len(lines) \in Nat
  <2>1. lines \in Seq(Results)
    BY <1>1, <1>6 DEF LineStates
  <2> QED BY <2>1, LenProperties
<1>8. Len(lines) <= TopK
  BY <1>1, <1>2, <1>6, <1>7
<1>9. /\ o \in [1..Len(found) -> 1..Len(found)]
      /\ \A i \in 1..Len(found) : \E k \in 1..Len(found) : o[k] = i
      /\ \A j, k \in 1..Len(found) : j < k => found[o[j]].score >= found[o[k]].score
  BY RankedSorts
<1>10. \A k \in 1..most : k \in 1..Len(found)
  BY <1>1, <1>2
<1>11. \A k \in 1..Len(found) : found[k].score \in Nat
  <2>1. \A k \in 1..Len(found) : found[k] \in Results
    BY ElementOfSeq
  <2> QED BY <2>1 DEF Results
<1> HIDE DEF o
<1>12. ASSUME NEW i \in 1..Len(lines) PROVE \E k \in 1..Len(found) : lines[i] = found[k]
  <2>1. PICK k \in 1..most : lines[i] = found[o[k]]
    BY <1>6
  <2>2. o[k] \in 1..Len(found)
    BY <1>9, <1>10
  <2> QED BY <2>1, <2>2
<1>13. ASSUME NEW i \in 1..Len(lines), NEW j \in 1..Len(found), found[j].text \notin TextsOf(lines)
       PROVE  found[j].score <= lines[i].score
  <2>1. PICK k \in 1..most : lines[i] = found[o[k]] /\ \A l \in 1..k : found[o[l]].text \in TextsOf(lines)
    BY <1>6
  <2>2. PICK l \in 1..Len(found) : o[l] = j
    BY <1>9
  <2>3. l \notin 1..k
    BY <2>1, <2>2, <1>13
  <2>4. k \in 1..Len(found) /\ k < l
    BY <2>3, <1>2, <1>10
  <2>5. found[o[k]].score >= found[o[l]].score
    BY <2>4, <1>9
  <2>6. o[k] \in 1..Len(found)
    BY <2>4, <1>9
  <2>7. found[o[k]].score \in Nat /\ found[j].score \in Nat
    BY <2>6, <1>11
  <2> QED BY <2>1, <2>2, <2>5, <2>7
<1>14. Total(LengthsOf(lines)) <= MaxTotal
  BY <1>6
<1> QED BY <1>6, <1>7, <1>8, <1>12, <1>13, <1>14 DEF lines

-----------------------------------------------------------------------------
(* The files. *)

FileStates == [lines : Seq(Nat), left : Nat]

MostOfFiles == (IF MaxPerFile > MaxAllFiles THEN MaxPerFile ELSE MaxAllFiles) + 1

(* What is left of the total is what the lines are short of it; with nothing
   left they may be one mark over, or be the index alone. *)
FilesFit(st) ==
  /\ st \in FileStates
  /\ Total(st.lines) \in Nat
  /\ st.left > 0 => Total(st.lines) + st.left = MaxAllFiles
  /\ st.left = 0 => Total(st.lines) <= MostOfFiles

LEMMA OneMoreFile ==
  ASSUME NEW st, FilesFit(st), NEW length \in Nat
  PROVE  FilesFit(AddFile(st, length))
<1>1. /\ st.lines \in Seq(Nat) /\ st.left \in Nat
      /\ Total(st.lines) \in Nat
      /\ st.left > 0 => Total(st.lines) + st.left = MaxAllFiles
  BY DEF FilesFit, FileStates
<1>2. MaxPerFile \in Nat /\ MaxAllFiles \in Nat /\ ItemFloor \in Nat /\ ItemFloor > 0
  BY MemoryAssumption
<1>3. CASE st.left < ItemFloor
  <2>1. AddFile(st, length) = st
    BY <1>3 DEF AddFile
  <2> QED BY <2>1
<1>4. CASE ~(st.left < ItemFloor)
  <2> DEFINE budget == IF Least(MaxPerFile, st.left) < ItemFloor THEN ItemFloor ELSE Least(MaxPerFile, st.left)
             size == Cut(length, budget)
             new == AddFile(st, length)
  <2>1. budget \in Nat /\ budget <= st.left
    BY <1>1, <1>2, <1>4 DEF Least
  <2>2. size \in Nat /\ size <= st.left + 1
    <3> HIDE DEF budget
    <3>1. size \in Nat /\ size <= budget + 1
      BY <2>1, CutOfNat
    <3> HIDE DEF size
    <3> QED BY <3>1, <2>1, <1>1
  <2>3. new = [lines |-> Append(st.lines, size), left |-> IF size < st.left THEN st.left - size ELSE 0]
    BY <1>4 DEF AddFile
  <2>4. new.lines = Append(st.lines, size) /\ new.left = IF size < st.left THEN st.left - size ELSE 0
    BY <2>3
  <2> HIDE DEF size
  <2>5. Append(st.lines, size) \in Seq(Nat) /\ Total(Append(st.lines, size)) = Total(st.lines) + size
    BY <1>1, <2>2, AppendProperties, TotalOfAppend
  <2>6. (IF size < st.left THEN st.left - size ELSE 0) \in Nat
    BY <1>1, <2>2
  <2>7. new \in FileStates
    <3> HIDE DEF new
    <3> QED BY <2>3, <2>5, <2>6 DEF FileStates
  <2>8. Total(st.lines) + st.left = MaxAllFiles
    BY <1>1, <1>2, <1>4
  <2> HIDE DEF new
  <2>9. Total(new.lines) = Total(st.lines) + size
    BY <2>4, <2>5
  <2>10. Total(new.lines) \in Nat
    BY <2>9, <1>1, <2>2
  <2>11. CASE size < st.left
    <3>1. new.left = st.left - size /\ new.left > 0
      BY <2>4, <2>11, <1>1, <2>2
    <3>2. Total(new.lines) + new.left = MaxAllFiles
      BY <3>1, <2>8, <2>9, <1>1, <2>2
    <3>3. FilesFit(new)
      BY <3>1, <3>2, <2>7, <2>10 DEF FilesFit
    <3> QED BY <3>3 DEF new
  <2>12. CASE ~(size < st.left)
    <3>1. new.left = 0
      BY <2>4, <2>12
    <3>2. Total(new.lines) <= MaxAllFiles + 1
      BY <2>8, <2>9, <2>2, <1>1, <1>2
    <3>3. Total(new.lines) <= MostOfFiles
      BY <3>2, <2>10, <1>2 DEF MostOfFiles
    <3>4. FilesFit(new)
      BY <3>1, <3>3, <2>7, <2>10 DEF FilesFit
    <3> QED BY <3>4 DEF new
  <2> QED BY <2>11, <2>12
<1> QED BY <1>3, <1>4

FirstFile(lengths) ==
  LET first == Cut(lengths[1], MaxPerFile)
  IN  [lines |-> <<first>>, left |-> IF first < MaxAllFiles THEN MaxAllFiles - first ELSE 0]

LEMMA FirstFileFits ==
  ASSUME NEW lengths \in Seq(Nat), lengths # <<>>
  PROVE  FilesFit(FirstFile(lengths))
<1> DEFINE first == Cut(lengths[1], MaxPerFile)
           new == FirstFile(lengths)
<1>1. MaxPerFile \in Nat /\ MaxAllFiles \in Nat
  BY MemoryAssumption
<1>2. first \in Nat /\ first <= MaxPerFile + 1
  <2>1. Len(lengths) \in Nat \ {0}
    BY EmptySeq
  <2>2. 1 \in 1..Len(lengths)
    BY <2>1
  <2>3. lengths[1] \in Nat
    BY <2>2, ElementOfSeq
  <2> QED BY <2>3, <1>1, CutOfNat
<1>3. new = [lines |-> <<first>>, left |-> IF first < MaxAllFiles THEN MaxAllFiles - first ELSE 0]
  BY DEF FirstFile
<1> HIDE DEF first, new
<1>4. <<first>> \in Seq(Nat) /\ Total(<<first>>) = first
  <2>1. PICK none \in Seq(Nat) : none = <<>> /\ Len(none) = 0
    BY EmptySeq
  <2>2. Total(none) = 0
    BY <2>1, TotalOfEmpty
  <2>3. Append(none, first) \in Seq(Nat) /\ Total(Append(none, first)) = 0 + first
    BY <2>2, <1>2, AppendProperties, TotalOfAppend
  <2>4. Append(none, first) = <<first>>
    BY <2>1, <1>2, AppendIsConcat, ConcatEmptySeq
  <2> QED BY <2>3, <2>4, <1>2
<1>5. /\ new.lines = <<first>>
      /\ new.left = IF first < MaxAllFiles THEN MaxAllFiles - first ELSE 0
      /\ Total(new.lines) = first
  BY <1>3, <1>4
<1>6. (IF first < MaxAllFiles THEN MaxAllFiles - first ELSE 0) \in Nat
  BY <1>1, <1>2
<1>7. new \in FileStates
  BY <1>3, <1>4, <1>6 DEF FileStates
<1>8. new.left > 0 => Total(new.lines) + new.left = MaxAllFiles
  BY <1>1, <1>2, <1>5
<1>9. Total(new.lines) <= MostOfFiles
  BY <1>1, <1>2, <1>5 DEF MostOfFiles
<1> QED BY <1>2, <1>5, <1>7, <1>8, <1>9 DEF FilesFit, new

FilesUpTo(lengths) ==
  CHOOSE given : given =
    [n \in 0..Len(lengths) - 1 |->
       IF n = 0 THEN FirstFile(lengths) ELSE AddFile(given[n - 1], lengths[n + 1])]

LEMMA FilesAreShort ==
  ASSUME NEW lengths \in Seq(Nat), lengths # <<>>
  PROVE  FileLines(lengths) \in Seq(Nat) /\ Total(FileLines(lengths)) <= MostOfFiles
<1> DEFINE N == Len(lengths) - 1
           S == {st \in FileStates : FilesFit(st)}
           step == [p \in S \X Nat |-> IF p[2] \in 1..N THEN AddFile(p[1], lengths[p[2] + 1]) ELSE p[1]]
           first == FirstFile(lengths)
           given == FilesUpTo(lengths)
<1>1. N \in Nat /\ Len(lengths) \in Nat /\ \A n \in 1..N : lengths[n + 1] \in Nat
  <2>1. Len(lengths) \in Nat \ {0}
    BY EmptySeq
  <2>2. N \in Nat /\ \A n \in 1..N : n + 1 \in 1..Len(lengths)
    BY <2>1
  <2>3. \A n \in 1..Len(lengths) : lengths[n] \in Nat
    BY ElementOfSeq
  <2> HIDE DEF N
  <2> QED BY <2>1, <2>2, <2>3
<1>2. first \in S
  BY FirstFileFits DEF FilesFit
<1>3. ASSUME NEW st \in S, NEW n \in 1..N PROVE AddFile(st, lengths[n + 1]) \in S
  <2>1. FilesFit(st) /\ lengths[n + 1] \in Nat
    BY <1>1
  <2>2. FilesFit(AddFile(st, lengths[n + 1]))
    BY <2>1, OneMoreFile
  <2> QED BY <2>2 DEF FilesFit
<1>4. step \in Rounds(S)
  <2> HIDE DEF S, N
  <2> QED BY <1>3 DEF Rounds
<1>5. PICK f : IsLoop(f, N, S, first, step)
  <2> HIDE DEF step, S, N, first
  <2> QED BY <1>1, <1>2, <1>4, Recursion
<1> HIDE DEF S, N, first
<1>6. f \in [0..N -> S] /\ f[0] = first /\ \A n \in 1..N : f[n] = step[<<f[n - 1], n>>]
  BY <1>5 DEF IsLoop
<1>7. \A n \in 0..N : n # 0 => n \in 1..N /\ n \in Nat /\ n - 1 \in 0..N
  BY <1>1
<1>8. ASSUME NEW n \in 0..N PROVE f[n] = IF n = 0 THEN first ELSE AddFile(f[n - 1], lengths[n + 1])
  <2>1. CASE n = 0
    BY <2>1, <1>6
  <2>2. CASE n # 0
    <3>1. n \in 1..N /\ n \in Nat /\ f[n - 1] \in S
      BY <2>2, <1>6, <1>7
    <3>2. step[<<f[n - 1], n>>] = AddFile(f[n - 1], lengths[n + 1])
      BY <3>1
    <3> HIDE DEF step
    <3> QED BY <2>2, <3>1, <3>2, <1>6
  <2> QED BY <2>1, <2>2
<1> HIDE DEF step
<1>9. f = [n \in 0..N |-> IF n = 0 THEN first ELSE AddFile(f[n - 1], lengths[n + 1])]
  BY <1>6, <1>8
<1>10. given = [n \in 0..N |-> IF n = 0 THEN first ELSE AddFile(given[n - 1], lengths[n + 1])]
  BY <1>9 DEF FilesUpTo, N, first
<1> HIDE DEF given
<1>11. \A n \in 0..N : given[n] = IF n = 0 THEN first ELSE AddFile(given[n - 1], lengths[n + 1])
  BY <1>10
<1> DEFINE T == {n \in 0..N : given[n] \in S}
<1>12. 0 \in T
  BY <1>1, <1>2, <1>11
<1>13. ASSUME NEW n \in 0..N, n \in T, n < N PROVE n + 1 \in T
  <2>1. n + 1 \in 0..N /\ n + 1 \in 1..N /\ n + 1 # 0 /\ (n + 1) - 1 = n
    BY <1>1, <1>13
  <2>2. given[n + 1] = AddFile(given[n], lengths[(n + 1) + 1])
    BY <2>1, <1>11
  <2>3. given[n + 1] \in S
    BY <2>1, <2>2, <1>3, <1>13
  <2> QED BY <2>1, <2>3
<1>14. given[N] \in S
  <2> HIDE DEF T
  <2>1. 0..N \subseteq T
    BY <1>1, <1>12, <1>13, UpTo
  <2>2. N \in 0..N
    BY <1>1
  <2> QED BY <2>1, <2>2 DEF T
<1>15. given[N].lines \in Seq(Nat) /\ Total(given[N].lines) <= MostOfFiles
  <2>1. /\ FilesFit(given[N]) /\ given[N].lines \in Seq(Nat) /\ given[N].left \in Nat
    BY <1>14 DEF S, FileStates
  <2>2. MaxPerFile \in Nat /\ MaxAllFiles \in Nat
    BY MemoryAssumption
  <2>3. CASE given[N].left = 0
    BY <2>1, <2>3 DEF FilesFit
  <2>4. CASE given[N].left # 0
    <3>1. Total(given[N].lines) \in Nat /\ Total(given[N].lines) + given[N].left = MaxAllFiles
      BY <2>1, <2>4 DEF FilesFit
    <3> QED BY <3>1, <2>1, <2>2 DEF MostOfFiles
  <2> QED BY <2>3, <2>4
<1>16. FileLines(lengths) = given[N].lines
  BY DEF FileLines, FilesUpTo, FirstFile, given, N
<1> QED BY <1>15, <1>16

-----------------------------------------------------------------------------
(* The inductive invariant. *)

MemoryAt == {"idle", "chat", "user", "agent", "ask", "storeChat", "storeUser", "file", "done"}
Searching == {"idle", "chat", "user", "agent"}
Storing == {"storeChat", "storeUser", "file"}

Speakers == MemoryUsers \union {"none"}

TurnStates ==
  [at : MemoryAt, user : Speakers, said : Words \union {0}, reply : Words \union {0},
   found : Seq(Results), shown : Seq(Results)]

MemoryScopes == ({"chat"} \X MemoryChats) \union ({"user"} \X Speakers)

MemoryRows == [scope : MemoryScopes, text : Memos, chat : MemoryChats, user : Speakers]

MemoryTyped ==
  /\ rows \in Seq(MemoryRows)
  /\ turn \in [MemoryChats -> TurnStates]
  /\ filesShown \in Seq(Nat)

(* A row is its chat's or its user's. *)
IsOwn(row) ==
  \/ row.scope = <<"chat", row.chat>>
  \/ row.scope = <<"user", row.user>> /\ row.user # "none"

RowsAreOwn == \A i \in 1..Len(rows) : IsOwn(rows[i])

Clean(text) == text[1] \notin Secrets /\ text[2] \notin Secrets

NoSecretIsKept ==
  /\ \A i \in 1..Len(rows) : Clean(rows[i].text)
  /\ \A text \in today : Clean(text)

(* What is stored was said; a user is searched or stored for only if there is one. *)
TurnsSpeak ==
  \A c \in MemoryChats :
    /\ turn[c].at # "idle" => turn[c].said \in Words
    /\ turn[c].at \in Storing => turn[c].reply \in Words
    /\ turn[c].at \in {"user", "storeUser"} => turn[c].user # "none"

FoundFor(r, c, user) == r.chat = c \/ (r.user = user /\ r.user # "none")

FoundIsOwn ==
  \A c \in MemoryChats : \A i \in 1..Len(turn[c].found) :
    FoundFor(turn[c].found[i], c, turn[c].user)

(* After the search a turn has the lines of what was found, and they stay. *)
ShownAreLines ==
  \A c \in MemoryChats :
    turn[c].shown = IF turn[c].at \in Searching THEN <<>> ELSE Lines(turn[c].found)

FilesStayShort == Total(filesShown) <= MostOfFiles

MemoryIInv ==
  /\ MemoryTyped /\ RowsAreOwn /\ NoSecretIsKept /\ TurnsSpeak
  /\ FoundIsOwn /\ ShownAreLines /\ FilesStayShort

MemorySpec == MemoryInit /\ [][MemoryNext]_memoryVars

-----------------------------------------------------------------------------
(* What is kept. *)

LEMMA WordsOfMemos ==
  ASSUME NEW said \in Words, NEW answer \in Words
  PROVE  Sanitized(said, answer) \in Memos /\ Clean(Sanitized(said, answer))
<1> DEFINE earlier == UNION {UNION {{turns[i].said, turns[i].reply} : i \in DOMAIN turns} : turns \in Earlier}
           parts == Words \union {Redacted} \union earlier
           a == IF said \in Secrets THEN Redacted ELSE said
           b == IF answer \in Secrets THEN Redacted ELSE answer
<1>1. Redacted \notin Secrets
  BY MemoryAssumption
<1>2. a \in parts /\ b \in parts /\ a \notin Secrets /\ b \notin Secrets
  <2> HIDE DEF earlier
  <2> QED BY <1>1
<1>3. Sanitized(said, answer) = <<a, b>>
  BY DEF Sanitized
<1> HIDE DEF a, b, parts
<1>4. <<a, b>> \in parts \X parts /\ Clean(<<a, b>>)
  BY <1>2 DEF Clean
<1> QED BY <1>3, <1>4 DEF parts, Memos

LEMMA EarlierOfMemos ==
  ASSUME NEW turns \in Earlier, NEW i \in 1..Len(turns)
  PROVE  /\ turns[i].chat \in MemoryChats /\ turns[i].user \in MemoryUsers
         /\ Sanitized(turns[i].said, turns[i].reply) \in Memos
         /\ Clean(Sanitized(turns[i].said, turns[i].reply))
<1> DEFINE earlier == UNION {UNION {{ts[k].said, ts[k].reply} : k \in DOMAIN ts} : ts \in Earlier}
           parts == Words \union {Redacted} \union earlier
           said == turns[i].said
           answer == turns[i].reply
           a == IF said \in Secrets THEN Redacted ELSE said
           b == IF answer \in Secrets THEN Redacted ELSE answer
<1>0. turns \in Seq([chat : MemoryChats, user : MemoryUsers, said : Nat, reply : Nat])
  BY MemoryAssumption
<1>1. /\ DOMAIN turns = 1..Len(turns)
      /\ turns[i] \in [chat : MemoryChats, user : MemoryUsers, said : Nat, reply : Nat]
  BY <1>0, LenProperties, ElementOfSeq
<1>2. said \in earlier /\ answer \in earlier
  <2>1. {said, answer} \subseteq UNION {{turns[k].said, turns[k].reply} : k \in DOMAIN turns}
    BY <1>1
  <2> QED BY <2>1
<1>3. Redacted \notin Secrets
  BY MemoryAssumption
<1>4. a \in parts /\ b \in parts /\ a \notin Secrets /\ b \notin Secrets
  <2> HIDE DEF earlier, said, answer
  <2> QED BY <1>2, <1>3
<1>5. Sanitized(said, answer) = <<a, b>>
  BY DEF Sanitized
<1> HIDE DEF a, b, parts
<1>6. <<a, b>> \in parts \X parts /\ Clean(<<a, b>>)
  BY <1>4 DEF Clean
<1>7. Sanitized(said, answer) \in Memos /\ Clean(Sanitized(said, answer))
  BY <1>5, <1>6 DEF parts, Memos
<1> QED BY <1>1, <1>7

(* A turn's row, in its chat's scope or in its user's. *)
LEMMA KeptIs ==
  ASSUME NEW c \in MemoryChats, NEW t, t.user \in Speakers,
         Sanitized(t.said, t.reply) \in Memos, Clean(Sanitized(t.said, t.reply)),
         NEW scope, \/ scope = <<"chat", c>>
                    \/ scope = <<"user", t.user>> /\ t.user # "none"
  PROVE  LET row == Kept(scope, c, t)
         IN  row \in MemoryRows /\ IsOwn(row) /\ Clean(row.text)
<1> DEFINE row == Kept(scope, c, t)
           text == Sanitized(t.said, t.reply)
<1>1. row = [scope |-> scope, text |-> text, chat |-> c, user |-> t.user]
  BY DEF Kept
<1> HIDE DEF row, text
<1>2. scope \in MemoryScopes
  BY DEF MemoryScopes
<1>3. text \in Memos /\ Clean(text)
  BY DEF text
<1>4. row \in MemoryRows
  BY <1>1, <1>2, <1>3 DEF MemoryRows
<1>5. IsOwn(row)
  BY <1>1 DEF IsOwn
<1>6. Clean(row.text)
  BY <1>1, <1>3
<1> QED BY <1>4, <1>5, <1>6 DEF row

(* A scope's best rows. *)
LEMMA RetrieveIs ==
  ASSUME rows \in Seq(MemoryRows), NEW scope, NEW question \in Words
  PROVE  LET results == Retrieve(scope, question)
         IN  /\ results \in Seq(Results)
             /\ \A k \in 1..Len(results) : \E i \in 1..Len(rows) :
                  /\ rows[i].scope = scope
                  /\ results[k].chat = rows[i].chat /\ results[k].user = rows[i].user
             /\ (\A i \in 1..Len(rows) : rows[i].scope # scope) => results = <<>>
<1> DEFINE score == [i \in DOMAIN rows |-> Similar(question, rows[i].text)]
           near == {i \in ListByScope(scope) : score[i] >= Threshold}
           R == {p \in near \X near :
                   \/ score[p[1]] > score[p[2]]
                   \/ score[p[1]] = score[p[2]] /\ p[1] > p[2]}
           ranked == InOrder(near, R)
           most == Least(TopK, Cardinality(near))
           result == [i \in near |-> [text |-> rows[i].text, chat |-> rows[i].chat,
                                      user |-> rows[i].user, score |-> score[i]]]
           results == Retrieve(scope, question)
<1>1. /\ Len(rows) \in Nat /\ DOMAIN rows = 1..Len(rows)
      /\ \A i \in 1..Len(rows) : rows[i] \in MemoryRows
  BY LenProperties, ElementOfSeq
<1>2. \A i \in 1..Len(rows) : /\ rows[i].text \in Memos /\ rows[i].chat \in MemoryChats
                              /\ rows[i].user \in Speakers
  BY <1>1 DEF MemoryRows
<1>3. \A i \in 1..Len(rows) : score[i] \in Nat
  <2> SUFFICES ASSUME NEW i \in 1..Len(rows) PROVE score[i] \in Nat
    OBVIOUS
  <2>1. Similar(question, rows[i].text) \in Nat
    BY <1>2, MemoryAssumption
  <2> QED BY <2>1, <1>1
<1>4. near \subseteq 1..Len(rows) /\ \A i \in near : rows[i].scope = scope
  BY <1>1 DEF ListByScope
<1>5. IsFiniteSet(near)
  <2>1. 1 \in Int /\ Len(rows) \in Int
    BY <1>1
  <2>2. IsFiniteSet(1..Len(rows))
    BY <2>1, FS_Interval
  <2> HIDE DEF near
  <2> QED BY <2>2, <1>4, FS_Subset
<1> HIDE DEF score
<1>6. Orders(R, near)
  <2>1. \A i \in near : score[i] \in Nat /\ i \in Nat
    BY <1>1, <1>3, <1>4
  <2>2. \A i, j \in near : <<i, j>> \in R <=> score[i] > score[j] \/ (score[i] = score[j] /\ i > j)
    <3> HIDE DEF near
    <3> QED OBVIOUS
  <2> HIDE DEF near, R
  <2>3. \A x, y \in near : x # y => <<x, y>> \in R \/ <<y, x>> \in R
    BY <2>1, <2>2
  <2>4. \A x \in near : <<x, x>> \notin R
    BY <2>1, <2>2
  <2>5. \A x, y, z \in near : <<x, y>> \in R /\ <<y, z>> \in R => <<x, z>> \in R
    BY <2>1, <2>2
  <2> QED BY <2>3, <2>4, <2>5 DEF Orders
<1>7. results = [k \in 1..most |-> [text |-> rows[ranked[k]].text, chat |-> rows[ranked[k]].chat,
                                    user |-> rows[ranked[k]].user, score |-> score[ranked[k]]]]
  BY DEF Retrieve, score
<1> HIDE DEF near, R
<1>8. Cardinality(near) \in Nat /\ ranked \in [1..Cardinality(near) -> near]
  BY <1>5, <1>6, InOrderSorts
<1>9. most \in Nat /\ \A k \in 1..most : k \in 1..Cardinality(near)
  <2>1. TopK \in Nat
    BY MemoryAssumption
  <2>2. most \in Nat /\ most <= Cardinality(near)
    BY <2>1, <1>8 DEF Least
  <2> HIDE DEF most
  <2> QED BY <2>2, <1>8
<1> HIDE DEF ranked, most, results
<1>10. ASSUME NEW k \in 1..most
       PROVE  /\ ranked[k] \in near /\ ranked[k] \in 1..Len(rows)
              /\ results[k] = [text |-> rows[ranked[k]].text, chat |-> rows[ranked[k]].chat,
                               user |-> rows[ranked[k]].user, score |-> score[ranked[k]]]
  BY <1>4, <1>7, <1>8, <1>9
<1>11. ASSUME NEW k \in 1..most PROVE results[k] \in Results
  <2>1. PICK i \in 1..Len(rows) : i = ranked[k]
    BY <1>10
  <2>2. /\ rows[i].text \in Memos /\ rows[i].chat \in MemoryChats
        /\ rows[i].user \in MemoryUsers \union {"none"} /\ score[i] \in Nat
    BY <1>2, <1>3 DEF Speakers
  <2>3. results[k] = [text |-> rows[i].text, chat |-> rows[i].chat,
                      user |-> rows[i].user, score |-> score[i]]
    BY <2>1, <1>10
  <2> QED BY <2>2, <2>3 DEF Results
<1>12. results \in Seq(Results) /\ Len(results) = most
  <2>1. results \in [1..most -> Results]
    BY <1>7, <1>11
  <2> QED BY <2>1, <1>9, IsASeq
<1>13. ASSUME NEW k \in 1..Len(results)
       PROVE  \E i \in 1..Len(rows) :
                /\ rows[i].scope = scope
                /\ results[k].chat = rows[i].chat /\ results[k].user = rows[i].user
  <2>1. k \in 1..most
    BY <1>12
  <2>2. PICK i \in 1..Len(rows) : i = ranked[k] /\ i \in near
    BY <2>1, <1>10
  <2>3. results[k] = [text |-> rows[i].text, chat |-> rows[i].chat,
                      user |-> rows[i].user, score |-> score[i]]
    BY <2>1, <2>2, <1>10
  <2>4. results[k].chat = rows[i].chat /\ results[k].user = rows[i].user
    BY <2>3
  <2> QED BY <2>2, <2>4, <1>4
<1>14. ASSUME \A i \in 1..Len(rows) : rows[i].scope # scope PROVE results = <<>>
  <2>1. Len(results) = 0
    <3> SUFFICES ASSUME Len(results) # 0 PROVE FALSE
      OBVIOUS
    <3>1. 1 \in 1..Len(results)
      BY <1>9, <1>12
    <3> QED BY <3>1, <1>13, <1>14
  <2> QED BY <2>1, <1>12, EmptySeq
<1> QED BY <1>12, <1>13, <1>14 DEF results

-----------------------------------------------------------------------------
(* The first state. *)

LEMMA NoTurnIs ==
  /\ NoTurn \in TurnStates
  /\ NoTurn.at = "idle" /\ NoTurn.shown = <<>> /\ Len(NoTurn.found) = 0
<1>1. PICK none \in Seq(Results) : none = <<>> /\ Len(none) = 0
  BY EmptySeq
<1>2. NoTurn = [at |-> "idle", user |-> "none", said |-> 0, reply |-> 0, found |-> none, shown |-> none]
  BY <1>1 DEF NoTurn
<1> QED BY <1>1, <1>2 DEF TurnStates, MemoryAt, Speakers

LEMMA MemoryInitIsInv == MemoryInit => MemoryIInv
<1> SUFFICES ASSUME MemoryInit PROVE MemoryIInv
  OBVIOUS
<1>1. PICK turns \in Earlier :
        rows = [i \in 1..2 * Len(turns) |->
                  LET t == turns[(i + 1) \div 2]
                  IN Kept(IF i % 2 = 1 THEN <<"chat", t.chat>> ELSE <<"user", t.user>>, t.chat, t)]
  BY DEF MemoryInit
<1>2. Len(turns) \in Nat
  <2>1. turns \in Seq([chat : MemoryChats, user : MemoryUsers, said : Nat, reply : Nat])
    BY MemoryAssumption
  <2> QED BY <2>1, LenProperties
<1>3. ASSUME NEW i \in 1..2 * Len(turns)
      PROVE  rows[i] \in MemoryRows /\ IsOwn(rows[i]) /\ Clean(rows[i].text)
  <2> DEFINE k == (i + 1) \div 2
             t == turns[k]
             scope == IF i % 2 = 1 THEN <<"chat", t.chat>> ELSE <<"user", t.user>>
  <2>1. k \in 1..Len(turns)
    BY <1>2
  <2>2. rows[i] = Kept(scope, t.chat, t)
    BY <1>1
  <2> HIDE DEF k
  <2>3. /\ t.chat \in MemoryChats /\ t.user \in MemoryUsers
        /\ Sanitized(t.said, t.reply) \in Memos /\ Clean(Sanitized(t.said, t.reply))
    BY <2>1, EarlierOfMemos
  <2>4. t.user \in Speakers /\ t.user # "none"
    BY <2>3, MemoryAssumption DEF Speakers
  <2>5. scope = <<"chat", t.chat>> \/ (scope = <<"user", t.user>> /\ t.user # "none")
    BY <2>4
  <2> HIDE DEF t, scope
  <2>6. LET row == Kept(scope, t.chat, t) IN row \in MemoryRows /\ IsOwn(row) /\ Clean(row.text)
    BY <2>3, <2>4, <2>5, KeptIs
  <2> QED BY <2>2, <2>6
<1>4. rows \in Seq(MemoryRows) /\ Len(rows) = 2 * Len(turns)
  <2>1. 2 * Len(turns) \in Nat
    BY <1>2
  <2>2. rows \in [1..2 * Len(turns) -> MemoryRows]
    BY <1>1, <1>3
  <2> QED BY <2>1, <2>2, IsASeq
<1>5. turn = [c \in MemoryChats |-> NoTurn] /\ today = {}
  BY DEF MemoryInit
<1>6. PICK files \in Seq(Nat) : files = <<>> /\ Len(files) = 0
  BY EmptySeq
<1>7. filesShown \in Seq(Nat) /\ FilesStayShort
  <2>1. filesShown = files /\ Total(filesShown) = 0
    BY <1>6, TotalOfEmpty DEF MemoryInit
  <2>2. 0 <= MostOfFiles
    BY MemoryAssumption DEF MostOfFiles
  <2> QED BY <2>1, <2>2 DEF FilesStayShort
<1>8. MemoryTyped
  BY <1>4, <1>5, <1>7, NoTurnIs DEF MemoryTyped
<1>9. RowsAreOwn /\ NoSecretIsKept
  BY <1>3, <1>4, <1>5 DEF RowsAreOwn, NoSecretIsKept
<1>10. \A c \in MemoryChats : turn[c] = NoTurn
  BY <1>5
<1>11. TurnsSpeak
  BY <1>10, NoTurnIs DEF TurnsSpeak, Storing
<1>12. FoundIsOwn
  BY <1>10, NoTurnIs DEF FoundIsOwn
<1>13. ShownAreLines
  BY <1>10, NoTurnIs DEF ShownAreLines, Searching
<1> QED BY <1>7, <1>8, <1>9, <1>11, <1>12, <1>13 DEF MemoryIInv

-----------------------------------------------------------------------------
(* A step of one chat. *)

(* What the invariant says of a turn. *)
TurnIsFine(c, t) ==
  /\ t \in TurnStates
  /\ t.at # "idle" => t.said \in Words
  /\ t.at \in Storing => t.reply \in Words
  /\ t.at \in {"user", "storeUser"} => t.user # "none"
  /\ \A i \in 1..Len(t.found) : FoundFor(t.found[i], c, t.user)
  /\ t.shown = IF t.at \in Searching THEN <<>> ELSE Lines(t.found)

LEMMA TurnOfInv ==
  ASSUME MemoryIInv, NEW c \in MemoryChats
  PROVE  TurnIsFine(c, turn[c])
BY DEF MemoryIInv, MemoryTyped, TurnsSpeak, FoundIsOwn, ShownAreLines, TurnIsFine

(* One turn changes, and rows are as they were or one more. *)
LEMMA OneTurnChanges ==
  ASSUME MemoryIInv, NEW c \in MemoryChats, NEW t, TurnIsFine(c, t),
         turn' = [turn EXCEPT ![c] = t],
         rows' \in Seq(MemoryRows), RowsAreOwn', NoSecretIsKept',
         filesShown' \in Seq(Nat), FilesStayShort'
  PROVE  MemoryIInv'
<1>1. turn' \in [MemoryChats -> TurnStates]
  BY DEF MemoryIInv, MemoryTyped, TurnIsFine
<1>2. ASSUME NEW d \in MemoryChats PROVE TurnIsFine(d, turn'[d])
  <2>1. CASE d = c
    <3>1. turn'[d] = t
      BY <2>1 DEF MemoryIInv, MemoryTyped
    <3> QED BY <2>1, <3>1
  <2>2. CASE d # c
    <3>1. turn'[d] = turn[d]
      BY <2>2 DEF MemoryIInv, MemoryTyped
    <3> QED BY <3>1, TurnOfInv
  <2> QED BY <2>1, <2>2
<1>3. MemoryTyped'
  BY <1>1 DEF MemoryTyped
<1>4. TurnsSpeak'
  BY <1>2 DEF TurnIsFine, TurnsSpeak
<1>5. FoundIsOwn'
  BY <1>2 DEF TurnIsFine, FoundIsOwn
<1>6. ShownAreLines'
  BY <1>2 DEF TurnIsFine, ShownAreLines
<1> QED BY <1>3, <1>4, <1>5, <1>6 DEF MemoryIInv

(* The same, when nothing is stored. *)
LEMMA TurnAlone ==
  ASSUME MemoryIInv, NEW c \in MemoryChats, NEW t, TurnIsFine(c, t),
         turn' = [turn EXCEPT ![c] = t], UNCHANGED <<rows, today>>,
         filesShown' \in Seq(Nat), FilesStayShort'
  PROVE  MemoryIInv'
<1>1. rows' \in Seq(MemoryRows)
  BY DEF MemoryIInv, MemoryTyped
<1>2. RowsAreOwn'
  BY DEF MemoryIInv, RowsAreOwn
<1>3. NoSecretIsKept'
  BY DEF MemoryIInv, NoSecretIsKept
<1> QED BY <1>1, <1>2, <1>3, OneTurnChanges

LEMMA FilesAsBefore ==
  ASSUME MemoryIInv, filesShown' = filesShown
  PROVE  filesShown' \in Seq(Nat) /\ FilesStayShort'
BY DEF MemoryIInv, MemoryTyped, FilesStayShort

LEMMA NoFiles ==
  ASSUME filesShown' = <<>>
  PROVE  filesShown' \in Seq(Nat) /\ FilesStayShort'
<1>1. <<>> \in Seq(Nat) /\ Total(<<>>) = 0
  BY EmptySeq, TotalOfEmpty
<1>2. Total(filesShown') = 0
  BY <1>1
<1>3. 0 <= MostOfFiles
  BY MemoryAssumption DEF MostOfFiles
<1> QED BY <1>1, <1>2, <1>3 DEF FilesStayShort

LEMMA BuildContextKeeps ==
  ASSUME MemoryIInv, NEW c \in MemoryChats, BuildContext(c)
  PROVE  MemoryIInv'
<1>1. PICK user \in MemoryUsers \union {"none"}, said \in Words :
        turn' = [turn EXCEPT ![c] = [NoTurn EXCEPT !.at = "chat", !.user = user, !.said = said]]
  BY DEF BuildContext
<1> DEFINE t == [NoTurn EXCEPT !.at = "chat", !.user = user, !.said = said]
<1>2. /\ t \in TurnStates /\ t.at = "chat" /\ t.user = user /\ t.said = said
      /\ t.shown = <<>> /\ Len(t.found) = 0
  <2>1. /\ NoTurn \in TurnStates /\ NoTurn.shown = <<>> /\ Len(NoTurn.found) = 0
    BY NoTurnIs
  <2>2. t.found = NoTurn.found /\ t.shown = NoTurn.shown
    BY DEF NoTurn
  <2>3. t.at = "chat" /\ t.user = user /\ t.said = said
    BY DEF NoTurn
  <2>4. t \in TurnStates
    BY <2>1 DEF TurnStates, MemoryAt, Speakers
  <2> HIDE DEF t
  <2> QED BY <2>1, <2>2, <2>3, <2>4
<1> HIDE DEF t
<1>3. TurnIsFine(c, t)
  BY <1>2 DEF TurnIsFine, Storing, Searching
<1>4. PICK index \in Indexes \union {<<>>} :
        filesShown' = IF index = <<>> THEN <<>> ELSE FileLines(index)
  BY DEF BuildContext
<1>5. filesShown' \in Seq(Nat) /\ FilesStayShort'
  <2>1. CASE index = <<>>
    BY <2>1, <1>4, NoFiles
  <2>2. CASE index # <<>>
    <3>1. index \in Seq(Nat)
      BY <2>2, MemoryAssumption
    <3>2. FileLines(index) \in Seq(Nat) /\ Total(FileLines(index)) <= MostOfFiles
      BY <2>2, <3>1, FilesAreShort
    <3>3. filesShown' = FileLines(index)
      BY <2>2, <1>4
    <3> QED BY <3>2, <3>3 DEF FilesStayShort
  <2> QED BY <2>1, <2>2
<1>6. UNCHANGED <<rows, today>>
  BY DEF BuildContext
<1>7. turn' = [turn EXCEPT ![c] = t]
  BY <1>1 DEF t
<1> QED BY <1>3, <1>5, <1>6, <1>7, TurnAlone

(* What one scope gives is the turn's own. *)
LEMMA SearchScopeKeeps ==
  ASSUME MemoryIInv, NEW c \in MemoryChats, NEW kind, NEW id, NEW next,
         SearchScope(c, kind, id, next),
         \/ kind = "chat" /\ id = c
         \/ kind = "user" /\ id = turn[c].user /\ id # "none",
         next \in {"user", "agent"}, next = "user" => turn[c].user # "none"
  PROVE  MemoryIInv'
<1> DEFINE old == turn[c]
<1>1. TurnIsFine(c, old) /\ turn \in [MemoryChats -> TurnStates] /\ rows \in Seq(MemoryRows)
  BY TurnOfInv DEF MemoryIInv, MemoryTyped
<1>2. PICK results \in {<<>>, Retrieve(<<kind, id>>, old.said)} :
        turn' = [turn EXCEPT ![c].found = @ \o results, ![c].at = next]
  BY DEF SearchScope
<1>3. old.at = kind /\ filesShown' = <<>> /\ UNCHANGED <<rows, today>>
  BY DEF SearchScope
<1>4. old.said \in Words /\ old \in TurnStates /\ old.found \in Seq(Results)
  BY <1>1, <1>3 DEF TurnIsFine, TurnStates
<1>5. /\ results \in Seq(Results)
      /\ \A k \in 1..Len(results) : FoundFor(results[k], c, old.user)
  <2>1. CASE results = <<>>
    <3>1. results \in Seq(Results) /\ Len(results) = 0
      BY <2>1, EmptySeq
    <3> QED BY <3>1
  <2>2. CASE results = Retrieve(<<kind, id>>, old.said)
    <3> DEFINE scope == <<kind, id>>
    <3>1. /\ results \in Seq(Results)
          /\ \A k \in 1..Len(results) : \E i \in 1..Len(rows) :
               /\ rows[i].scope = scope
               /\ results[k].chat = rows[i].chat /\ results[k].user = rows[i].user
      <4> HIDE DEF scope, old
      <4>1. LET rs == Retrieve(scope, old.said)
            IN  /\ rs \in Seq(Results)
                /\ \A k \in 1..Len(rs) : \E i \in 1..Len(rows) :
                     /\ rows[i].scope = scope
                     /\ rs[k].chat = rows[i].chat /\ rs[k].user = rows[i].user
        BY <1>1, <1>4, RetrieveIs
      <4> QED BY <4>1, <2>2 DEF scope, old
    <3>2. ASSUME NEW k \in 1..Len(results) PROVE FoundFor(results[k], c, old.user)
      <4>1. PICK i \in 1..Len(rows) :
              /\ rows[i].scope = <<kind, id>>
              /\ results[k].chat = rows[i].chat /\ results[k].user = rows[i].user
        BY <3>1
      <4>2. IsOwn(rows[i])
        BY DEF MemoryIInv, RowsAreOwn
      <4>3. CASE kind = "chat" /\ id = c
        <5>1. rows[i].chat = c
          BY <4>1, <4>2, <4>3 DEF IsOwn
        <5> QED BY <4>1, <5>1 DEF FoundFor
      <4>4. CASE kind = "user" /\ id = turn[c].user /\ id # "none"
        <5>1. rows[i].user = old.user /\ rows[i].user # "none"
          BY <4>1, <4>2, <4>4 DEF IsOwn
        <5> QED BY <4>1, <5>1 DEF FoundFor
      <4> QED BY <4>3, <4>4
    <3> QED BY <3>1, <3>2
  <2> QED BY <2>1, <2>2
<1> DEFINE both == old.found \o results
           t == [old EXCEPT !.found = both, !.at = next]
<1>6. /\ both \in Seq(Results) /\ Len(both) = Len(old.found) + Len(results)
      /\ \A i \in 1..Len(old.found) + Len(results) :
           both[i] = IF i <= Len(old.found) THEN old.found[i] ELSE results[i - Len(old.found)]
  <2> DEFINE found == old.found
  <2>1. found \in Seq(Results)
    BY <1>4
  <2> HIDE DEF found
  <2>2. /\ found \o results \in Seq(Results) /\ Len(found \o results) = Len(found) + Len(results)
        /\ \A i \in 1..Len(found) + Len(results) :
             (found \o results)[i] = IF i <= Len(found) THEN found[i] ELSE results[i - Len(found)]
    BY <2>1, <1>5, ConcatProperties
  <2> QED BY <2>2 DEF found
<1>7. Len(old.found) \in Nat /\ Len(results) \in Nat
  BY <1>4, <1>5, LenProperties
<1>8. ASSUME NEW i \in 1..Len(both) PROVE FoundFor(both[i], c, old.user)
  <2> HIDE DEF both, old
  <2>1. CASE i <= Len(old.found)
    <3>1. i \in 1..Len(old.found) /\ both[i] = old.found[i]
      BY <2>1, <1>6, <1>7
    <3> QED BY <3>1, <1>1 DEF TurnIsFine
  <2>2. CASE ~(i <= Len(old.found))
    <3>1. i - Len(old.found) \in 1..Len(results) /\ both[i] = results[i - Len(old.found)]
      BY <2>2, <1>6, <1>7
    <3> QED BY <3>1, <1>5
  <2> QED BY <2>1, <2>2
<1>9. turn' = [turn EXCEPT ![c] = t]
  BY <1>1, <1>2
<1>10. /\ t \in TurnStates /\ t.at = next /\ t.found = both
       /\ t.user = old.user /\ t.said = old.said /\ t.shown = old.shown
  <2> HIDE DEF both, old
  <2> QED BY <1>4, <1>6 DEF TurnStates, MemoryAt
<1>11. old.shown = <<>>
  <2>1. old.at \in Searching
    BY <1>3 DEF Searching
  <2> QED BY <2>1, <1>1 DEF TurnIsFine
<1> HIDE DEF t, both
<1>12. TurnIsFine(c, t)
  BY <1>4, <1>8, <1>10, <1>11 DEF TurnIsFine, Storing, Searching
<1>13. filesShown' \in Seq(Nat) /\ FilesStayShort'
  BY <1>3, NoFiles
<1> QED BY <1>3, <1>9, <1>12, <1>13, TurnAlone

LEMMA SearchAgentKeeps ==
  ASSUME MemoryIInv, NEW c \in MemoryChats, SearchAgentAndShow(c)
  PROVE  MemoryIInv'
<1> DEFINE old == turn[c]
           t == [old EXCEPT !.shown = Lines(old.found), !.at = "ask"]
<1>1. TurnIsFine(c, old) /\ turn \in [MemoryChats -> TurnStates] /\ rows \in Seq(MemoryRows)
  BY TurnOfInv DEF MemoryIInv, MemoryTyped
<1>2. old.at = "agent" /\ UNCHANGED <<rows, today>> /\ filesShown' = filesShown
  BY DEF SearchAgentAndShow
<1>3. old.said \in Words /\ old \in TurnStates /\ old.found \in Seq(Results)
  BY <1>1, <1>2 DEF TurnIsFine, TurnStates
<1>4. Retrieve(<<"agent", c>>, old.said) = <<>>
  <2> DEFINE scope == <<"agent", c>>
  <2>1. ASSUME NEW i \in 1..Len(rows) PROVE rows[i].scope # scope
    <3>1. IsOwn(rows[i])
      BY DEF MemoryIInv, RowsAreOwn
    <3> QED BY <3>1 DEF IsOwn
  <2> HIDE DEF scope, old
  <2> QED BY <2>1, <1>1, <1>3, RetrieveIs DEF scope
<1>5. old.found \o <<>> = old.found
  <2> DEFINE found == old.found
  <2>1. found \in Seq(Results)
    BY <1>3
  <2> HIDE DEF found
  <2>2. found \o <<>> = found
    BY <2>1, ConcatEmptySeq
  <2> QED BY <2>2 DEF found
<1>6. turn' = [turn EXCEPT ![c] = t]
  <2>1. turn' = [turn EXCEPT ![c].shown = Lines(old.found \o Retrieve(<<"agent", c>>, old.said)),
                             ![c].at = "ask"]
    BY DEF SearchAgentAndShow
  <2>2. Lines(old.found \o Retrieve(<<"agent", c>>, old.said)) = Lines(old.found)
    BY <1>4, <1>5
  <2>3. turn' = [turn EXCEPT ![c].shown = Lines(old.found), ![c].at = "ask"]
    BY <2>1, <2>2
  <2> QED BY <1>1, <2>3
<1>7. Lines(old.found) \in Seq(Results)
  BY <1>3, LinesOfFound
<1>8. /\ t \in TurnStates /\ t.at = "ask" /\ t.found = old.found
      /\ t.user = old.user /\ t.said = old.said /\ t.shown = Lines(old.found)
  <2> HIDE DEF old
  <2> QED BY <1>3, <1>7 DEF TurnStates, MemoryAt
<1> HIDE DEF t
<1>9. TurnIsFine(c, t)
  BY <1>1, <1>3, <1>8 DEF TurnIsFine, Storing, Searching
<1>10. filesShown' \in Seq(Nat) /\ FilesStayShort'
  BY <1>2, FilesAsBefore
<1> QED BY <1>2, <1>6, <1>9, <1>10, TurnAlone

LEMMA AnswerKeeps ==
  ASSUME MemoryIInv, NEW c \in MemoryChats, Answer(c)
  PROVE  MemoryIInv'
<1> DEFINE old == turn[c]
<1>1. TurnIsFine(c, old) /\ turn \in [MemoryChats -> TurnStates]
  BY TurnOfInv DEF MemoryIInv, MemoryTyped
<1>2. old.at = "ask" /\ UNCHANGED <<rows, today>> /\ filesShown' = filesShown
  BY DEF Answer
<1>3. old \in TurnStates /\ old.said \in Words /\ old.shown = Lines(old.found)
  <2> HIDE DEF old
  <2>1. old \in TurnStates
    BY <1>1 DEF TurnIsFine
  <2>2. old.said \in Words
    BY <1>1, <1>2 DEF TurnIsFine
  <2>3. old.at \notin Searching
    BY <1>2 DEF Searching
  <2>4. old.shown = Lines(old.found)
    <3>1. old.shown = IF old.at \in Searching THEN <<>> ELSE Lines(old.found)
      BY <1>1 DEF TurnIsFine
    <3> QED BY <3>1, <2>3
  <2> QED BY <2>1, <2>2, <2>4
<1>4. PICK answer \in Words \union {0}, place \in {"done", "storeChat"} :
        /\ turn' = [turn EXCEPT ![c] = [old EXCEPT !.reply = answer, !.at = place]]
        /\ place = "storeChat" => answer \in Words
  <2>1. CASE \E answer \in Words :
               turn' = [turn EXCEPT ![c].reply = answer,
                          ![c].at = IF turn[c].said = 0 /\ answer = 0 THEN "done" ELSE "storeChat"]
    <3>1. PICK answer \in Words :
               turn' = [turn EXCEPT ![c].reply = answer,
                          ![c].at = IF turn[c].said = 0 /\ answer = 0 THEN "done" ELSE "storeChat"]
      BY <2>1
    <3> DEFINE place == IF turn[c].said = 0 /\ answer = 0 THEN "done" ELSE "storeChat"
    <3>2. place \in {"done", "storeChat"}
      OBVIOUS
    <3>3. turn' = [turn EXCEPT ![c] = [old EXCEPT !.reply = answer, !.at = place]]
      <4>1. turn' = [turn EXCEPT ![c].reply = answer, ![c].at = place]
        BY <3>1
      <4> HIDE DEF place
      <4> QED BY <4>1, <1>1
    <3> HIDE DEF place
    <3> QED BY <3>2, <3>3
  <2>2. CASE turn' = [turn EXCEPT ![c].at = "done"]
    <3>1. old.reply \in Words \union {0}
      BY <1>3 DEF TurnStates
    <3>2. turn' = [turn EXCEPT ![c] = [old EXCEPT !.reply = old.reply, !.at = "done"]]
      <4>1. [old EXCEPT !.reply = old.reply, !.at = "done"] = [old EXCEPT !.at = "done"]
        BY <1>3 DEF TurnStates
      <4>2. turn' = [turn EXCEPT ![c] = [old EXCEPT !.at = "done"]]
        BY <2>2, <1>1
      <4> QED BY <4>1, <4>2
    <3> QED BY <3>1, <3>2
  <2> QED BY <2>1, <2>2 DEF Answer
<1> DEFINE t == [old EXCEPT !.reply = answer, !.at = place]
<1>5. /\ t \in TurnStates /\ t.at = place /\ t.reply = answer /\ t.found = old.found
      /\ t.user = old.user /\ t.said = old.said /\ t.shown = old.shown
  <2> HIDE DEF old
  <2> QED BY <1>3, <1>4 DEF TurnStates, MemoryAt
<1>6. turn' = [turn EXCEPT ![c] = t]
  BY <1>4
<1> HIDE DEF t
<1>7. TurnIsFine(c, t)
  BY <1>1, <1>3, <1>4, <1>5 DEF TurnIsFine, Storing, Searching
<1> QED BY <1>2, <1>6, <1>7, FilesAsBefore, TurnAlone

(* A turn goes on to what comes next, with all that it has. *)
LEMMA GoesOn ==
  ASSUME NEW c, NEW t, TurnIsFine(c, t), t.at \in Storing,
         NEW next \in {"storeUser", "file", "done"}, next = "storeUser" => t.user # "none"
  PROVE  TurnIsFine(c, [t EXCEPT !.at = next])
<1> DEFINE new == [t EXCEPT !.at = next]
<1>1. t \in TurnStates /\ t.said \in Words /\ t.reply \in Words /\ t.shown = Lines(t.found)
  BY DEF TurnIsFine, Storing, Searching
<1>2. /\ new \in TurnStates /\ new.at = next /\ new.reply = t.reply /\ new.found = t.found
      /\ new.user = t.user /\ new.said = t.said /\ new.shown = t.shown
  BY <1>1 DEF TurnStates, MemoryAt
<1> HIDE DEF new
<1>3. TurnIsFine(c, new)
  BY <1>1, <1>2 DEF TurnIsFine, Storing, Searching
<1> QED BY <1>3 DEF new

(* A row is stored, or is not. *)
LEMMA OneMoreRow ==
  ASSUME MemoryIInv, NEW row, row \in MemoryRows, IsOwn(row), Clean(row.text),
         rows' \in {rows, Append(rows, row)}, today' = today
  PROVE  rows' \in Seq(MemoryRows) /\ RowsAreOwn' /\ NoSecretIsKept'
<1>1. rows \in Seq(MemoryRows) /\ Len(rows) \in Nat
  <2>1. rows \in Seq(MemoryRows)
    BY DEF MemoryIInv, MemoryTyped
  <2> QED BY <2>1, LenProperties
<1>2. \A i \in 1..Len(rows) : IsOwn(rows[i]) /\ Clean(rows[i].text)
  BY DEF MemoryIInv, RowsAreOwn, NoSecretIsKept
<1>3. \A text \in today : Clean(text)
  BY DEF MemoryIInv, NoSecretIsKept
<1>4. CASE rows' = rows
  BY <1>1, <1>2, <1>3, <1>4 DEF RowsAreOwn, NoSecretIsKept
<1>5. CASE rows' = Append(rows, row)
  <2>1. /\ rows' \in Seq(MemoryRows) /\ Len(rows') = Len(rows) + 1
        /\ rows'[Len(rows) + 1] = row /\ \A i \in 1..Len(rows) : rows'[i] = rows[i]
    BY <1>1, <1>5, AppendProperties
  <2>2. ASSUME NEW i \in 1..Len(rows') PROVE IsOwn(rows'[i]) /\ Clean(rows'[i].text)
    <3>1. i \in 1..Len(rows) \/ i = Len(rows) + 1
      BY <1>1, <2>1
    <3>2. CASE i \in 1..Len(rows)
      BY <3>2, <2>1, <1>2
    <3>3. CASE i = Len(rows) + 1
      BY <3>3, <2>1
    <3> QED BY <3>1, <3>2, <3>3
  <2> QED BY <2>1, <2>2, <1>3 DEF RowsAreOwn, NoSecretIsKept
<1> QED BY <1>4, <1>5

LEMMA StoreInChatKeeps ==
  ASSUME MemoryIInv, NEW c \in MemoryChats, StoreInChat(c)
  PROVE  MemoryIInv'
<1> DEFINE old == turn[c]
           next == IF old.user = "none" THEN "file" ELSE "storeUser"
           row == Kept(<<"chat", c>>, c, old)
           t == [old EXCEPT !.at = next]
<1>1. TurnIsFine(c, old) /\ turn \in [MemoryChats -> TurnStates]
  BY TurnOfInv DEF MemoryIInv, MemoryTyped
<1>2. /\ old.at \in Storing /\ rows' \in {rows, Append(rows, row)}
      /\ turn' = [turn EXCEPT ![c].at = next]
      /\ today' = today /\ filesShown' = filesShown
  BY DEF StoreInChat, Storing
<1>3. old.said \in Words /\ old.reply \in Words /\ old.user \in Speakers
  BY <1>1, <1>2 DEF TurnIsFine, TurnStates, Storing
<1>4. Sanitized(old.said, old.reply) \in Memos /\ Clean(Sanitized(old.said, old.reply))
  BY <1>3, WordsOfMemos
<1>5. row \in MemoryRows /\ IsOwn(row) /\ Clean(row.text)
  <2> DEFINE scope == <<"chat", c>>
  <2>1. scope = <<"chat", c>>
    OBVIOUS
  <2> HIDE DEF old, scope
  <2>2. LET r == Kept(scope, c, old) IN r \in MemoryRows /\ IsOwn(r) /\ Clean(r.text)
    BY <2>1, <1>3, <1>4, KeptIs
  <2> QED BY <2>2 DEF scope, old
<1>6. turn' = [turn EXCEPT ![c] = t]
  <2> HIDE DEF next
  <2> QED BY <1>1, <1>2
<1>7. TurnIsFine(c, t)
  <2>1. next \in {"storeUser", "file", "done"} /\ (next = "storeUser" => old.user # "none")
    OBVIOUS
  <2> HIDE DEF next, old
  <2> QED BY <2>1, <1>1, <1>2, GoesOn
<1> HIDE DEF row, t
<1>8. rows' \in Seq(MemoryRows) /\ RowsAreOwn' /\ NoSecretIsKept'
  BY <1>2, <1>5, OneMoreRow
<1>9. filesShown' \in Seq(Nat) /\ FilesStayShort'
  BY <1>2, FilesAsBefore
<1> QED BY <1>6, <1>7, <1>8, <1>9, OneTurnChanges

LEMMA StoreForUserKeeps ==
  ASSUME MemoryIInv, NEW c \in MemoryChats, StoreForUser(c)
  PROVE  MemoryIInv'
<1> DEFINE old == turn[c]
           row == Kept(<<"user", old.user>>, c, old)
           t == [old EXCEPT !.at = "file"]
<1>1. TurnIsFine(c, old) /\ turn \in [MemoryChats -> TurnStates]
  BY TurnOfInv DEF MemoryIInv, MemoryTyped
<1>2. /\ old.at = "storeUser" /\ old.at \in Storing /\ rows' \in {rows, Append(rows, row)}
      /\ turn' = [turn EXCEPT ![c].at = "file"]
      /\ today' = today /\ filesShown' = filesShown
  BY DEF StoreForUser, Storing
<1>3. old.said \in Words /\ old.reply \in Words /\ old.user \in Speakers /\ old.user # "none"
  BY <1>1, <1>2 DEF TurnIsFine, TurnStates, Storing
<1>4. Sanitized(old.said, old.reply) \in Memos /\ Clean(Sanitized(old.said, old.reply))
  BY <1>3, WordsOfMemos
<1>5. row \in MemoryRows /\ IsOwn(row) /\ Clean(row.text)
  <2> DEFINE scope == <<"user", old.user>>
  <2>1. scope = <<"user", old.user>>
    OBVIOUS
  <2> HIDE DEF old, scope
  <2>2. LET r == Kept(scope, c, old) IN r \in MemoryRows /\ IsOwn(r) /\ Clean(r.text)
    BY <2>1, <1>3, <1>4, KeptIs
  <2> QED BY <2>2 DEF scope, old
<1>6. turn' = [turn EXCEPT ![c] = t]
  BY <1>1, <1>2
<1>7. TurnIsFine(c, t)
  <2> HIDE DEF old
  <2> QED BY <1>1, <1>2, GoesOn
<1> HIDE DEF row, t
<1>8. rows' \in Seq(MemoryRows) /\ RowsAreOwn' /\ NoSecretIsKept'
  BY <1>2, <1>5, OneMoreRow
<1>9. filesShown' \in Seq(Nat) /\ FilesStayShort'
  BY <1>2, FilesAsBefore
<1> QED BY <1>6, <1>7, <1>8, <1>9, OneTurnChanges

LEMMA AppendTodayKeeps ==
  ASSUME MemoryIInv, NEW c \in MemoryChats, AppendToday(c)
  PROVE  MemoryIInv'
<1> DEFINE old == turn[c]
           text == Sanitized(old.said, old.reply)
           t == [old EXCEPT !.at = "done"]
<1>1. TurnIsFine(c, old) /\ turn \in [MemoryChats -> TurnStates] /\ rows \in Seq(MemoryRows)
  BY TurnOfInv DEF MemoryIInv, MemoryTyped
<1>2. /\ old.at \in Storing /\ today' = today \union {text}
      /\ turn' = [turn EXCEPT ![c].at = "done"]
      /\ rows' = rows /\ filesShown' = filesShown
  BY DEF AppendToday, Storing
<1>3. old.said \in Words /\ old.reply \in Words
  BY <1>1, <1>2 DEF TurnIsFine, Storing
<1>4. Clean(text)
  BY <1>3, WordsOfMemos
<1>5. turn' = [turn EXCEPT ![c] = t]
  BY <1>1, <1>2
<1>6. TurnIsFine(c, t)
  <2> HIDE DEF old
  <2> QED BY <1>1, <1>2, GoesOn
<1> HIDE DEF t, text
<1>7. RowsAreOwn'
  BY <1>2 DEF MemoryIInv, RowsAreOwn
<1>8. NoSecretIsKept'
  BY <1>2, <1>4 DEF MemoryIInv, NoSecretIsKept
<1>9. filesShown' \in Seq(Nat) /\ FilesStayShort'
  BY <1>2, FilesAsBefore
<1> QED BY <1>1, <1>2, <1>5, <1>6, <1>7, <1>8, <1>9, OneTurnChanges

LEMMA TurnOverKeeps ==
  ASSUME MemoryIInv, NEW c \in MemoryChats, TurnOver(c)
  PROVE  MemoryIInv'
<1>1. TurnIsFine(c, NoTurn)
  BY NoTurnIs DEF TurnIsFine, Storing, Searching
<1>2. turn' = [turn EXCEPT ![c] = NoTurn] /\ UNCHANGED <<rows, today>> /\ filesShown' = filesShown
  BY DEF TurnOver
<1> QED BY <1>1, <1>2, FilesAsBefore, TurnAlone

LEMMA MemoryStepKeeps == MemoryIInv /\ [MemoryNext]_memoryVars => MemoryIInv'
<1> SUFFICES ASSUME MemoryIInv, [MemoryNext]_memoryVars PROVE MemoryIInv'
  OBVIOUS
<1>1. CASE UNCHANGED memoryVars
  BY <1>1 DEF memoryVars, MemoryIInv, MemoryTyped, RowsAreOwn, NoSecretIsKept, TurnsSpeak,
              FoundIsOwn, ShownAreLines, FilesStayShort
<1>2. ASSUME NEW c \in MemoryChats, BuildContext(c) PROVE MemoryIInv'
  BY <1>2, BuildContextKeeps
<1>3. ASSUME NEW c \in MemoryChats, SearchChat(c) PROVE MemoryIInv'
  <2> DEFINE next == IF turn[c].user = "none" THEN "agent" ELSE "user"
  <2>1. SearchScope(c, "chat", c, next)
    BY <1>3 DEF SearchChat
  <2>2. next \in {"user", "agent"} /\ (next = "user" => turn[c].user # "none")
    OBVIOUS
  <2> HIDE DEF next
  <2> QED BY <2>1, <2>2, SearchScopeKeeps
<1>4. ASSUME NEW c \in MemoryChats, SearchUser(c) PROVE MemoryIInv'
  <2> DEFINE id == turn[c].user
  <2>1. SearchScope(c, "user", id, "agent")
    BY <1>4 DEF SearchUser
  <2>2. turn[c].at = "user"
    BY <2>1 DEF SearchScope
  <2>3. id # "none"
    BY <2>2, TurnOfInv DEF TurnIsFine
  <2> QED BY <2>1, <2>3, SearchScopeKeeps
<1>5. ASSUME NEW c \in MemoryChats, SearchAgentAndShow(c) PROVE MemoryIInv'
  BY <1>5, SearchAgentKeeps
<1>6. ASSUME NEW c \in MemoryChats, Answer(c) PROVE MemoryIInv'
  BY <1>6, AnswerKeeps
<1>7. ASSUME NEW c \in MemoryChats, StoreInChat(c) PROVE MemoryIInv'
  BY <1>7, StoreInChatKeeps
<1>8. ASSUME NEW c \in MemoryChats, StoreForUser(c) PROVE MemoryIInv'
  BY <1>8, StoreForUserKeeps
<1>9. ASSUME NEW c \in MemoryChats, AppendToday(c) PROVE MemoryIInv'
  BY <1>9, AppendTodayKeeps
<1>10. ASSUME NEW c \in MemoryChats, TurnOver(c) PROVE MemoryIInv'
  BY <1>10, TurnOverKeeps
<1> QED BY <1>1, <1>2, <1>3, <1>4, <1>5, <1>6, <1>7, <1>8, <1>9, <1>10 DEF MemoryNext

LEMMA MemoryIInvImplies == MemoryIInv => MemoryInv
<1> SUFFICES ASSUME MemoryIInv PROVE MemoryInv
  OBVIOUS
<1>1. ASSUME NEW c \in MemoryChats
      PROVE  /\ TurnIsFine(c, turn[c]) /\ turn[c].found \in Seq(Results)
             /\ turn[c].at \in Searching => turn[c].shown = <<>>
             /\ turn[c].at \notin Searching => turn[c].shown = Lines(turn[c].found)
             /\ turn[c].shown \in Seq(Results)
  BY TurnOfInv DEF TurnIsFine, TurnStates
<1>2. ASSUME NEW c \in MemoryChats
      PROVE  LET lines == turn[c].shown
             IN  /\ Len(lines) <= TopK
                 /\ Cardinality(TextsOf(lines)) = Len(lines)
                 /\ Total(LengthsOf(lines)) <= MaxTotal
                 /\ \A i \in 1..Len(lines) : \E k \in 1..Len(turn[c].found) : lines[i] = turn[c].found[k]
  <2>1. CASE turn[c].at \in Searching
    <3>1. PICK none \in Seq(Results) : none = NoLines.lines /\ none = <<>> /\ Len(none) = 0
      BY EmptySeq DEF NoLines
    <3> DEFINE nothing == turn[c].found
    <3>2. ShownSoFar(nothing, NoLines, 0)
      <4>1. nothing \in Seq(Results)
        BY <1>1
      <4> HIDE DEF nothing
      <4> QED BY <4>1, NoLinesSoFar
    <3>3. /\ Cardinality(TextsOf(none)) = Len(none)
          /\ Total(LengthsOf(none)) = NoLines.total /\ NoLines.total <= MaxTotal
      BY <3>1, <3>2 DEF ShownSoFar
    <3>4. 1..Len(none) = {} /\ Len(none) <= TopK
      BY <3>1, MemoryAssumption
    <3>5. turn[c].shown = none
      BY <2>1, <3>1, <1>1
    <3> QED BY <3>3, <3>4, <3>5
  <2>2. CASE turn[c].at \notin Searching
    <3> DEFINE found == turn[c].found
    <3>1. found \in Seq(Results) /\ turn[c].shown = Lines(found)
      BY <2>2, <1>1
    <3> HIDE DEF found
    <3> DEFINE lines == Lines(found)
    <3>2. /\ Len(lines) <= TopK /\ Cardinality(TextsOf(lines)) = Len(lines)
          /\ Total(LengthsOf(lines)) <= MaxTotal
          /\ \A i \in 1..Len(lines) : \E k \in 1..Len(found) : lines[i] = found[k]
      BY <3>1, LinesOfFound
    <3>3. lines = turn[c].shown
      BY <3>1
    <3> HIDE DEF lines
    <3> QED BY <3>2, <3>3 DEF found
  <2> QED BY <2>1, <2>2
<1>3. \A c \in MemoryChats : ShownTo(c) = {turn[c].shown[i] : i \in 1..Len(turn[c].shown)}
  BY DEF ShownTo
<1>4. ContextIsFromScopes
  <2> SUFFICES ASSUME NEW c \in MemoryChats, NEW r \in ShownTo(c)
               PROVE  r.chat = c \/ (r.user = turn[c].user /\ r.user # "none")
    BY DEF ContextIsFromScopes
  <2>1. PICK i \in 1..Len(turn[c].shown) : r = turn[c].shown[i]
    BY <1>3
  <2>2. PICK k \in 1..Len(turn[c].found) : r = turn[c].found[k]
    BY <2>1, <1>2
  <2>3. FoundFor(turn[c].found[k], c, turn[c].user)
    BY <1>1 DEF TurnIsFine
  <2> QED BY <2>2, <2>3 DEF FoundFor
<1>5. SecretsStayOut
  BY DEF MemoryIInv, NoSecretIsKept, Clean, SecretsStayOut
<1>6. ContextBounded
  <2>1. ASSUME NEW c \in MemoryChats
        PROVE  LET lines == turn[c].shown
               IN  /\ Len(lines) <= TopK /\ Cardinality({lines[i].text : i \in 1..Len(lines)}) = Len(lines)
                   /\ Total([i \in DOMAIN lines |-> LineLength(lines[i])]) <= MaxTotal
    BY <1>2 DEF TextsOf, LengthsOf
  <2>2. Total(filesShown) <= (IF MaxPerFile > MaxAllFiles THEN MaxPerFile ELSE MaxAllFiles) + 1
    BY DEF MemoryIInv, FilesStayShort, MostOfFiles
  <2> QED BY <2>1, <2>2 DEF ContextBounded
<1>7. BestAreShown
  <2> SUFFICES ASSUME NEW c \in MemoryChats, turn[c].at \notin {"chat", "user", "agent"},
                      NEW k \in 1..Len(turn[c].found), NEW r \in ShownTo(c),
                      \A s \in ShownTo(c) : s.text # turn[c].found[k].text
               PROVE  turn[c].found[k].score <= r.score
    BY DEF BestAreShown
  <2> DEFINE found == turn[c].found
             lines == turn[c].shown
  <2>1. PICK i \in 1..Len(lines) : r = lines[i]
    BY <1>3
  <2>2. turn[c].at # "idle"
    <3> SUFFICES ASSUME turn[c].at = "idle" PROVE FALSE
      OBVIOUS
    <3>1. lines = <<>>
      BY <1>1 DEF Searching
    <3>2. Len(lines) = 0
      BY <3>1, EmptySeq
    <3> QED BY <2>1, <3>2
  <2>3. lines = Lines(found) /\ found \in Seq(Results)
    BY <2>2, <1>1 DEF Searching
  <2>4. found[k].text \notin TextsOf(lines)
    <3>1. \A j \in 1..Len(lines) : lines[j] \in ShownTo(c)
      BY <1>3
    <3> QED BY <3>1 DEF TextsOf
  <2>5. k \in 1..Len(found) /\ found[k].score <= lines[i].score
    <3> HIDE DEF found, lines
    <3>1. k \in 1..Len(found)
      BY DEF found
    <3> QED BY <2>1, <2>3, <2>4, <3>1, LinesOfFound
  <2> QED BY <2>1, <2>5
<1> QED BY <1>4, <1>5, <1>6, <1>7 DEF MemoryInv

(* Whatever is said in any number of chats, however their turns interleave and
   whatever fails to be searched or stored: what a turn is shown comes from its
   own chat or its own user, holds nothing that was blocked, is short, and is
   the best of what was found (runtime.rs:885-1098, memory.rs:76-208). *)
THEOREM MemoryInvHolds == MemorySpec => []MemoryInv
BY MemoryInitIsInv, MemoryStepKeeps, MemoryIInvImplies, PTL DEF MemorySpec

-----------------------------------------------------------------------------
(* The answer, as the bot sends it. *)

-----------------------------------------------------------------------------
(* The first and the last of some places. *)

LEMMA MinIs ==
  ASSUME NEW S \in SUBSET Nat, S # {}
  PROVE  Min(S) \in S /\ \A x \in S : Min(S) <= x
BY FirstPlace DEF Min

LEMMA MaxIs ==
  ASSUME NEW N \in Nat, NEW S \in SUBSET (0..N), S # {}
  PROVE  Max(S) \in S /\ \A x \in S : x <= Max(S)
<1> DEFINE T == {N - x : x \in S}
<1>1. T \in SUBSET Nat /\ T # {}
  <2>1. \A x \in S : N - x \in Nat
    OBVIOUS
  <2> QED BY <2>1
<1>2. PICK y \in T : \A z \in T : y <= z
  <2> HIDE DEF T
  <2> QED BY <1>1, FirstPlace
<1>3. PICK x \in S : y = N - x
  OBVIOUS
<1>4. \A z \in S : x >= z
  <2> SUFFICES ASSUME NEW z \in S PROVE x >= z
    OBVIOUS
  <2>1. N - z \in T
    OBVIOUS
  <2>2. N - x <= N - z
    BY <1>2, <1>3, <2>1
  <2> QED BY <2>2
<1>5. Max(S) \in S /\ \A z \in S : Max(S) >= z
  BY <1>4 DEF Max
<1> QED BY <1>5

(* The characters of the texts, and what the converter and Telegram add. *)
Names == {"error", "pre", "code", "a", "b", "s", "i", "nl", "escape", "entity"}
Syms == Names \cup UNION {{s[i] : i \in DOMAIN s} : s \in ReplyTexts}

(* The place of a mark is the first one, or 0 without any. *)
LEMMA FindIs ==
  ASSUME NEW s \in Seq(Syms), NEW i \in Nat \ {0}, NEW mark
  PROVE  \/ /\ Find(s, i, mark) = 0
            /\ \A j \in i..Len(s) : ~Starts(s, j, mark)
         \/ /\ Find(s, i, mark) \in i..Len(s) /\ Find(s, i, mark) # 0
            /\ Starts(s, Find(s, i, mark), mark)
            /\ \A j \in i..(Find(s, i, mark) - 1) : ~Starts(s, j, mark)
<1> DEFINE places == {j \in i..Len(s) : Starts(s, j, mark)}
<1>0. Len(s) \in Nat
  BY LenProperties
<1>1. CASE places = {}
  <2>1. Find(s, i, mark) = 0
    BY <1>1 DEF Find
  <2> QED BY <1>1, <2>1
<1>2. CASE places # {}
  <2>1. Find(s, i, mark) = Min(places)
    BY <1>2 DEF Find
  <2>2. places \in SUBSET Nat
    BY <1>0
  <2>3. Min(places) \in places /\ \A x \in places : Min(places) <= x
    <3> HIDE DEF places
    <3> QED BY <1>2, <2>2, MinIs
  <2>4. \A j \in i..(Min(places) - 1) : ~Starts(s, j, mark)
    <3> SUFFICES ASSUME NEW j \in i..(Min(places) - 1), Starts(s, j, mark) PROVE FALSE
      OBVIOUS
    <3>1. Min(places) \in i..Len(s)
      BY <2>3
    <3>2. j \in i..Len(s) /\ ~(Min(places) <= j)
      <4> HIDE DEF places
      <4> QED BY <3>1, <1>0
    <3> QED BY <2>3, <3>2
  <2>5. Min(places) \in i..Len(s) /\ Starts(s, Min(places), mark)
    BY <2>3
  <2>6. Min(places) # 0
    BY <2>5
  <2> HIDE DEF places
  <2> QED BY <2>1, <2>4, <2>5, <2>6
<1> QED BY <1>1, <1>2

-----------------------------------------------------------------------------
(* What Telegram takes. *)

Tokens == [is : {"open", "close", "text"}, sym : Syms, from : Nat]

(* The tags that are open behind each token. *)
OpenAfter(tokens) ==
  CHOOSE open : open = [n \in 0..Len(tokens) |-> IF n = 0 THEN <<>> ELSE NextOpen(open[n - 1], tokens[n])]

LEMMA OneIs ==
  ASSUME NEW S, NEW e \in S
  PROVE  <<e>> \in Seq(S) /\ Len(<<e>>) = 1 /\ <<e>>[1] = e
OBVIOUS

LEMMA NextOpenIs ==
  ASSUME NEW open \in Seq(Syms), NEW token \in Tokens
  PROVE  NextOpen(open, token) \in Seq(Syms)
<1>1. token.sym \in Syms /\ token.is \in {"open", "close", "text"}
  BY DEF Tokens
<1>2. Append(open, token.sym) \in Seq(Syms)
  BY <1>1, AppendProperties
<1>3. <<"error">> \o open \in Seq(Syms)
  <2>1. <<>> \in Seq(Syms)
    BY EmptySeq
  <2>0. "error" \in Syms
    BY DEF Syms, Names
  <2>2. <<"error">> \in Seq(Syms)
    BY <2>0, OneIs
  <2> QED BY <2>2, ConcatProperties
<1>4. Front(open) \in Seq(Syms)
  <2>1. Len(open) \in Nat /\ \A i \in 1..(Len(open) - 1) : open[i] \in Syms
    BY LenProperties, ElementOfSeq
  <2>2. Len(open) - 1 \in Int /\ 1 \in Int
    BY <2>1
  <2>3. SubSeq(open, 1, Len(open) - 1) \in Seq(Syms)
    BY <2>1, <2>2, SubSeqProperties
  <2> QED BY <2>3 DEF Front
<1> QED BY <1>1, <1>2, <1>3, <1>4 DEF NextOpen

LEMMA OpenAfterIs ==
  ASSUME NEW tokens \in Seq(Tokens)
  PROVE  /\ OpenAfter(tokens) \in [0..Len(tokens) -> Seq(Syms)]
         /\ OpenAfter(tokens)[0] = <<>>
         /\ \A n \in 0..(Len(tokens) - 1) :
              OpenAfter(tokens)[n + 1] = NextOpen(OpenAfter(tokens)[n], tokens[n + 1])
<1> DEFINE N == Len(tokens)
           S == Seq(Syms)
           none == <<>>
           step == [p \in S \X Nat |-> IF p[2] \in 1..N THEN NextOpen(p[1], tokens[p[2]]) ELSE none]
<1>0. N \in Nat /\ \A n \in 1..N : tokens[n] \in Tokens
  BY LenProperties, ElementOfSeq
<1>1. none \in S
  BY EmptySeq
<1>2. step \in Rounds(S)
  <2>1. \A p \in S \X Nat : (IF p[2] \in 1..N THEN NextOpen(p[1], tokens[p[2]]) ELSE none) \in S
    <3> SUFFICES ASSUME NEW p \in S \X Nat, p[2] \in 1..N PROVE NextOpen(p[1], tokens[p[2]]) \in S
      BY <1>1
    <3>1. p[1] \in Seq(Syms) /\ tokens[p[2]] \in Tokens
      BY <1>0
    <3> QED BY <3>1, NextOpenIs
  <2> HIDE DEF N, S, none
  <2> QED BY <2>1 DEF Rounds
<1>3. PICK f : IsLoop(f, N, S, none, step)
  <2> HIDE DEF N, S, none, step
  <2> QED BY <1>0, <1>1, <1>2, Recursion
<1>4. f \in [0..N -> S] /\ f[0] = none
  BY <1>3 DEF IsLoop
<1>5. ASSUME NEW n \in 0..N, n # 0 PROVE f[n] = NextOpen(f[n - 1], tokens[n])
  <2>1. n \in 1..N /\ n - 1 \in 0..N /\ n \in Nat
    BY <1>0, <1>5
  <2>2. f[n] = step[<<f[n - 1], n>>]
    <3> HIDE DEF step, S, none, N
    <3> QED BY <2>1, <1>3 DEF IsLoop
  <2>3. f[n - 1] \in S
    <3> HIDE DEF S, N
    <3> QED BY <1>4, <2>1
  <2>4. <<f[n - 1], n>> \in S \X Nat
    BY <2>1, <2>3
  <2>5. step[<<f[n - 1], n>>] = NextOpen(f[n - 1], tokens[n])
    <3> HIDE DEF S, N, none
    <3> QED BY <2>1, <2>4
  <2> QED BY <2>2, <2>5
<1>6. f = [n \in 0..N |-> IF n = 0 THEN <<>> ELSE NextOpen(f[n - 1], tokens[n])]
  <2>1. \A n \in 0..N : f[n] = IF n = 0 THEN <<>> ELSE NextOpen(f[n - 1], tokens[n])
    BY <1>4, <1>5
  <2> HIDE DEF N, S
  <2> QED BY <2>1, <1>4
<1> DEFINE g == OpenAfter(tokens)
<1>7. g = [n \in 0..N |-> IF n = 0 THEN <<>> ELSE NextOpen(g[n - 1], tokens[n])]
  BY <1>6 DEF OpenAfter
<1>8. /\ DOMAIN g = 0..N /\ g = [n \in 0..N |-> g[n]]
      /\ \A n \in 0..N : g[n] = IF n = 0 THEN <<>> ELSE NextOpen(g[n - 1], tokens[n])
  <2> HIDE DEF g, N
  <2> QED BY <1>7
<1>9. g[0] = <<>>
  <2>1. 0 \in 0..N
    BY <1>0
  <2> HIDE DEF g, N
  <2> QED BY <1>8, <2>1
<1>10. \A n \in 0..(N - 1) : g[n + 1] = NextOpen(g[n], tokens[n + 1])
  <2> SUFFICES ASSUME NEW n \in 0..(N - 1) PROVE g[n + 1] = NextOpen(g[n], tokens[n + 1])
    OBVIOUS
  <2>1. n + 1 \in 0..N /\ n + 1 # 0 /\ (n + 1) - 1 = n
    BY <1>0
  <2> HIDE DEF g, N
  <2> QED BY <1>8, <2>1
<1> DEFINE T == {n \in 0..N : g[n] \in S}
<1>11. 0..N \subseteq T
  <2>1. 0 \in T
    <3>1. 0 \in 0..N /\ g[0] \in S
      <4> HIDE DEF g
      <4> QED BY <1>0, <1>9, <1>1
    <3> HIDE DEF g, N, S
    <3> QED BY <3>1
  <2>2. ASSUME NEW n \in 0..N, n \in T, n < N PROVE n + 1 \in T
    <3>1. n + 1 \in 0..N /\ n + 1 \in 1..N /\ n \in 0..(N - 1)
      BY <1>0, <2>2
    <3>2. g[n] \in S
      BY <2>2
    <3>3. g[n + 1] \in S
      <4>1. g[n + 1] = NextOpen(g[n], tokens[n + 1])
        BY <1>10, <3>1
      <4>2. tokens[n + 1] \in Tokens
        BY <1>0, <3>1
      <4> HIDE DEF g
      <4> QED BY <3>2, <4>1, <4>2, NextOpenIs
    <3> HIDE DEF g
    <3> QED BY <3>1, <3>3
  <2> HIDE DEF T, N
  <2> QED BY <2>1, <2>2, <1>0, UpTo
<1>12. g \in [0..N -> S]
  <2> HIDE DEF g, N, S
  <2> QED BY <1>8, <1>11
<1> HIDE DEF g
<1> QED BY <1>9, <1>10, <1>12 DEF g

LEMMA WellFormedIs ==
  ASSUME NEW tokens
  PROVE  WellFormed(tokens) <=> OpenAfter(tokens)[Len(tokens)] = <<>>
BY DEF WellFormed, OpenAfter

(* Two texts of which each is taken are taken together. *)
LEMMA WellFormedConcat ==
  ASSUME NEW a \in Seq(Tokens), NEW b \in Seq(Tokens), WellFormed(a), WellFormed(b)
  PROVE  WellFormed(a \o b)
<1> DEFINE c == a \o b
<1>0. Len(a) \in Nat /\ Len(b) \in Nat
  BY LenProperties
<1>1. /\ c \in Seq(Tokens) /\ Len(c) = Len(a) + Len(b)
      /\ \A i \in 1..(Len(a) + Len(b)) : c[i] = IF i <= Len(a) THEN a[i] ELSE b[i - Len(a)]
  BY ConcatProperties
<1> HIDE DEF c
<1>2. /\ OpenAfter(a)[0] = <<>> /\ OpenAfter(a)[Len(a)] = <<>>
      /\ OpenAfter(b)[0] = <<>> /\ OpenAfter(b)[Len(b)] = <<>>
      /\ OpenAfter(c)[0] = <<>>
  BY <1>1, OpenAfterIs, WellFormedIs
<1>3. \A n \in 0..(Len(a) - 1) : OpenAfter(a)[n + 1] = NextOpen(OpenAfter(a)[n], a[n + 1])
  BY OpenAfterIs
<1>4. \A n \in 0..(Len(b) - 1) : OpenAfter(b)[n + 1] = NextOpen(OpenAfter(b)[n], b[n + 1])
  BY OpenAfterIs
<1>5. \A n \in 0..(Len(c) - 1) : OpenAfter(c)[n + 1] = NextOpen(OpenAfter(c)[n], c[n + 1])
  BY <1>1, OpenAfterIs
<1>6. OpenAfter(c)[Len(a)] = <<>>
  <2> DEFINE T == {n \in 0..Len(a) : OpenAfter(c)[n] = OpenAfter(a)[n]}
  <2>1. 0 \in T
    BY <1>0, <1>2
  <2>2. ASSUME NEW n \in 0..Len(a), n \in T, n < Len(a) PROVE n + 1 \in T
    <3>1. /\ n \in 0..(Len(a) - 1) /\ n \in 0..(Len(c) - 1) /\ n + 1 \in 0..Len(a)
          /\ n + 1 \in 1..(Len(a) + Len(b)) /\ n + 1 <= Len(a)
      BY <1>0, <1>1, <2>2
    <3>2. c[n + 1] = a[n + 1] /\ OpenAfter(c)[n] = OpenAfter(a)[n]
      BY <3>1, <1>1, <2>2
    <3>3. OpenAfter(c)[n + 1] = OpenAfter(a)[n + 1]
      BY <3>1, <3>2, <1>3, <1>5
    <3> QED BY <3>1, <3>3
  <2> HIDE DEF T
  <2>3. Len(a) \in T
    <3>1. 0..Len(a) \subseteq T
      BY <2>1, <2>2, <1>0, UpTo
    <3>2. Len(a) \in 0..Len(a)
      BY <1>0
    <3> QED BY <3>1, <3>2
  <2> QED BY <2>3, <1>2 DEF T
<1>7. OpenAfter(c)[Len(a) + Len(b)] = <<>>
  <2> DEFINE T == {n \in 0..Len(b) : OpenAfter(c)[Len(a) + n] = OpenAfter(b)[n]}
  <2>1. 0 \in T
    <3>1. 0 \in 0..Len(b) /\ Len(a) + 0 = Len(a)
      BY <1>0
    <3> QED BY <3>1, <1>2, <1>6
  <2>2. ASSUME NEW n \in 0..Len(b), n \in T, n < Len(b) PROVE n + 1 \in T
    <3>1. /\ n \in 0..(Len(b) - 1) /\ Len(a) + n \in 0..(Len(c) - 1) /\ n + 1 \in 0..Len(b)
          /\ Len(a) + (n + 1) \in 1..(Len(a) + Len(b)) /\ ~(Len(a) + (n + 1) <= Len(a))
          /\ (Len(a) + (n + 1)) - Len(a) = n + 1 /\ (Len(a) + n) + 1 = Len(a) + (n + 1)
      BY <1>0, <1>1, <2>2
    <3>2. c[Len(a) + (n + 1)] = b[n + 1] /\ OpenAfter(c)[Len(a) + n] = OpenAfter(b)[n]
      <4>1. c[Len(a) + (n + 1)] = b[(Len(a) + (n + 1)) - Len(a)]
        BY <3>1, <1>1
      <4> QED BY <4>1, <3>1, <2>2
    <3>3. OpenAfter(c)[Len(a) + (n + 1)] = NextOpen(OpenAfter(c)[Len(a) + n], c[Len(a) + (n + 1)])
      <4>1. OpenAfter(c)[(Len(a) + n) + 1] = NextOpen(OpenAfter(c)[Len(a) + n], c[(Len(a) + n) + 1])
        BY <3>1, <1>5
      <4> QED BY <4>1, <3>1
    <3>4. OpenAfter(c)[Len(a) + (n + 1)] = OpenAfter(b)[n + 1]
      BY <3>1, <3>2, <3>3, <1>4
    <3> QED BY <3>1, <3>4
  <2> HIDE DEF T
  <2>3. Len(b) \in T
    <3>1. 0..Len(b) \subseteq T
      BY <2>1, <2>2, <1>0, UpTo
    <3>2. Len(b) \in 0..Len(b)
      BY <1>0
    <3> QED BY <3>1, <3>2
  <2> QED BY <2>3, <1>2 DEF T
<1>8. WellFormed(c)
  BY <1>1, <1>7, WellFormedIs
<1> QED BY <1>8 DEF c

(* Text without a tag, every character of it escaped. *)
Quiet(tokens) ==
  /\ tokens \in Seq(Tokens)
  /\ \A k \in 1..Len(tokens) : tokens[k].is = "text" /\ tokens[k].sym \notin Special

LEMMA QuietIsWellFormed ==
  ASSUME NEW tokens, Quiet(tokens)
  PROVE  WellFormed(tokens)
<1>0. tokens \in Seq(Tokens) /\ Len(tokens) \in Nat
  BY LenProperties DEF Quiet
<1> DEFINE T == {n \in 0..Len(tokens) : OpenAfter(tokens)[n] = <<>>}
<1>1. 0 \in T
  BY <1>0, OpenAfterIs
<1>2. ASSUME NEW n \in 0..Len(tokens), n \in T, n < Len(tokens) PROVE n + 1 \in T
  <2>1. n \in 0..(Len(tokens) - 1) /\ n + 1 \in 1..Len(tokens) /\ n + 1 \in 0..Len(tokens)
    BY <1>0, <1>2
  <2>2. OpenAfter(tokens)[n + 1] = NextOpen(<<>>, tokens[n + 1])
    BY <2>1, <1>0, <1>2, OpenAfterIs
  <2>3. NextOpen(<<>>, tokens[n + 1]) = <<>>
    BY <2>1 DEF Quiet, NextOpen
  <2> QED BY <2>1, <2>2, <2>3
<1> HIDE DEF T
<1>3. Len(tokens) \in T
  <2>1. 0..Len(tokens) \subseteq T
    <3> DEFINE N == Len(tokens)
    <3>1. N \in Nat /\ \A n \in 0..N : n \in T /\ n < N => n + 1 \in T
      BY <1>0, <1>2
    <3> HIDE DEF N
    <3>2. 0..N \subseteq T
      BY <3>1, <1>1, UpTo
    <3> QED BY <3>2 DEF N
  <2>2. Len(tokens) \in 0..Len(tokens)
    BY <1>0
  <2> QED BY <2>1, <2>2
<1> QED BY <1>3, WellFormedIs DEF T

LEMMA WrappedIs ==
  ASSUME NEW name \in Syms, NEW tokens, Quiet(tokens)
  PROVE  /\ Wrapped(name, tokens) \in Seq(Tokens)
         /\ Len(Wrapped(name, tokens)) = Len(tokens) + 2
         /\ Wrapped(name, tokens)[1] = Opening(name)
         /\ \A k \in 1..Len(tokens) : Wrapped(name, tokens)[k + 1] = tokens[k]
         /\ Wrapped(name, tokens)[Len(tokens) + 2] = Closing(name)
<1>0. tokens \in Seq(Tokens) /\ Len(tokens) \in Nat
  BY LenProperties DEF Quiet
<1> DEFINE first == <<Opening(name)>>
           final == <<Closing(name)>>
           begun == first \o tokens
<1>1. Opening(name) \in Tokens /\ Closing(name) \in Tokens
  BY DEF Opening, Closing, Tokens
<1>2. first \in Seq(Tokens) /\ Len(first) = 1 /\ first[1] = Opening(name)
  BY <1>1, OneIs
<1>3. final \in Seq(Tokens) /\ Len(final) = 1 /\ final[1] = Closing(name)
  BY <1>1, OneIs
<1> HIDE DEF first, final
<1>4. /\ begun \in Seq(Tokens) /\ Len(begun) = 1 + Len(tokens)
      /\ \A i \in 1..(1 + Len(tokens)) : begun[i] = IF i <= 1 THEN first[i] ELSE tokens[i - 1]
  <2>1. /\ begun \in Seq(Tokens) /\ Len(begun) = Len(first) + Len(tokens)
        /\ \A i \in 1..(Len(first) + Len(tokens)) :
             begun[i] = IF i <= Len(first) THEN first[i] ELSE tokens[i - Len(first)]
    BY <1>0, <1>2, ConcatProperties
  <2> HIDE DEF begun
  <2> QED BY <2>1, <1>2
<1> HIDE DEF begun
<1> DEFINE whole == begun \o final
<1>5. /\ whole \in Seq(Tokens) /\ Len(whole) = Len(begun) + 1
      /\ \A i \in 1..(Len(begun) + 1) : whole[i] = IF i <= Len(begun) THEN begun[i] ELSE final[i - Len(begun)]
  <2>1. /\ whole \in Seq(Tokens) /\ Len(whole) = Len(begun) + Len(final)
        /\ \A i \in 1..(Len(begun) + Len(final)) :
             whole[i] = IF i <= Len(begun) THEN begun[i] ELSE final[i - Len(begun)]
    BY <1>3, <1>4, ConcatProperties
  <2> HIDE DEF whole
  <2> QED BY <2>1, <1>3
<1>6. whole = Wrapped(name, tokens)
  BY DEF whole, begun, first, final, Wrapped
<1> HIDE DEF whole
<1>7. whole[1] = Opening(name)
  <2>1. 1 \in 1..(Len(begun) + 1) /\ 1 <= Len(begun) /\ 1 \in 1..(1 + Len(tokens))
    BY <1>0, <1>4
  <2> QED BY <2>1, <1>2, <1>4, <1>5
<1>8. ASSUME NEW k \in 1..Len(tokens) PROVE whole[k + 1] = tokens[k]
  <2>1. /\ k + 1 \in 1..(Len(begun) + 1) /\ k + 1 <= Len(begun) /\ k + 1 \in 1..(1 + Len(tokens))
        /\ ~(k + 1 <= 1) /\ (k + 1) - 1 = k
    BY <1>0, <1>4
  <2> QED BY <2>1, <1>4, <1>5
<1>9. whole[Len(tokens) + 2] = Closing(name)
  <2>1. /\ Len(tokens) + 2 \in 1..(Len(begun) + 1) /\ ~(Len(tokens) + 2 <= Len(begun))
        /\ (Len(tokens) + 2) - Len(begun) = 1
    BY <1>0, <1>4
  <2> QED BY <2>1, <1>3, <1>5
<1>10. Len(whole) = Len(tokens) + 2
  BY <1>0, <1>4, <1>5
<1> QED BY <1>5, <1>6, <1>7, <1>8, <1>9, <1>10

LEMMA WrappedIsWellFormed ==
  ASSUME NEW name \in Syms, NEW tokens, Quiet(tokens)
  PROVE  WellFormed(Wrapped(name, tokens))
<1> DEFINE w == Wrapped(name, tokens)
           N == Len(tokens)
<1>0. N \in Nat
  BY LenProperties DEF Quiet
<1>1. /\ w \in Seq(Tokens) /\ Len(w) = N + 2 /\ w[1] = Opening(name)
      /\ \A k \in 1..N : w[k + 1] = tokens[k]
      /\ w[N + 2] = Closing(name)
  BY WrappedIs
<1> HIDE DEF w
<1>2. /\ OpenAfter(w)[0] = <<>>
      /\ \A n \in 0..(Len(w) - 1) : OpenAfter(w)[n + 1] = NextOpen(OpenAfter(w)[n], w[n + 1])
  BY <1>1, OpenAfterIs
<1> DEFINE inside == <<name>>
<1>3. /\ Append(<<>>, name) = inside /\ inside # <<>> /\ Last(inside) = name /\ Front(inside) = <<>>
  <2>1. Append(<<>>, name) = inside /\ inside # <<>>
    OBVIOUS
  <2>2. Len(inside) = 1 /\ inside[1] = name
    BY OneIs
  <2>3. SubSeq(inside, 1, 0) = <<>>
    BY SubSeqEmpty
  <2> HIDE DEF inside
  <2>4. Len(inside) - 1 = 0
    BY <2>2
  <2> QED BY <2>1, <2>2, <2>3, <2>4 DEF Last, Front
<1> HIDE DEF inside
<1> DEFINE T == {n \in 0..N : OpenAfter(w)[n + 1] = inside}
<1>4. 0 \in T
  <2>1. 0 \in 0..N /\ 0 \in 0..(Len(w) - 1) /\ 0 + 1 = 1
    BY <1>0, <1>1
  <2>2. OpenAfter(w)[1] = NextOpen(<<>>, Opening(name))
    BY <2>1, <1>1, <1>2
  <2>3. NextOpen(<<>>, Opening(name)) = inside
    BY <1>3 DEF NextOpen, Opening
  <2> QED BY <2>1, <2>2, <2>3
<1>5. ASSUME NEW n \in 0..N, n \in T, n < N PROVE n + 1 \in T
  <2>1. n + 1 \in 1..N /\ n + 1 \in 0..N /\ n + 1 \in 0..(Len(w) - 1)
    BY <1>0, <1>1, <1>5
  <2>2. OpenAfter(w)[(n + 1) + 1] = NextOpen(inside, tokens[n + 1])
    BY <2>1, <1>1, <1>2, <1>5
  <2>3. NextOpen(inside, tokens[n + 1]) = inside
    BY <2>1 DEF Quiet, NextOpen
  <2> QED BY <2>1, <2>2, <2>3
<1> HIDE DEF T
<1>6. N \in T
  <2>1. N \in Nat /\ N \in 0..N
    BY <1>0
  <2>2. 0..N \subseteq T
    BY <1>4, <1>5, <2>1, UpTo
  <2> QED BY <2>1, <2>2
<1>7. OpenAfter(w)[N + 1] = inside
  BY <1>6 DEF T
<1>8. OpenAfter(w)[N + 2] = NextOpen(inside, Closing(name))
  <2>1. N + 1 \in 0..(Len(w) - 1) /\ (N + 1) + 1 = N + 2
    BY <1>0, <1>1
  <2>2. OpenAfter(w)[(N + 1) + 1] = NextOpen(OpenAfter(w)[N + 1], w[(N + 1) + 1])
    BY <2>1, <1>2
  <2> QED BY <2>1, <2>2, <1>1, <1>7
<1>9. NextOpen(inside, Closing(name)) = <<>>
  BY <1>3 DEF NextOpen, Closing
<1>10. WellFormed(w)
  BY <1>1, <1>8, <1>9, WellFormedIs
<1> QED BY <1>10 DEF w

-----------------------------------------------------------------------------
(* What each construct makes of the text. *)

Letter == {"a", "w"}

(* The character at j is in the tokens, as text and from its place. *)
ShownIn(tokens, s, j) ==
  \E k \in 1..Len(tokens) : tokens[k].is = "text" /\ tokens[k].sym = s[j] /\ tokens[k].from = j

SameLine(s, j, k) == \A l \in j..k : s[l] # "nl"

Fences(s) == {k \in 1..(Len(s) - 2) : Starts(s, k, FenceMark)}

(* The character at j may be a part of the name of a language. *)
Hint(s, j) ==
  /\ \E k \in Fences(s) : k < j /\ SameLine(s, k, j)
  /\ ~\E k \in Fences(s) : k > j /\ SameLine(s, j, k)

TagAt(s, i) == Starts(s, i, <<"<", "b", ">">>) \/ Starts(s, i, <<"<", "/", "b", ">">>)

(* A piece takes the text on, is taken by Telegram unless it is a tag of the
   text, and no letter is missing. *)
Good(s, i, p) ==
  /\ p.out \in Seq(Tokens)
  /\ p.next \in (i + 1)..(Len(s) + 1)
  /\ WellFormed(p.out) \/ TagAt(s, i)
  /\ \A j \in i..(p.next - 1) : s[j] \in Letter => ShownIn(p.out, s, j) \/ Hint(s, j)

IsMark(mark) ==
  /\ Len(mark) \in Nat \ {0} /\ DOMAIN mark = 1..Len(mark)
  /\ \A k \in 1..Len(mark) : mark[k] \notin Letter

LEMMA MarksAre ==
  /\ IsMark(FenceMark) /\ Len(FenceMark) = 3 /\ FenceMark[1] = "tick"
  /\ FenceMark[2] = "tick" /\ FenceMark[3] = "tick"
  /\ IsMark(<<"tick">>) /\ IsMark(<<"*", "*">>) /\ IsMark(<<"~", "~">>) /\ IsMark(<<"*">>)
  /\ IsMark(<<"nl">>) /\ Len(<<"nl">>) = 1 /\ <<"nl">>[1] = "nl"
  /\ IsMark(<<"]">>) /\ Len(<<"]">>) = 1 /\ IsMark(<<")">>) /\ Len(<<")">>) = 1
  /\ IsMark(<<"&", "e", "semicolon">>) /\ Len(<<"&", "e", "semicolon">>) = 3
  /\ IsMark(<<"<", "b", ">">>) /\ Len(<<"<", "b", ">">>) = 3
  /\ IsMark(<<"<", "/", "b", ">">>) /\ Len(<<"<", "/", "b", ">">>) = 4
<1>1. IsMark(FenceMark) /\ Len(FenceMark) = 3 /\ FenceMark[1] = "tick" /\ FenceMark[2] = "tick" /\ FenceMark[3] = "tick"
  BY DEF IsMark, FenceMark, Letter
<1>2. IsMark(<<"tick">>) /\ IsMark(<<"*", "*">>) /\ IsMark(<<"~", "~">>) /\ IsMark(<<"*">>)
  BY DEF IsMark, Letter
<1>3. IsMark(<<"nl">>) /\ IsMark(<<"]">>) /\ IsMark(<<")">>)
  BY DEF IsMark, Letter
<1>4. IsMark(<<"&", "e", "semicolon">>) /\ Len(<<"&", "e", "semicolon">>) = 3
  BY DEF IsMark, Letter
<1>5. IsMark(<<"<", "b", ">">>) /\ Len(<<"<", "b", ">">>) = 3
  BY DEF IsMark, Letter
<1>6. IsMark(<<"<", "/", "b", ">">>) /\ Len(<<"<", "/", "b", ">">>) = 4
  BY DEF IsMark, Letter
<1> QED BY <1>1, <1>2, <1>3, <1>4, <1>5, <1>6

LEMMA MarkIsNoLetter ==
  ASSUME NEW s \in Seq(Syms), NEW i \in Nat \ {0}, NEW mark, IsMark(mark), Starts(s, i, mark)
  PROVE  \A j \in i..(i + Len(mark) - 1) : s[j] \notin Letter
<1> SUFFICES ASSUME NEW j \in i..(i + Len(mark) - 1) PROVE s[j] \notin Letter
  OBVIOUS
<1>1. j - i + 1 \in 1..Len(mark) /\ i + (j - i + 1) - 1 = j
  BY DEF IsMark
<1>2. s[j] = mark[j - i + 1]
  BY <1>1 DEF Starts, IsMark
<1> QED BY <1>1, <1>2 DEF IsMark

LEMMA EscapedIs ==
  ASSUME NEW s \in Seq(Syms), NEW i \in Nat \ {0}, NEW j \in Int, j <= Len(s)
  PROVE  /\ Quiet(Escaped(s, i, j))
         /\ \A l \in i..j : s[l] \in Letter => ShownIn(Escaped(s, i, j), s, l)
<1> DEFINE n == IF j < i THEN 0 ELSE j - i + 1
           t == Escaped(s, i, j)
<1>0. n \in Nat /\ Len(s) \in Nat /\ \A k \in 1..n : i + k - 1 \in i..j /\ i + k - 1 \in 1..Len(s)
  BY LenProperties
<1>1. t = [k \in 1..n |-> Escape(s, i + k - 1)]
  BY DEF Escaped
<1>2. ASSUME NEW k \in 1..n
      PROVE  /\ Escape(s, i + k - 1) \in Tokens
             /\ Escape(s, i + k - 1).is = "text" /\ Escape(s, i + k - 1).sym \notin Special
             /\ Escape(s, i + k - 1).from = i + k - 1
             /\ s[i + k - 1] \in Letter => Escape(s, i + k - 1).sym = s[i + k - 1]
  <2> DEFINE l == i + k - 1
  <2>1. l \in 1..Len(s) /\ l \in Nat
    BY <1>0
  <2> HIDE DEF l
  <2>2. s[l] \in Syms
    BY <2>1, ElementOfSeq
  <2>3. "escape" \in Syms /\ "escape" \notin Special
    BY DEF Syms, Names, Special
  <2>4. s[l] \in Letter => s[l] \notin Special
    BY DEF Letter, Special
  <2>5. /\ Escape(s, l) \in Tokens /\ Escape(s, l).is = "text" /\ Escape(s, l).sym \notin Special
        /\ Escape(s, l).from = l /\ (s[l] \in Letter => Escape(s, l).sym = s[l])
    BY <2>1, <2>2, <2>3, <2>4 DEF Escape, Tokens
  <2> QED BY <2>5 DEF l
<1>3. DOMAIN t = 1..n /\ \A k \in 1..n : t[k] = Escape(s, i + k - 1)
  <2> HIDE DEF n, t
  <2> QED BY <1>1
<1>4. t \in [1..n -> Tokens]
  <2> HIDE DEF n, t
  <2> QED BY <1>1, <1>2
<1>5. t \in Seq(Tokens) /\ Len(t) = n
  <2>1. t \in Seq(Tokens)
    <3> HIDE DEF n, t
    <3> QED BY <1>0, <1>4, SeqDef
  <2>2. Len(t) \in Nat /\ DOMAIN t = 1..Len(t)
    BY <2>1, LenProperties
  <2>3. Len(t) = n
    <3> HIDE DEF n, t
    <3>1. 1..n = 1..Len(t)
      BY <1>3, <2>2
    <3>2. n \in 1..n \/ n = 0
      BY <1>0
    <3>3. Len(t) \in 1..Len(t) \/ Len(t) = 0
      BY <2>2
    <3>4. (n \in 1..Len(t) \/ n = 0) /\ (Len(t) \in 1..n \/ Len(t) = 0)
      BY <3>1, <3>2, <3>3
    <3>5. n \in Nat /\ Len(t) \in Nat
      BY <2>2, <1>0
    <3> QED BY <3>4, <3>5
  <2> QED BY <2>1, <2>3
<1>6. Quiet(t)
  <2> HIDE DEF n, t
  <2> QED BY <1>2, <1>3, <1>5 DEF Quiet
<1>7. ASSUME NEW l \in i..j, s[l] \in Letter PROVE ShownIn(t, s, l)
  <2>1. l - i + 1 \in 1..n /\ i + (l - i + 1) - 1 = l
    OBVIOUS
  <2>2. t[l - i + 1].is = "text" /\ t[l - i + 1].sym = s[l] /\ t[l - i + 1].from = l
    <3> HIDE DEF n, t
    <3> QED BY <2>1, <1>2, <1>3, <1>7
  <2> HIDE DEF n, t
  <2> QED BY <2>1, <2>2, <1>5 DEF ShownIn
<1> HIDE DEF t
<1> QED BY <1>6, <1>7 DEF t

LEMMA ShownWrapped ==
  ASSUME NEW name \in Syms, NEW tokens, Quiet(tokens), NEW s, NEW j, ShownIn(tokens, s, j)
  PROVE  ShownIn(Wrapped(name, tokens), s, j)
<1>0. Len(tokens) \in Nat
  BY LenProperties DEF Quiet
<1>1. PICK k \in 1..Len(tokens) : tokens[k].is = "text" /\ tokens[k].sym = s[j] /\ tokens[k].from = j
  BY DEF ShownIn
<1>2. Wrapped(name, tokens)[k + 1] = tokens[k] /\ Len(Wrapped(name, tokens)) = Len(tokens) + 2
  BY WrappedIs
<1>3. k + 1 \in 1..Len(Wrapped(name, tokens))
  BY <1>0, <1>2
<1> QED BY <1>1, <1>2, <1>3 DEF ShownIn

LEMMA ShownConcat ==
  ASSUME NEW a \in Seq(Tokens), NEW b \in Seq(Tokens), NEW s, NEW j
  PROVE  ShownIn(a, s, j) \/ ShownIn(b, s, j) => ShownIn(a \o b, s, j)
<1>0. Len(a) \in Nat /\ Len(b) \in Nat
  BY LenProperties
<1>1. /\ Len(a \o b) = Len(a) + Len(b)
      /\ \A i \in 1..(Len(a) + Len(b)) : (a \o b)[i] = IF i <= Len(a) THEN a[i] ELSE b[i - Len(a)]
  BY ConcatProperties
<1>2. CASE ShownIn(a, s, j)
  <2>1. PICK k \in 1..Len(a) : a[k].is = "text" /\ a[k].sym = s[j] /\ a[k].from = j
    BY <1>2 DEF ShownIn
  <2>2. k \in 1..(Len(a) + Len(b)) /\ k <= Len(a)
    BY <1>0
  <2>3. (a \o b)[k] = a[k]
    BY <1>1, <2>2
  <2> QED BY <2>1, <2>2, <2>3, <1>1 DEF ShownIn
<1>3. CASE ShownIn(b, s, j)
  <2>1. PICK k \in 1..Len(b) : b[k].is = "text" /\ b[k].sym = s[j] /\ b[k].from = j
    BY <1>3 DEF ShownIn
  <2>2. Len(a) + k \in 1..(Len(a) + Len(b)) /\ ~(Len(a) + k <= Len(a)) /\ (Len(a) + k) - Len(a) = k
    BY <1>0
  <2>3. (a \o b)[Len(a) + k] = b[k]
    BY <1>1, <2>2
  <2> QED BY <2>1, <2>2, <2>3, <1>1 DEF ShownIn
<1> QED BY <1>2, <1>3

(* The letters between the marks are shown, and the marks have none. *)
LEMMA BetweenIsGood ==
  ASSUME NEW s \in Seq(Syms), NEW i \in 1..Len(s), NEW mark, IsMark(mark), NEW name \in Syms,
         NEW p \in Between(s, i, mark, name)
  PROVE  Good(s, i, p)
<1> DEFINE start == i + Len(mark)
           close == Find(s, start, mark)
           inner == Escaped(s, start, close - 1)
<1>0. Len(s) \in Nat /\ i \in Nat \ {0} /\ Len(mark) \in Nat \ {0} /\ start \in Nat \ {0}
  BY LenProperties DEF IsMark
<1>1. /\ Starts(s, i, mark) /\ close # 0
      /\ p = [out |-> Wrapped(name, inner), next |-> close + Len(mark)]
  BY DEF Between
<1>2. close \in start..Len(s) /\ Starts(s, close, mark)
  <2> HIDE DEF start
  <2> QED BY <1>0, <1>1, FindIs DEF start
<1>3. close + Len(mark) - 1 <= Len(s) /\ close \in Nat \ {0} /\ close - 1 \in Int /\ close - 1 <= Len(s)
  <2>1. close + Len(mark) - 1 <= Len(s)
    BY <1>2 DEF Starts
  <2> HIDE DEF close
  <2> QED BY <1>0, <1>2, <2>1
<1>4. Quiet(inner) /\ \A l \in start..(close - 1) : s[l] \in Letter => ShownIn(inner, s, l)
  <2> HIDE DEF start, close
  <2> QED BY <1>0, <1>3, EscapedIs
<1> HIDE DEF inner, close
<1>5. p.out \in Seq(Tokens) /\ WellFormed(p.out)
  BY <1>1, <1>4, WrappedIs, WrappedIsWellFormed
<1>6. p.next \in (i + 1)..(Len(s) + 1)
  BY <1>0, <1>1, <1>2, <1>3
<1>7. ASSUME NEW j \in i..(p.next - 1), s[j] \in Letter PROVE ShownIn(p.out, s, j)
  <2>1. j \in i..(i + Len(mark) - 1) \/ j \in start..(close - 1) \/ j \in close..(close + Len(mark) - 1)
    BY <1>0, <1>1, <1>3, <1>7
  <2>2. j \notin i..(i + Len(mark) - 1) /\ j \notin close..(close + Len(mark) - 1)
    BY <1>0, <1>1, <1>2, <1>3, <1>7, MarkIsNoLetter
  <2>3. ShownIn(inner, s, j)
    BY <2>1, <2>2, <1>4, <1>7
  <2> QED BY <2>3, <1>1, <1>4, ShownWrapped
<1> QED BY <1>5, <1>6, <1>7 DEF Good

(* A mark that is not there is passed over by the others. *)
LEMMA ItalicIsGood ==
  ASSUME NEW s \in Seq(Syms), NEW i \in 1..Len(s), NEW p \in Italic(s, i)
  PROVE  Good(s, i, p)
<1>1. p \in Between(s, i, <<"*">>, "i")
  BY DEF Italic
<1>2. "i" \in Syms
  BY DEF Syms, Names
<1> QED BY <1>1, <1>2, MarksAre, BetweenIsGood

LEMMA SinglesAre ==
  ASSUME NEW s \in Seq(Syms), NEW i \in 1..Len(s)
  PROVE  /\ Escape(s, i) \in Tokens
         /\ <<Escape(s, i)>> \in Seq(Tokens) /\ WellFormed(<<Escape(s, i)>>)
         /\ s[i] \in Letter => ShownIn(<<Escape(s, i)>>, s, i)
<1>1. /\ Escape(s, i) \in Tokens /\ Escape(s, i).is = "text" /\ Escape(s, i).sym \notin Special
      /\ Escape(s, i).from = i /\ (s[i] \in Letter => Escape(s, i).sym = s[i])
  <2>1. s[i] \in Syms /\ i \in Nat
    BY ElementOfSeq, LenProperties
  <2>2. "escape" \in Syms /\ "escape" \notin Special
    BY DEF Syms, Names, Special
  <2>3. s[i] \in Letter => s[i] \notin Special
    BY DEF Letter, Special
  <2> QED BY <2>1, <2>2, <2>3 DEF Escape, Tokens
<1> DEFINE t == <<Escape(s, i)>>
<1>2. t \in Seq(Tokens) /\ Len(t) = 1 /\ t[1] = Escape(s, i)
  BY <1>1, OneIs
<1> HIDE DEF t
<1>3. Quiet(t)
  BY <1>1, <1>2 DEF Quiet
<1>4. WellFormed(t)
  BY <1>3, QuietIsWellFormed
<1>5. s[i] \in Letter => ShownIn(t, s, i)
  BY <1>1, <1>2 DEF ShownIn
<1> QED BY <1>1, <1>2, <1>4, <1>5 DEF t

LEMMA CharacterIsGood ==
  ASSUME NEW s \in Seq(Syms), NEW i \in 1..Len(s), NEW p \in Character(s, i)
  PROVE  Good(s, i, p)
<1>0. Len(s) \in Nat /\ i \in Nat \ {0}
  BY LenProperties
<1>1. CASE Starts(s, i, <<"&", "e", "semicolon">>)
  <2> DEFINE mark == <<"&", "e", "semicolon">>
             entity == [Plain(s, i) EXCEPT !.sym = "entity"]
             t == <<entity>>
  <2>1. p = [out |-> t, next |-> i + 3]
    BY <1>1 DEF Character
  <2>2. IsMark(mark) /\ Len(mark) = 3
    BY MarksAre
  <2>3. Starts(s, i, mark)
    BY <1>1
  <2> HIDE DEF mark
  <2>4. i + 2 <= Len(s)
    BY <2>2, <2>3, <1>0 DEF Starts
  <2>5. \A j \in i..(i + 2) : s[j] \notin Letter
    <3>1. \A j \in i..(i + Len(mark) - 1) : s[j] \notin Letter
      BY <1>0, <2>2, <2>3, MarkIsNoLetter
    <3>2. i + Len(mark) - 1 = i + 2
      BY <1>0, <2>2
    <3> QED BY <3>1, <3>2
  <2>6. entity = [is |-> "text", sym |-> "entity", from |-> i]
    BY DEF Plain
  <2>7. "entity" \in Syms /\ "entity" \notin Special
    BY DEF Syms, Names, Special
  <2> HIDE DEF entity
  <2>8. entity \in Tokens /\ entity.is = "text" /\ entity.sym \notin Special
    BY <1>0, <2>6, <2>7 DEF Tokens
  <2>9. t \in Seq(Tokens) /\ Len(t) = 1 /\ t[1] = entity
    BY <2>8, OneIs
  <2> HIDE DEF t
  <2>10. WellFormed(t)
    <3>1. Quiet(t)
      BY <2>8, <2>9 DEF Quiet
    <3> QED BY <3>1, QuietIsWellFormed
  <2>11. p.next \in (i + 1)..(Len(s) + 1) /\ p.next - 1 = i + 2
    BY <1>0, <2>1, <2>4
  <2> QED BY <2>1, <2>5, <2>9, <2>10, <2>11 DEF Good
<1>2. CASE ~Starts(s, i, <<"&", "e", "semicolon">>)
  <2> DEFINE t == <<Escape(s, i)>>
  <2>1. p = [out |-> t, next |-> i + 1]
    BY <1>2 DEF Character
  <2>2. t \in Seq(Tokens) /\ WellFormed(t) /\ (s[i] \in Letter => ShownIn(t, s, i))
    BY SinglesAre
  <2> HIDE DEF t
  <2>3. p.next \in (i + 1)..(Len(s) + 1) /\ i..(p.next - 1) = {i}
    BY <1>0, <2>1
  <2> QED BY <2>1, <2>2, <2>3 DEF Good
<1> QED BY <1>1, <1>2

LEMMA OwnTagIsGood ==
  ASSUME NEW s \in Seq(Syms), NEW i \in 1..Len(s), NEW p \in OwnTag(s, i)
  PROVE  Good(s, i, p)
<1>0. Len(s) \in Nat /\ i \in Nat \ {0}
  BY LenProperties
<1>1. ASSUME NEW mark, IsMark(mark), Starts(s, i, mark), TagAt(s, i), NEW token \in Tokens,
             p = [out |-> <<token>>, next |-> i + Len(mark)]
      PROVE  Good(s, i, p)
  <2>1. p.out \in Seq(Tokens)
    BY <1>1, OneIs
  <2>2. Len(mark) \in Nat \ {0} /\ i + Len(mark) - 1 <= Len(s)
    BY <1>1 DEF IsMark, Starts
  <2>3. p.next \in (i + 1)..(Len(s) + 1) /\ p.next - 1 = i + Len(mark) - 1
    BY <2>2, <1>0, <1>1
  <2>4. \A j \in i..(p.next - 1) : s[j] \notin Letter
    BY <2>3, <1>0, <1>1, MarkIsNoLetter
  <2> QED BY <2>1, <2>3, <2>4, <1>1 DEF Good
<1>2. CASE Starts(s, i, <<"<", "b", ">">>)
  <2> DEFINE mark == <<"<", "b", ">">>
  <2>1. p = [out |-> <<Opening("b")>>, next |-> i + 3]
    BY <1>2 DEF OwnTag
  <2>2. IsMark(mark) /\ Len(mark) = 3
    BY MarksAre
  <2>3. Starts(s, i, mark) /\ TagAt(s, i)
    BY <1>2 DEF TagAt
  <2>4. Opening("b") \in Tokens
    BY DEF Opening, Tokens, Syms, Names
  <2> HIDE DEF mark
  <2> QED BY <1>1, <2>1, <2>2, <2>3, <2>4
<1>3. CASE ~Starts(s, i, <<"<", "b", ">">>) /\ Starts(s, i, <<"<", "/", "b", ">">>)
  <2> DEFINE mark == <<"<", "/", "b", ">">>
  <2>1. p = [out |-> <<Closing("b")>>, next |-> i + 4]
    <3>1. OwnTag(s, i) = {[out |-> <<Closing("b")>>, next |-> i + 4]}
      BY <1>3 DEF OwnTag
    <3> QED BY <3>1
  <2>2. IsMark(mark) /\ Len(mark) = 4
    BY MarksAre
  <2>3. Starts(s, i, mark) /\ TagAt(s, i)
    BY <1>3 DEF TagAt
  <2>4. Closing("b") \in Tokens
    BY DEF Closing, Tokens, Syms, Names
  <2> HIDE DEF mark
  <2> QED BY <1>1, <2>1, <2>2, <2>3, <2>4
<1>4. CASE ~TagAt(s, i)
  <2> DEFINE t == <<Escape(s, i)>>
  <2>1. p = [out |-> t, next |-> i + 1]
    BY <1>4 DEF OwnTag, TagAt
  <2>2. t \in Seq(Tokens) /\ WellFormed(t) /\ (s[i] \in Letter => ShownIn(t, s, i))
    BY SinglesAre
  <2> HIDE DEF t
  <2>3. p.next \in (i + 1)..(Len(s) + 1) /\ i..(p.next - 1) = {i}
    BY <1>0, <2>1
  <2> QED BY <2>1, <2>2, <2>3 DEF Good
<1> QED BY <1>2, <1>3, <1>4 DEF TagAt

LEMMA HeaderIsGood ==
  ASSUME NEW s \in Seq(Syms), NEW i \in 1..Len(s), NEW p \in Header(s, i)
  PROVE  Good(s, i, p)
<1> DEFINE places == {j \in i..Len(s) : s[j] # "#"} \cup {Len(s) + 1}
           text == Min(places)
           lineEnd == Find(s, text, <<"nl">>)
           end == IF lineEnd = 0 THEN Len(s) + 1 ELSE lineEnd
           blank == [is |-> "text", sym |-> "nl", from |-> 0]
           inner == Escaped(s, text + 1, end - 1)
           after == IF lineEnd = 0 THEN end ELSE end + 1
<1>0. Len(s) \in Nat /\ i \in Nat \ {0}
  BY LenProperties
<1>1. /\ text - i \in 1..3 /\ text <= Len(s) /\ s[text] = " "
      /\ p = [out |-> Wrapped("b", inner) \o <<blank, blank>>, next |-> after]
  BY DEF Header
<1>2. text \in places /\ \A x \in places : text <= x
  <2>1. places \in SUBSET Nat /\ places # {}
    BY <1>0
  <2> HIDE DEF places
  <2> QED BY <2>1, MinIs
<1>3. text \in i..Len(s) /\ \A j \in i..(text - 1) : s[j] = "#"
  <2>1. text \in Nat
    BY <1>0, <1>2
  <2>2. text \in i..Len(s)
    <3>1. text - i \in 1..3 /\ text <= Len(s)
      BY <1>1
    <3> HIDE DEF text
    <3> QED BY <3>1, <1>0, <2>1
  <2>3. ASSUME NEW j \in i..(text - 1), s[j] # "#" PROVE FALSE
    <3>1. j \in i..Len(s) /\ ~(text <= j)
      <4> HIDE DEF text
      <4> QED BY <1>0, <2>2
    <3>2. j \in places
      BY <3>1, <2>3
    <3> HIDE DEF text, places
    <3> QED BY <3>1, <3>2, <1>2
  <2> QED BY <2>2, <2>3
<1> HIDE DEF places, text
<1>4. /\ end \in text..(Len(s) + 1) /\ end \in Nat
      /\ after \in (i + 1)..(Len(s) + 1)
      /\ \A j \in end..(after - 1) : s[j] = "nl"
  <2>1. text \in Nat \ {0}
    BY <1>0, <1>3
  <2>2. \/ lineEnd = 0
        \/ lineEnd \in text..Len(s) /\ lineEnd # 0 /\ Starts(s, lineEnd, <<"nl">>)
    BY <2>1, FindIs
  <2> HIDE DEF lineEnd
  <2>3. lineEnd # 0 => s[lineEnd] = "nl"
    <3> SUFFICES ASSUME lineEnd # 0 PROVE s[lineEnd] = "nl"
      OBVIOUS
    <3>1. 1 \in DOMAIN <<"nl">> /\ <<"nl">>[1] = "nl" /\ lineEnd + 1 - 1 = lineEnd
      BY <2>1, <2>2
    <3> QED BY <3>1, <2>2 DEF Starts
  <2>4. CASE lineEnd = 0
    <3>1. end = Len(s) + 1 /\ after = Len(s) + 1
      BY <2>4
    <3> HIDE DEF end, after
    <3>2. end \in text..(Len(s) + 1) /\ end \in Nat /\ after \in (i + 1)..(Len(s) + 1)
      BY <3>1, <1>0, <1>3
    <3>3. \A j \in end..(after - 1) : FALSE
      BY <3>1, <1>0
    <3> QED BY <3>2, <3>3
  <2>5. CASE lineEnd # 0
    <3>1. end = lineEnd /\ after = lineEnd + 1
      BY <2>5
    <3> HIDE DEF end, after
    <3>2. end \in text..(Len(s) + 1) /\ end \in Nat /\ after \in (i + 1)..(Len(s) + 1)
      BY <2>2, <2>5, <3>1, <1>0, <1>3
    <3>3. \A j \in end..(after - 1) : j = lineEnd
      BY <3>1, <3>2
    <3> QED BY <3>2, <3>3, <2>3, <2>5
  <2> QED BY <2>4, <2>5
<1> HIDE DEF lineEnd, end, after
<1>5. Quiet(inner) /\ \A l \in (text + 1)..(end - 1) : s[l] \in Letter => ShownIn(inner, s, l)
  <2>1. text + 1 \in Nat \ {0} /\ end - 1 \in Int /\ end - 1 <= Len(s)
    BY <1>0, <1>3, <1>4
  <2> QED BY <2>1, EscapedIs
<1> HIDE DEF inner
<1> DEFINE heading == Wrapped("b", inner)
           lines == <<blank, blank>>
<1>6. heading \in Seq(Tokens) /\ WellFormed(heading)
  <2>1. "b" \in Syms
    BY DEF Syms, Names
  <2> QED BY <2>1, <1>5, WrappedIs, WrappedIsWellFormed
<1>7. lines \in Seq(Tokens) /\ WellFormed(lines)
  <2>1. blank \in Tokens /\ blank.is = "text" /\ blank.sym \notin Special
    BY DEF Tokens, Syms, Names, Special
  <2>2. Len(lines) = 2 /\ lines[1] = blank /\ lines[2] = blank
    OBVIOUS
  <2>3. lines \in Seq(Tokens)
    BY <2>1
  <2>4. Quiet(lines)
    <3> HIDE DEF lines, blank
    <3>1. \A k \in 1..Len(lines) : lines[k] = blank
      BY <2>2
    <3> QED BY <3>1, <2>1, <2>3 DEF Quiet
  <2> HIDE DEF lines
  <2> QED BY <2>3, <2>4, QuietIsWellFormed
<1>8. p.out = heading \o lines /\ p.next = after
  BY <1>1
<1> HIDE DEF lines
<1>9. p.out \in Seq(Tokens) /\ WellFormed(p.out)
  <2> HIDE DEF heading
  <2> QED BY <1>6, <1>7, <1>8, WellFormedConcat, ConcatProperties
<1>10. ASSUME NEW j \in i..(p.next - 1), s[j] \in Letter PROVE ShownIn(p.out, s, j)
  <2>1. \/ j \in i..(text - 1) \/ j = text
        \/ j \in (text + 1)..(end - 1) \/ j \in end..(after - 1)
    BY <1>0, <1>3, <1>4, <1>8, <1>10
  <2>2. s[j] # "#" /\ s[j] # " " /\ s[j] # "nl"
    BY <1>10 DEF Letter
  <2>3. ShownIn(inner, s, j)
    BY <2>1, <2>2, <1>1, <1>3, <1>4, <1>5, <1>10
  <2>4. ShownIn(heading, s, j)
    <3>1. "b" \in Syms
      BY DEF Syms, Names
    <3> QED BY <3>1, <2>3, <1>5, ShownWrapped
  <2> HIDE DEF heading
  <2> QED BY <2>4, <1>6, <1>7, <1>8, ShownConcat
<1> QED BY <1>4, <1>8, <1>9, <1>10 DEF Good

(* Any single character as a mark. *)
LEMMA FindOneIs ==
  ASSUME NEW s \in Seq(Syms), NEW i \in Nat \ {0}, NEW c
  PROVE  \/ Find(s, i, <<c>>) = 0 /\ \A j \in i..Len(s) : s[j] # c
         \/ /\ Find(s, i, <<c>>) \in i..Len(s) /\ Find(s, i, <<c>>) # 0 /\ s[Find(s, i, <<c>>)] = c
            /\ \A j \in i..(Find(s, i, <<c>>) - 1) : s[j] # c
<1> DEFINE mark == <<c>>
<1>0. Len(s) \in Nat
  BY LenProperties
<1>1. Len(mark) = 1 /\ DOMAIN mark = {1} /\ mark[1] = c
  OBVIOUS
<1> HIDE DEF mark
<1>2. \A j \in i..Len(s) : Starts(s, j, mark) <=> s[j] = c
  <2> SUFFICES ASSUME NEW j \in i..Len(s) PROVE Starts(s, j, mark) <=> s[j] = c
    OBVIOUS
  <2>1. j + 1 - 1 = j /\ j + 1 - 1 <= Len(s)
    BY <1>0
  <2> QED BY <2>1, <1>1 DEF Starts
<1>3. CASE Find(s, i, mark) = 0 /\ \A j \in i..Len(s) : ~Starts(s, j, mark)
  BY <1>2, <1>3 DEF mark
<1>4. CASE /\ Find(s, i, mark) \in i..Len(s) /\ Find(s, i, mark) # 0
           /\ Starts(s, Find(s, i, mark), mark)
           /\ \A j \in i..(Find(s, i, mark) - 1) : ~Starts(s, j, mark)
  <2>1. \A j \in i..(Find(s, i, mark) - 1) : j \in i..Len(s)
    BY <1>0, <1>4
  <2>2. s[Find(s, i, mark)] = c /\ \A j \in i..(Find(s, i, mark) - 1) : s[j] # c
    BY <2>1, <1>2, <1>4
  <2> QED BY <2>2, <1>4 DEF mark
<1> QED BY <1>3, <1>4, FindIs

LEMMA LinkIsGood ==
  ASSUME NEW s \in Seq(Syms), NEW i \in 1..Len(s), NEW p \in Link(s, i)
  PROVE  Good(s, i, p)
<1> DEFINE close == Find(s, i + 1, <<"]">>)
           end == Find(s, close + 2, <<")">>)
           address == Escaped(s, close + 2, end - 1)
           inner == Escaped(s, i + 1, close - 1)
           text == Wrapped("a", inner)
<1>0. Len(s) \in Nat /\ i \in Nat \ {0}
  BY LenProperties
<1>1. /\ s[i] = "[" /\ close # 0 /\ close < Len(s) /\ s[close + 1] = "(" /\ end # 0
      /\ p = [out |-> address \o text, next |-> end + 1]
  BY DEF Link
<1>2. close \in (i + 1)..Len(s) /\ s[close] = "]"
  <2>1. i + 1 \in Nat \ {0}
    BY <1>0
  <2> QED BY <2>1, <1>1, FindOneIs
<1> HIDE DEF close
<1>3. end \in (close + 2)..Len(s) /\ s[end] = ")"
  <2>1. close + 2 \in Nat \ {0}
    BY <1>0, <1>2
  <2> QED BY <2>1, <1>1, FindOneIs
<1> HIDE DEF end
<1>4. Quiet(inner) /\ \A l \in (i + 1)..(close - 1) : s[l] \in Letter => ShownIn(inner, s, l)
  <2>1. i + 1 \in Nat \ {0} /\ close - 1 \in Int /\ close - 1 <= Len(s)
    BY <1>0, <1>2
  <2> QED BY <2>1, EscapedIs
<1>5. Quiet(address) /\ \A l \in (close + 2)..(end - 1) : s[l] \in Letter => ShownIn(address, s, l)
  <2>1. close + 2 \in Nat \ {0} /\ end - 1 \in Int /\ end - 1 <= Len(s)
    BY <1>0, <1>2, <1>3
  <2> QED BY <2>1, EscapedIs
<1> HIDE DEF inner, address
<1>6. "a" \in Syms
  BY DEF Syms, Names
<1>7. text \in Seq(Tokens) /\ WellFormed(text) /\ address \in Seq(Tokens) /\ WellFormed(address)
  <2>1. text \in Seq(Tokens) /\ WellFormed(text)
    BY <1>4, <1>6, WrappedIs, WrappedIsWellFormed
  <2>2. address \in Seq(Tokens) /\ WellFormed(address)
    BY <1>5, QuietIsWellFormed DEF Quiet
  <2> QED BY <2>1, <2>2
<1>8. \A j \in (i + 1)..(close - 1) : s[j] \in Letter => ShownIn(text, s, j)
  BY <1>4, <1>6, ShownWrapped
<1> HIDE DEF text
<1>9. p.out = address \o text /\ p.next = end + 1
  BY <1>1
<1>10. p.out \in Seq(Tokens) /\ WellFormed(p.out)
  BY <1>7, <1>9, WellFormedConcat, ConcatProperties
<1>11. p.next \in (i + 1)..(Len(s) + 1)
  BY <1>0, <1>2, <1>3, <1>9
<1>12. ASSUME NEW j \in i..(p.next - 1), s[j] \in Letter PROVE ShownIn(p.out, s, j)
  <2>1. \/ j = i \/ j \in (i + 1)..(close - 1) \/ j = close \/ j = close + 1
        \/ j \in (close + 2)..(end - 1) \/ j = end
    BY <1>0, <1>2, <1>3, <1>9, <1>12
  <2>2. s[j] # "[" /\ s[j] # "]" /\ s[j] # "(" /\ s[j] # ")"
    BY <1>12 DEF Letter
  <2>3. ShownIn(address, s, j) \/ ShownIn(text, s, j)
    BY <2>1, <2>2, <1>1, <1>2, <1>3, <1>5, <1>8, <1>12
  <2> QED BY <2>3, <1>7, <1>9, ShownConcat
<1> QED BY <1>10, <1>11, <1>12 DEF Good

(* What is passed over behind a fence is the rest of a line without another. *)
LEMMA FenceIsGood ==
  ASSUME NEW s \in Seq(Syms), NEW i \in 1..Len(s), NEW p \in Fence(s, i)
  PROVE  Good(s, i, p)
<1> DEFINE start == i + 3
           close == Find(s, start, FenceMark)
           lineEnd == Find(s, start, <<"nl">>)
           hinted == lineEnd # 0 /\ (close = 0 \/ lineEnd < close)
           code == IF hinted THEN lineEnd + 1 ELSE start
           stop == IF close # 0 THEN close ELSE Max({code, Len(s) - 1})
           inner == Escaped(s, code, stop - 1)
<1>0. Len(s) \in Nat /\ i \in Nat \ {0} /\ start \in Nat \ {0}
  BY LenProperties
<1>1. Starts(s, i, FenceMark)
  BY DEF Fence
<1>2. p = IF close # 0 THEN [out |-> Wrapped("pre", inner), next |-> close + 3]
                       ELSE [out |-> inner, next |-> stop]
  <2>1. close # 0 => stop = close
    OBVIOUS
  <2>2. p \in {IF close # 0
               THEN [out |-> Wrapped("pre", Escaped(s, code, close - 1)), next |-> close + 3]
               ELSE [out |-> Escaped(s, code, stop - 1), next |-> stop]}
    BY DEF Fence
  <2> HIDE DEF close, code, stop
  <2> QED BY <2>1, <2>2
<1>3. i + 2 <= Len(s)
  BY <1>0, <1>1, MarksAre DEF Starts
<1>4. \/ close = 0 /\ \A j \in start..Len(s) : ~Starts(s, j, FenceMark)
      \/ /\ close \in start..Len(s) /\ close # 0 /\ Starts(s, close, FenceMark)
         /\ \A j \in start..(close - 1) : ~Starts(s, j, FenceMark)
  <2> HIDE DEF start
  <2> QED BY <1>0, FindIs
<1>5. \/ lineEnd = 0
      \/ /\ lineEnd \in start..Len(s) /\ lineEnd # 0 /\ s[lineEnd] = "nl"
         /\ \A j \in start..(lineEnd - 1) : s[j] # "nl"
  <2> HIDE DEF start
  <2> QED BY <1>0, FindOneIs
<1>6. close # 0 => close + 2 <= Len(s)
  <2> HIDE DEF close
  <2> QED BY <1>0, <1>4, MarksAre DEF Starts
<1> HIDE DEF close, lineEnd
<1>7. code \in start..(Len(s) + 1) /\ (close # 0 => code <= close)
  BY <1>0, <1>3, <1>4, <1>5
<1>8. stop \in code..(Len(s) + 1) /\ stop - 1 <= Len(s) /\ stop - 1 \in Int
  <2>1. CASE close # 0
    BY <2>1, <1>0, <1>4, <1>7
  <2>2. CASE close = 0
    <3> HIDE DEF code
    <3>1. Len(s) - 1 \in Nat /\ code \in Nat
      BY <1>0, <1>3, <1>7
    <3> DEFINE S == {code, Len(s) - 1}
    <3>2. S \in SUBSET (0..(Len(s) + 1)) /\ S # {} /\ Len(s) + 1 \in Nat
      BY <1>0, <1>7, <3>1
    <3>3. Max(S) \in S /\ \A x \in S : x <= Max(S)
      <4> HIDE DEF S
      <4> QED BY <3>2, MaxIs
    <3>4. stop = Max(S)
      BY <2>2
    <3> HIDE DEF stop
    <3> QED BY <3>1, <3>3, <3>4, <1>0, <1>7
  <2> QED BY <2>1, <2>2
<1>9. Quiet(inner) /\ \A l \in code..(stop - 1) : s[l] \in Letter => ShownIn(inner, s, l)
  <2>1. code \in Nat \ {0}
    <3> HIDE DEF code
    <3> QED BY <1>0, <1>7
  <2> HIDE DEF code, stop
  <2> QED BY <2>1, <1>8, EscapedIs
<1>10. ASSUME NEW j \in start..(code - 1), s[j] \in Letter PROVE Hint(s, j)
  <2>1. hinted /\ code = lineEnd + 1
    BY <1>0, <1>10
  <2>2. j \in start..lineEnd /\ lineEnd \in start..Len(s) /\ s[lineEnd] = "nl"
    <3> HIDE DEF code
    <3> QED BY <2>1, <1>0, <1>5, <1>10
  <2>3. j # lineEnd /\ j \in start..(lineEnd - 1)
    <3>1. s[j] # "nl"
      BY <1>10 DEF Letter
    <3> QED BY <3>1, <2>2, <1>0
  <2>4. i \in Fences(s) /\ i < j
    <3>1. i \in 1..(Len(s) - 2) /\ i < j
      BY <1>0, <1>3, <2>3
    <3> QED BY <3>1, <1>1 DEF Fences
  <2>5. SameLine(s, i, j)
    <3> SUFFICES ASSUME NEW l \in i..j PROVE s[l] # "nl"
      BY DEF SameLine
    <3>1. l \in i..(i + 2) \/ l \in start..(lineEnd - 1)
      BY <1>0, <2>2, <2>3
    <3>2. l \in i..(i + 2) => s[l] = "tick"
      <4> SUFFICES ASSUME l \in i..(i + 2) PROVE s[l] = "tick"
        OBVIOUS
      <4>1. l - i + 1 \in 1..3 /\ i + (l - i + 1) - 1 = l
        BY <1>0
      <4>2. s[l] = FenceMark[l - i + 1]
        <5>1. \A k \in 1..3 : s[i + k - 1] = FenceMark[k]
          BY <1>1, MarksAre DEF Starts, IsMark
        <5> QED BY <4>1, <5>1
      <4>3. l - i + 1 = 1 \/ l - i + 1 = 2 \/ l - i + 1 = 3
        BY <4>1
      <4> QED BY <4>2, <4>3, MarksAre
    <3> QED BY <3>1, <3>2, <2>1, <1>5
  <2>6. ASSUME NEW k \in Fences(s), k > j, SameLine(s, j, k) PROVE FALSE
    <3>1. k \in 1..(Len(s) - 2) /\ Starts(s, k, FenceMark) /\ k \in Nat
      BY <1>0 DEF Fences
    <3>2. k \in start..Len(s)
      BY <1>0, <2>3, <2>6, <3>1
    <3>3. k < lineEnd
      <4> SUFFICES ASSUME ~(k < lineEnd) PROVE FALSE
        OBVIOUS
      <4>1. lineEnd \in j..k
        BY <1>0, <2>2, <2>3, <3>1
      <4> QED BY <4>1, <2>2, <2>6 DEF SameLine
    <3>4. k \in start..(close - 1) \/ close = 0
      BY <2>1, <2>2, <3>2, <3>3, <1>0, <1>4
    <3> QED BY <3>1, <3>2, <3>4, <1>4
  <2> QED BY <2>4, <2>5, <2>6 DEF Hint
<1> HIDE DEF code, inner
<1>11. "pre" \in Syms
  BY DEF Syms, Names
<1>12. p.out \in Seq(Tokens) /\ WellFormed(p.out)
       /\ \A l \in code..(stop - 1) : s[l] \in Letter => ShownIn(p.out, s, l)
  <2>1. CASE close # 0
    <3>1. p.out = Wrapped("pre", inner)
      BY <2>1, <1>2
    <3> HIDE DEF stop
    <3>2. Wrapped("pre", inner) \in Seq(Tokens) /\ WellFormed(Wrapped("pre", inner))
      BY <1>9, <1>11, WrappedIs, WrappedIsWellFormed
    <3>3. ASSUME NEW l \in code..(stop - 1), s[l] \in Letter
          PROVE  ShownIn(Wrapped("pre", inner), s, l)
      BY <3>3, <1>9, <1>11, ShownWrapped
    <3> QED BY <3>1, <3>2, <3>3
  <2>2. CASE close = 0
    <3>1. p.out = inner
      BY <2>2, <1>2
    <3> HIDE DEF stop
    <3> QED BY <3>1, <1>9, QuietIsWellFormed DEF Quiet
  <2> QED BY <2>1, <2>2
<1>13. /\ p.next \in (i + 1)..(Len(s) + 1)
       /\ close = 0 => p.next = stop
       /\ close # 0 => p.next = close + 3 /\ stop = close
  <2>1. CASE close # 0
    <3>1. p.next = close + 3 /\ stop = close
      BY <2>1, <1>2
    <3> QED BY <3>1, <2>1, <1>0, <1>4, <1>6
  <2>2. CASE close = 0
    <3>1. p.next = stop
      BY <2>2, <1>2
    <3> HIDE DEF stop
    <3> QED BY <3>1, <2>2, <1>0, <1>7, <1>8
  <2> QED BY <2>1, <2>2
<1> HIDE DEF stop
<1>14. ASSUME NEW j \in i..(p.next - 1), s[j] \in Letter PROVE ShownIn(p.out, s, j) \/ Hint(s, j)
  <2>1. j \in i..(i + 2) \/ j \in start..(code - 1) \/ j \in code..(stop - 1) \/ (close # 0 /\ j \in close..(close + 2))
    <3>1. CASE j < start
      BY <3>1, <1>0, <1>4, <1>14
    <3>2. CASE start <= j /\ j < stop
      BY <3>2, <1>0, <1>4, <1>7, <1>8, <1>14
    <3>3. CASE stop <= j
      BY <3>3, <1>0, <1>8, <1>13, <1>14
    <3> QED BY <3>1, <3>2, <3>3, <1>0, <1>4, <1>8, <1>14
  <2>2. j \notin i..(i + 2)
    <3>1. \A l \in i..(i + Len(FenceMark) - 1) : s[l] \notin Letter
      BY <1>0, <1>1, MarksAre, MarkIsNoLetter
    <3>2. i + Len(FenceMark) - 1 = i + 2
      BY <1>0, MarksAre
    <3> QED BY <3>1, <3>2, <1>14
  <2>3. close # 0 => j \notin close..(close + 2)
    <3> SUFFICES ASSUME close # 0 PROVE j \notin close..(close + 2)
      OBVIOUS
    <3>1. close \in Nat \ {0} /\ Starts(s, close, FenceMark)
      BY <1>0, <1>4
    <3>2. \A l \in close..(close + Len(FenceMark) - 1) : s[l] \notin Letter
      BY <3>1, MarksAre, MarkIsNoLetter
    <3>3. close + Len(FenceMark) - 1 = close + 2
      BY <3>1, MarksAre
    <3> QED BY <3>2, <3>3, <1>14
  <2> QED BY <2>1, <2>2, <2>3, <1>10, <1>12, <1>14
<1> QED BY <1>12, <1>13, <1>14 DEF Good

LEMMA PieceIsGood ==
  ASSUME NEW s \in Seq(Syms), NEW i \in 1..Len(s)
  PROVE  Good(s, i, Piece(s, i))
<1> DEFINE constructs == <<Fence(s, i), Between(s, i, <<"tick">>, "code"), OwnTag(s, i), Header(s, i),
                           Between(s, i, <<"*", "*">>, "b"), Between(s, i, <<"~", "~">>, "s"),
                           Italic(s, i), Link(s, i), Character(s, i)>>
           applicable == {k \in DOMAIN constructs : constructs[k] # {}}
           p == Piece(s, i)
<1>1. DOMAIN constructs = 1..9
  OBVIOUS
<1>2. /\ constructs[1] = Fence(s, i) /\ constructs[2] = Between(s, i, <<"tick">>, "code")
      /\ constructs[3] = OwnTag(s, i) /\ constructs[4] = Header(s, i)
      /\ constructs[5] = Between(s, i, <<"*", "*">>, "b")
      /\ constructs[6] = Between(s, i, <<"~", "~">>, "s")
      /\ constructs[7] = Italic(s, i) /\ constructs[8] = Link(s, i)
      /\ constructs[9] = Character(s, i)
  OBVIOUS
<1>3. p = CHOOSE q \in constructs[Min(applicable)] : TRUE
  BY DEF Piece
<1> HIDE DEF constructs, p
<1>4. Min(applicable) \in applicable
  <2>1. Character(s, i) # {}
    BY DEF Character
  <2>2. 9 \in applicable /\ applicable \in SUBSET Nat
    BY <2>1, <1>1, <1>2
  <2> HIDE DEF applicable
  <2> QED BY <2>2, MinIs
<1>5. PICK k \in 1..9 : p \in constructs[k]
  <2>1. Min(applicable) \in 1..9 /\ constructs[Min(applicable)] # {}
    BY <1>1, <1>4
  <2> HIDE DEF applicable
  <2> QED BY <2>1, <1>3
<1>6. "code" \in Syms /\ "b" \in Syms /\ "s" \in Syms
  BY DEF Syms, Names
<1>7. \/ k = 1 \/ k = 2 \/ k = 3 \/ k = 4 \/ k = 5 \/ k = 6 \/ k = 7 \/ k = 8 \/ k = 9
  OBVIOUS
<1>8. CASE k = 1
  BY <1>2, <1>5, <1>8, FenceIsGood DEF p
<1>9. CASE k = 2
  BY <1>2, <1>5, <1>6, <1>9, BetweenIsGood, MarksAre DEF p
<1>10. CASE k = 3
  BY <1>2, <1>5, <1>10, OwnTagIsGood DEF p
<1>11. CASE k = 4
  BY <1>2, <1>5, <1>11, HeaderIsGood DEF p
<1>12. CASE k = 5
  BY <1>2, <1>5, <1>6, <1>12, BetweenIsGood, MarksAre DEF p
<1>13. CASE k = 6
  BY <1>2, <1>5, <1>6, <1>13, BetweenIsGood, MarksAre DEF p
<1>14. CASE k = 7
  BY <1>2, <1>5, <1>14, ItalicIsGood DEF p
<1>15. CASE k = 8
  BY <1>2, <1>5, <1>15, LinkIsGood DEF p
<1>16. CASE k = 9
  BY <1>2, <1>5, <1>16, CharacterIsGood DEF p
<1> QED BY <1>7, <1>8, <1>9, <1>10, <1>11, <1>12, <1>13, <1>14, <1>15, <1>16

-----------------------------------------------------------------------------
(* The loop over the text. *)

ReadTo(s) ==
  CHOOSE round : round = [n \in 0..Len(s) |->
    IF n = 0 THEN [out |-> <<>>, next |-> 1] ELSE TakePiece(s, round[n - 1])]

(* What has been read when the loop is at st.next. *)
Read(s, st) ==
  /\ st \in [out : Seq(Tokens), next : 1..(Len(s) + 1)]
  /\ WellFormed(st.out) \/ \E i \in 1..Len(s) : TagAt(s, i)
  /\ \A j \in 1..(st.next - 1) : s[j] \in Letter => ShownIn(st.out, s, j) \/ Hint(s, j)

LEMMA TakePieceReads ==
  ASSUME NEW s \in Seq(Syms), NEW st, Read(s, st)
  PROVE  /\ Read(s, TakePiece(s, st))
         /\ TakePiece(s, st).next > st.next \/ TakePiece(s, st).next = Len(s) + 1
<1>0. Len(s) \in Nat /\ st.next \in 1..(Len(s) + 1) /\ st.out \in Seq(Tokens)
  BY LenProperties DEF Read
<1>1. CASE st.next > Len(s)
  BY <1>0, <1>1 DEF TakePiece
<1>2. CASE ~(st.next > Len(s))
  <2> DEFINE p == Piece(s, st.next)
             to == [out |-> st.out \o p.out, next |-> p.next]
  <2>1. TakePiece(s, st) = to
    BY <1>2 DEF TakePiece
  <2>2. st.next \in 1..Len(s)
    BY <1>0, <1>2
  <2>3. Good(s, st.next, p)
    BY <2>2, PieceIsGood
  <2> HIDE DEF p
  <2>4. p.out \in Seq(Tokens) /\ p.next \in (st.next + 1)..(Len(s) + 1)
    BY <2>3 DEF Good
  <2>5. to \in [out : Seq(Tokens), next : 1..(Len(s) + 1)] /\ to.next > st.next
    <3>1. st.out \o p.out \in Seq(Tokens)
      BY <1>0, <2>4, ConcatProperties
    <3>2. p.next \in 1..(Len(s) + 1) /\ p.next > st.next
      BY <1>0, <2>2, <2>4
    <3> QED BY <3>1, <3>2
  <2>6. WellFormed(to.out) \/ \E i \in 1..Len(s) : TagAt(s, i)
    BY <1>0, <2>2, <2>3, <2>4, WellFormedConcat DEF Good, Read
  <2>7. ASSUME NEW j \in 1..(to.next - 1), s[j] \in Letter PROVE ShownIn(to.out, s, j) \/ Hint(s, j)
    <3>1. j \in 1..(st.next - 1) \/ j \in st.next..(p.next - 1)
      BY <1>0, <2>2, <2>4
    <3>2. ShownIn(st.out, s, j) \/ ShownIn(p.out, s, j) \/ Hint(s, j)
      BY <3>1, <2>3, <2>7 DEF Good, Read
    <3> QED BY <3>2, <1>0, <2>4, ShownConcat
  <2> HIDE DEF to
  <2> QED BY <2>1, <2>5, <2>6, <2>7 DEF Read
<1> QED BY <1>1, <1>2

LEMMA EmptyIsRead ==
  ASSUME NEW s \in Seq(Syms)
  PROVE  Read(s, [out |-> <<>>, next |-> 1])
<1>0. Len(s) \in Nat
  BY LenProperties
<1>1. <<>> \in Seq(Tokens) /\ Len(<<>>) = 0
  BY EmptySeq
<1>2. WellFormed(<<>>)
  <2>1. PICK t \in Seq(Tokens) : t = <<>> /\ Len(t) = 0
    BY <1>1
  <2>2. Quiet(t)
    BY <2>1 DEF Quiet
  <2> QED BY <2>1, <2>2, QuietIsWellFormed
<1>3. 1 \in 1..(Len(s) + 1) /\ \A j \in 1..(1 - 1) : FALSE
  BY <1>0
<1> QED BY <1>1, <1>2, <1>3 DEF Read

(* What is made of a text: Telegram takes it unless the text has tags, and
   every letter is in it, but for names of languages. *)
LEMMA ConvertIs ==
  ASSUME NEW s \in Seq(Syms)
  PROVE  /\ Convert(s) \in Seq(Tokens)
         /\ WellFormed(Convert(s)) \/ \E i \in 1..Len(s) : TagAt(s, i)
         /\ \A j \in 1..Len(s) : s[j] \in Letter => ShownIn(Convert(s), s, j) \/ Hint(s, j)
<1> DEFINE N == Len(s)
           S == {st \in [out : Seq(Tokens), next : 1..(Len(s) + 1)] : Read(s, st)}
           none == [out |-> <<>>, next |-> 1]
           step == [p \in S \X Nat |-> TakePiece(s, p[1])]
<1>0. N \in Nat
  BY LenProperties
<1>1. none \in S
  <2>1. Read(s, none)
    BY EmptyIsRead
  <2> HIDE DEF none
  <2> QED BY <2>1 DEF Read
<1>2. \A st \in S : TakePiece(s, st) \in S /\ (TakePiece(s, st).next > st.next \/ TakePiece(s, st).next = Len(s) + 1)
  <2> SUFFICES ASSUME NEW st \in S
               PROVE  TakePiece(s, st) \in S /\ (TakePiece(s, st).next > st.next \/ TakePiece(s, st).next = Len(s) + 1)
    OBVIOUS
  <2>1. Read(s, st)
    OBVIOUS
  <2>2. Read(s, TakePiece(s, st)) /\ (TakePiece(s, st).next > st.next \/ TakePiece(s, st).next = Len(s) + 1)
    BY <2>1, TakePieceReads
  <2> QED BY <2>2 DEF Read
<1>3. step \in Rounds(S)
  <2> HIDE DEF S
  <2> QED BY <1>2 DEF Rounds
<1>4. PICK f : IsLoop(f, N, S, none, step)
  <2> HIDE DEF N, S, none, step
  <2> QED BY <1>0, <1>1, <1>3, Recursion
<1>5. f \in [0..N -> S] /\ f[0] = none
  BY <1>4 DEF IsLoop
<1>6. ASSUME NEW n \in 0..N, n # 0 PROVE f[n] = TakePiece(s, f[n - 1])
  <2>1. n \in 1..N /\ n - 1 \in 0..N /\ n \in Nat
    BY <1>0, <1>6
  <2>2. f[n] = step[<<f[n - 1], n>>]
    <3> HIDE DEF step, S, none, N
    <3> QED BY <2>1, <1>4 DEF IsLoop
  <2>3. f[n - 1] \in S
    <3> HIDE DEF S, N
    <3> QED BY <1>5, <2>1
  <2>4. <<f[n - 1], n>> \in S \X Nat
    BY <2>1, <2>3
  <2>5. step[<<f[n - 1], n>>] = TakePiece(s, f[n - 1])
    <3> HIDE DEF S, N, none
    <3> QED BY <2>1, <2>4
  <2> QED BY <2>2, <2>5
<1>7. f = [n \in 0..N |-> IF n = 0 THEN [out |-> <<>>, next |-> 1] ELSE TakePiece(s, f[n - 1])]
  <2>1. \A n \in 0..N : f[n] = IF n = 0 THEN [out |-> <<>>, next |-> 1] ELSE TakePiece(s, f[n - 1])
    BY <1>5, <1>6
  <2> HIDE DEF N, S
  <2> QED BY <2>1, <1>5
<1> DEFINE g == ReadTo(s)
<1>8. g = [n \in 0..N |-> IF n = 0 THEN none ELSE TakePiece(s, g[n - 1])]
  BY <1>7 DEF ReadTo
<1>9. Convert(s) = g[N].out
  BY DEF Convert, ReadTo
<1> HIDE DEF none, g
<1>10. g[0] = none /\ \A n \in 0..N : n # 0 => g[n] = TakePiece(s, g[n - 1])
  <2>1. 0 \in 0..N
    BY <1>0
  <2> HIDE DEF N
  <2> QED BY <1>8, <2>1
<1> DEFINE T == {n \in 0..N : g[n] \in S /\ g[n].next >= n + 1}
<1>11. 0 \in T
  <2>1. none.next = 1
    BY DEF none
  <2> HIDE DEF S, N
  <2> QED BY <2>1, <1>0, <1>1, <1>10
<1>12. ASSUME NEW n \in 0..N, n \in T, n < N PROVE n + 1 \in T
  <2>1. n + 1 \in 0..N /\ n + 1 # 0 /\ (n + 1) - 1 = n
    BY <1>0, <1>12
  <2>2. g[n + 1] = TakePiece(s, g[n])
    <3> HIDE DEF N, S
    <3> QED BY <2>1, <1>10
  <2>3. g[n] \in S /\ g[n].next >= n + 1
    BY <1>12
  <2>4. g[n].next \in 1..(Len(s) + 1)
    BY <2>3
  <2>5. /\ g[n + 1] \in S
        /\ g[n + 1].next > g[n].next \/ g[n + 1].next = Len(s) + 1
    <3> HIDE DEF S
    <3> QED BY <2>2, <2>3, <1>2
  <2>6. g[n + 1].next \in 1..(Len(s) + 1)
    BY <2>5
  <2>7. g[n + 1].next >= (n + 1) + 1
    <3> HIDE DEF S
    <3> QED BY <2>1, <2>3, <2>4, <2>5, <2>6, <1>0
  <2> HIDE DEF S, N
  <2> QED BY <2>1, <2>5, <2>7
<1>13. N \in T
  <2> HIDE DEF T, N
  <2>1. 0..N \subseteq T
    BY <1>0, <1>11, <1>12, UpTo
  <2>2. N \in 0..N
    BY <1>0
  <2> QED BY <2>1, <2>2
<1>14. Read(s, g[N]) /\ g[N].next = Len(s) + 1
  <2>1. g[N] \in S /\ g[N].next >= N + 1
    BY <1>13
  <2>2. Read(s, g[N]) /\ g[N].next \in 1..(Len(s) + 1)
    BY <2>1
  <2> QED BY <2>1, <2>2, <1>0
<1>15. \A j \in 1..Len(s) : j \in 1..(g[N].next - 1)
  BY <1>0, <1>14
<1> HIDE DEF N
<1> QED BY <1>9, <1>14, <1>15 DEF Read

-----------------------------------------------------------------------------
(* Where a chunk ends. *)

LEMMA NextChunkIs ==
  ASSUME NEW s \in Seq(Syms), NEW i \in 1..Len(s)
  PROVE  /\ NextChunk(s, i).last \in i..Len(s)
         /\ NextChunk(s, i).next \in (NextChunk(s, i).last + 1)..(Len(s) + 1)
         /\ \A j \in (NextChunk(s, i).last + 1)..(NextChunk(s, i).next - 1) : s[j] = "nl"
<1> DEFINE fits == {k \in i..Len(s) : Bytes(SubSeq(s, i, k)) <= ChunkLimit}
           safeEnd == Max(fits)
           paragraphs == {k \in i..safeEnd - 1 : Starts(s, k, <<"nl", "nl">>)}
           lines == {k \in fits : s[k] = "nl"}
           mark == CASE paragraphs # {} -> Max(paragraphs)
                     [] paragraphs = {} /\ lines # {} -> Max(lines)
                     [] OTHER -> i
           goesOn == {k \in mark..Len(s) : s[k] # "nl"} \cup {Len(s) + 1}
           c == NextChunk(s, i)
<1>0. Len(s) \in Nat /\ i \in Nat \ {0} /\ i <= Len(s)
  BY LenProperties
<1>1. c = IF safeEnd = Len(s) \/ mark = i THEN [last |-> safeEnd, next |-> safeEnd + 1]
          ELSE [last |-> mark - 1, next |-> Min(goesOn)]
  BY DEF NextChunk
<1>2. i \in fits
  <2> DEFINE one == SubSeq(s, i, i)
             wide == {k \in DOMAIN one : one[k] = "w"}
  <2>1. Len(one) = 1 /\ DOMAIN one = {1}
    <3>1. one \in Seq(Syms) /\ Len(one) = IF i <= i THEN i - i + 1 ELSE 0
      <4>1. i \in Int /\ \A k \in i..i : s[k] \in Syms
        BY <1>0, ElementOfSeq
      <4> QED BY <4>1, SubSeqProperties
    <3>2. Len(one) = 1
      BY <3>1, <1>0
    <3>3. DOMAIN one = 1..Len(one)
      BY <3>1, LenProperties
    <3> HIDE DEF one
    <3> QED BY <3>2, <3>3
  <2>2. Cardinality(wide) \in Nat /\ Cardinality(wide) <= 1
    <3>1. wide \in SUBSET {1} /\ IsFiniteSet({1}) /\ Cardinality({1}) = 1
      <4> HIDE DEF one
      <4> QED BY <2>1, FS_Singleton
    <3> HIDE DEF wide
    <3> QED BY <3>1, FS_Subset, FS_CardinalityType
  <2>3. Bytes(one) = Len(one) + Cardinality(wide)
    BY DEF Bytes
  <2> HIDE DEF wide
  <2>4. Bytes(one) <= ChunkLimit
    BY <2>1, <2>2, <2>3, ReplyAssumption
  <2> QED BY <2>4, <1>0
<1>3. safeEnd \in fits /\ safeEnd \in i..Len(s)
  <2>1. fits \in SUBSET (0..Len(s)) /\ fits # {}
    BY <1>0, <1>2
  <2>2. safeEnd \in fits
    <3> HIDE DEF fits
    <3> QED BY <2>1, <1>0, MaxIs
  <2> QED BY <2>2
<1>4. \A x \in fits : x <= safeEnd
  <2>1. fits \in SUBSET (0..Len(s)) /\ fits # {}
    BY <1>0, <1>2
  <2> HIDE DEF fits
  <2> QED BY <2>1, <1>0, MaxIs
<1>5. lines \subseteq fits
  OBVIOUS
<1> HIDE DEF fits, safeEnd
<1>6. mark \in i..safeEnd
  <2>1. CASE paragraphs # {}
    <3>1. paragraphs \in SUBSET (0..Len(s))
      BY <1>0, <1>3
    <3>2. Max(paragraphs) \in paragraphs
      <4> HIDE DEF paragraphs
      <4> QED BY <2>1, <3>1, <1>0, MaxIs
    <3>3. mark = Max(paragraphs)
      BY <2>1
    <3>4. Max(paragraphs) \in i..(safeEnd - 1)
      BY <3>2
    <3> HIDE DEF mark, paragraphs
    <3> QED BY <3>3, <3>4, <1>0, <1>3
  <2>2. CASE paragraphs = {} /\ lines # {}
    <3>1. \A x \in lines : x \in i..Len(s) /\ x <= safeEnd
      BY <1>4, <1>5 DEF fits
    <3>2. lines \in SUBSET (0..Len(s))
      BY <3>1, <1>0
    <3>3. Max(lines) \in lines
      <4> HIDE DEF lines
      <4> QED BY <2>2, <3>2, <1>0, MaxIs
    <3>4. mark = Max(lines)
      BY <2>2
    <3> HIDE DEF mark, lines
    <3> QED BY <3>1, <3>3, <3>4, <1>0, <1>3
  <2>3. CASE paragraphs = {} /\ lines = {}
    <3>1. mark = i
      BY <2>3
    <3> HIDE DEF mark
    <3> QED BY <3>1, <1>0, <1>3
  <2> QED BY <2>1, <2>2, <2>3
<1> HIDE DEF mark
<1>7. CASE safeEnd = Len(s) \/ mark = i
  <2>1. c.last = safeEnd /\ c.next = safeEnd + 1
    BY <1>1, <1>7
  <2> HIDE DEF c
  <2>2. c.last \in i..Len(s) /\ c.next \in (c.last + 1)..(Len(s) + 1)
    BY <2>1, <1>0, <1>3
  <2>3. \A j \in (c.last + 1)..(c.next - 1) : FALSE
    BY <2>1, <1>0, <1>3
  <2> QED BY <2>2, <2>3 DEF c
<1>8. CASE ~(safeEnd = Len(s) \/ mark = i)
  <2>1. c.last = mark - 1 /\ c.next = Min(goesOn)
    BY <1>1, <1>8
  <2> HIDE DEF c
  <2>2. mark \in Nat /\ mark - 1 \in i..Len(s)
    BY <1>0, <1>3, <1>6, <1>8
  <2>3. goesOn \in SUBSET Nat /\ goesOn # {}
    BY <1>0, <2>2
  <2>4. Min(goesOn) \in goesOn /\ \A x \in goesOn : Min(goesOn) <= x
    <3> HIDE DEF goesOn
    <3> QED BY <2>3, MinIs
  <2>5. Min(goesOn) \in mark..(Len(s) + 1)
    <3>1. \A x \in goesOn : x \in mark..(Len(s) + 1)
      BY <1>0, <1>3, <1>6
    <3> HIDE DEF goesOn
    <3> QED BY <3>1, <2>4
  <2>6. ASSUME NEW j \in mark..(Min(goesOn) - 1), s[j] # "nl" PROVE FALSE
    <3>1. j \in mark..Len(s) /\ ~(Min(goesOn) <= j)
      <4> HIDE DEF goesOn
      <4> QED BY <1>0, <2>2, <2>5
    <3>2. j \in goesOn
      BY <3>1, <2>6
    <3> HIDE DEF goesOn
    <3> QED BY <3>1, <3>2, <2>4
  <2> HIDE DEF goesOn
  <2>7. c.last + 1 = mark
    BY <2>1, <2>2
  <2>8. c.last \in i..Len(s) /\ c.next \in (c.last + 1)..(Len(s) + 1)
    BY <2>1, <2>2, <2>5, <2>7
  <2>9. \A j \in (c.last + 1)..(c.next - 1) : s[j] = "nl"
    BY <2>1, <2>6, <2>7
  <2> QED BY <2>8, <2>9 DEF c
<1> HIDE DEF c
<1>9. /\ c.last \in i..Len(s) /\ c.next \in (c.last + 1)..(Len(s) + 1)
      /\ \A j \in (c.last + 1)..(c.next - 1) : s[j] = "nl"
  BY <1>7, <1>8 DEF c
<1> QED BY <1>9 DEF c

-----------------------------------------------------------------------------
(* The inductive invariant: what was taken is on its way, each chunk is what
   was made of its part of the text, and nothing was refused that could have
   been shown. *)

ReplySpec == ReplyInit /\ [][ReplyNext]_replyVars

OnItsWay == stage \in {"html", "plain", "failed"}

IsOfTheText(c) ==
  /\ c.first \in 1..Len(answerText) /\ c.last \in c.first..Len(answerText)
  /\ c.html = Convert(SubSeq(answerText, c.first, c.last))

ReplyTyped ==
  /\ answerText \in Seq(Syms)
  /\ rest \in 1..(Len(answerText) + 1)
  /\ stage \in {"split", "html", "plain", "done", "failed"}
  /\ failures \in Nat

ChunksAreConverted ==
  /\ \A c \in arrived : IsOfTheText(c)
  /\ OnItsWay => IsOfTheText(chunk)

LettersAreTaken ==
  /\ \A i \in 1..(rest - 1) : answerText[i] \in Letter =>
       \/ \E c \in arrived : i \in c.first..c.last
       \/ OnItsWay /\ i \in chunk.first..chunk.last
  /\ stage = "done" => rest > Len(answerText)

RefusedForAReason ==
  failures = 0 =>
    /\ stage = "plain" => ~WellFormed(chunk.html) \/ Blank(chunk.html) \/ TooLong(chunk.html)
    /\ stage = "failed" => BlankPlain(chunk.html) \/ TooLong(chunk.html)

ReplyIInv == ReplyTyped /\ ChunksAreConverted /\ LettersAreTaken /\ RefusedForAReason

LEMMA ReplyInitially == ReplyInit => ReplyIInv
<1> SUFFICES ASSUME ReplyInit PROVE ReplyIInv
  OBVIOUS
<1>1. answerText \in ReplyTexts /\ answerText \in Seq(STRING)
  BY ReplyAssumption DEF ReplyInit
<1>2. answerText \in Seq(Syms)
  <2>1. Len(answerText) \in Nat /\ DOMAIN answerText = 1..Len(answerText) /\ answerText \in [1..Len(answerText) -> STRING]
    BY <1>1, LenProperties
  <2>2. \A i \in 1..Len(answerText) : answerText[i] \in Syms
    BY <1>1, <2>1 DEF Syms
  <2>3. answerText \in [1..Len(answerText) -> Syms]
    BY <2>1, <2>2
  <2> QED BY <2>1, <2>3, SeqDef
<1>3. Len(answerText) \in Nat
  BY <1>2, LenProperties
<1>4. ReplyTyped
  BY <1>2, <1>3 DEF ReplyTyped, ReplyInit
<1>5. ChunksAreConverted /\ RefusedForAReason
  BY DEF ChunksAreConverted, RefusedForAReason, OnItsWay, ReplyInit
<1>6. LettersAreTaken
  <2>1. \A i \in 1..(rest - 1) : FALSE
    BY DEF ReplyInit
  <2>2. stage # "done"
    BY DEF ReplyInit
  <2> QED BY <2>1, <2>2 DEF LettersAreTaken
<1> QED BY <1>4, <1>5, <1>6 DEF ReplyIInv

LEMMA TakeChunkKeeps ==
  ASSUME ReplyIInv, TakeChunk
  PROVE  ReplyIInv'
<1>0. /\ answerText \in Seq(Syms) /\ Len(answerText) \in Nat /\ rest \in 1..(Len(answerText) + 1)
      /\ failures \in Nat /\ stage = "split"
      /\ answerText' = answerText /\ arrived' = arrived /\ failures' = failures
  BY LenProperties DEF ReplyIInv, ReplyTyped, TakeChunk
<1>1. CASE rest > Len(answerText)
  <2>1. stage' = "done" /\ rest' = rest /\ chunk' = chunk
    BY <1>1 DEF TakeChunk
  <2>2. ReplyTyped'
    BY <1>0, <2>1 DEF ReplyTyped
  <2>3. ChunksAreConverted'
    BY <1>0, <2>1 DEF ReplyIInv, ChunksAreConverted, OnItsWay, IsOfTheText
  <2>4. LettersAreTaken'
    BY <1>0, <1>1, <2>1 DEF ReplyIInv, LettersAreTaken, OnItsWay
  <2>5. RefusedForAReason'
    BY <2>1 DEF RefusedForAReason
  <2> QED BY <2>2, <2>3, <2>4, <2>5 DEF ReplyIInv
<1>2. CASE ~(rest > Len(answerText))
  <2> DEFINE taken == NextChunk(answerText, rest)
  <2>1. /\ chunk' = [first |-> rest, last |-> taken.last,
                     html |-> Convert(SubSeq(answerText, rest, taken.last))]
        /\ rest' = taken.next /\ stage' = "html"
    BY <1>2 DEF TakeChunk
  <2>2. rest \in 1..Len(answerText)
    BY <1>0, <1>2
  <2>3. /\ taken.last \in rest..Len(answerText)
        /\ taken.next \in (taken.last + 1)..(Len(answerText) + 1)
        /\ \A j \in (taken.last + 1)..(taken.next - 1) : answerText[j] = "nl"
    BY <1>0, <2>2, NextChunkIs
  <2> HIDE DEF taken
  <2>4. ReplyTyped'
    <3>1. rest' \in 1..(Len(answerText) + 1)
      BY <1>0, <2>1, <2>2, <2>3
    <3> QED BY <3>1, <1>0, <2>1 DEF ReplyTyped
  <2>5. ChunksAreConverted'
    <3>1. IsOfTheText(chunk)'
      BY <1>0, <2>1, <2>2, <2>3 DEF IsOfTheText
    <3>2. \A c \in arrived' : IsOfTheText(c)'
      BY <1>0 DEF IsOfTheText, ReplyIInv, ChunksAreConverted
    <3> QED BY <3>1, <3>2 DEF ChunksAreConverted
  <2>6. LettersAreTaken'
    <3>1. ASSUME NEW i \in 1..(rest' - 1), answerText[i] \in Letter
          PROVE  \/ \E c \in arrived : i \in c.first..c.last
                 \/ i \in rest..taken.last
      <4>1. i \in 1..(rest - 1) \/ i \in rest..taken.last \/ i \in (taken.last + 1)..(taken.next - 1)
        BY <1>0, <2>1, <2>2, <2>3
      <4>2. answerText[i] # "nl"
        BY <3>1 DEF Letter
      <4>3. i \in 1..(rest - 1) => \E c \in arrived : i \in c.first..c.last
        BY <3>1, <1>0 DEF ReplyIInv, LettersAreTaken, OnItsWay
      <4> QED BY <4>1, <4>2, <4>3, <2>3
    <3>2. chunk'.first = rest /\ chunk'.last = taken.last
      BY <2>1
    <3> QED BY <3>1, <3>2, <1>0, <2>1 DEF LettersAreTaken, OnItsWay
  <2>7. RefusedForAReason'
    BY <2>1 DEF RefusedForAReason
  <2> QED BY <2>4, <2>5, <2>6, <2>7 DEF ReplyIInv
<1> QED BY <1>1, <1>2

(* An attempt to send: the chunk arrives or not, and the next stage follows. *)
LEMMA AttemptKeeps ==
  ASSUME ReplyIInv, OnItsWay, UNCHANGED <<answerText, rest, chunk>>,
         arrived' = arrived \/ arrived' = arrived \cup {chunk},
         failures' = failures \/ failures' = failures + 1,
         \/ stage' = "split" /\ arrived' = arrived \cup {chunk}
         \/ stage' \in {"plain", "failed"},
         RefusedForAReason'
  PROVE  ReplyIInv'
<1>1. ReplyTyped'
  BY DEF ReplyIInv, ReplyTyped
<1>2. ChunksAreConverted'
  <2>1. \A c : IsOfTheText(c)' <=> IsOfTheText(c)
    BY DEF IsOfTheText
  <2> QED BY <2>1 DEF ReplyIInv, ChunksAreConverted, OnItsWay, IsOfTheText
<1>3. LettersAreTaken'
  <2>1. ASSUME NEW i \in 1..(rest' - 1), answerText'[i] \in Letter
        PROVE  \/ \E c \in arrived' : i \in c.first..c.last
               \/ OnItsWay' /\ i \in chunk'.first..chunk'.last
    <3>1. \/ \E c \in arrived : i \in c.first..c.last
          \/ i \in chunk.first..chunk.last
      BY <2>1 DEF ReplyIInv, LettersAreTaken
    <3>2. arrived \subseteq arrived'
      OBVIOUS
    <3>3. OnItsWay' \/ chunk \in arrived'
      BY DEF OnItsWay
    <3> QED BY <3>1, <3>2, <3>3
  <2>2. stage' # "done"
    OBVIOUS
  <2> QED BY <2>1, <2>2 DEF LettersAreTaken
<1> QED BY <1>1, <1>2, <1>3 DEF ReplyIInv

LEMMA SendHtmlKeeps ==
  ASSUME ReplyIInv, SendHtml
  PROVE  ReplyIInv'
<1> DEFINE valid == WellFormed(chunk.html) /\ ~Blank(chunk.html)
<1>0. stage = "html" /\ OnItsWay /\ UNCHANGED <<answerText, rest, chunk>> /\ failures \in Nat
  BY DEF SendHtml, OnItsWay, ReplyIInv, ReplyTyped
<1>3. PICK ok \in {valid, valid /\ ~TooLong(chunk.html)} : Accepted(ok) \/ Fails(ok, "plain")
  BY DEF SendHtml
<1>1. CASE Accepted(ok)
  <2>1. stage' = "split" /\ arrived' = arrived \cup {chunk} /\ failures' = failures
    BY <1>1 DEF Accepted, Arrives
  <2>2. RefusedForAReason'
    BY <2>1 DEF RefusedForAReason
  <2> QED BY <1>0, <2>1, <2>2, AttemptKeeps
<1>2. CASE Fails(ok, "plain")
  <2>1. /\ stage' = "plain"
        /\ \/ ~ok /\ arrived' = arrived /\ failures' = failures
           \/ /\ failures' = failures + 1
              /\ arrived' = arrived \cup {chunk} \/ arrived' = arrived
    BY <1>2 DEF Fails, Arrives
  <2>2. RefusedForAReason'
    <3>1. CASE ~ok
      <4>1. ~WellFormed(chunk'.html) \/ Blank(chunk'.html) \/ TooLong(chunk'.html)
        BY <3>1, <1>0, <1>3
      <4> QED BY <4>1, <2>1 DEF RefusedForAReason
    <3>2. CASE failures' = failures + 1
      <4>1. failures' # 0
        BY <3>2, <1>0
      <4> QED BY <4>1 DEF RefusedForAReason
    <3> QED BY <3>1, <3>2, <2>1
  <2> QED BY <1>0, <2>1, <2>2, AttemptKeeps
<1> QED BY <1>1, <1>2, <1>3

LEMMA SendPlainKeeps ==
  ASSUME ReplyIInv, SendPlain
  PROVE  ReplyIInv'
<1> DEFINE ok == ~BlankPlain(chunk.html) /\ ~TooLong(chunk.html)
<1>0. stage = "plain" /\ OnItsWay /\ UNCHANGED <<answerText, rest, chunk>> /\ failures \in Nat
  BY DEF SendPlain, OnItsWay, ReplyIInv, ReplyTyped
<1>1. CASE Accepted(ok)
  <2>1. stage' = "split" /\ arrived' = arrived \cup {chunk} /\ failures' = failures
    BY <1>1 DEF Accepted, Arrives
  <2>2. RefusedForAReason'
    BY <2>1 DEF RefusedForAReason
  <2> QED BY <1>0, <2>1, <2>2, AttemptKeeps
<1>2. CASE Fails(ok, "failed")
  <2>1. /\ stage' = "failed"
        /\ \/ ~ok /\ arrived' = arrived /\ failures' = failures
           \/ /\ failures' = failures + 1
              /\ arrived' = arrived \cup {chunk} \/ arrived' = arrived
    BY <1>2 DEF Fails, Arrives
  <2>2. RefusedForAReason'
    <3>1. CASE ~ok
      <4>1. BlankPlain(chunk'.html) \/ TooLong(chunk'.html)
        BY <3>1, <1>0
      <4> QED BY <4>1, <2>1 DEF RefusedForAReason
    <3>2. CASE failures' = failures + 1
      <4>1. failures' # 0
        BY <3>2, <1>0
      <4> QED BY <4>1 DEF RefusedForAReason
    <3> QED BY <3>1, <3>2, <2>1
  <2> HIDE DEF ok
  <2> QED BY <1>0, <2>1, <2>2, AttemptKeeps
<1> QED BY <1>1, <1>2 DEF SendPlain

LEMMA ReplyStep == ReplyIInv /\ [ReplyNext]_replyVars => ReplyIInv'
<1> SUFFICES ASSUME ReplyIInv, [ReplyNext]_replyVars PROVE ReplyIInv'
  OBVIOUS
<1>1. CASE TakeChunk
  BY <1>1, TakeChunkKeeps
<1>2. CASE SendHtml
  BY <1>2, SendHtmlKeeps
<1>3. CASE SendPlain
  BY <1>3, SendPlainKeeps
<1>4. CASE UNCHANGED replyVars
  BY <1>4 DEF replyVars, ReplyIInv, ReplyTyped, ChunksAreConverted, LettersAreTaken,
     RefusedForAReason, OnItsWay, IsOfTheText
<1> QED BY <1>1, <1>2, <1>3, <1>4 DEF ReplyNext

-----------------------------------------------------------------------------
(* From a chunk to the text it was cut from. *)

PartOf(c) == SubSeq(answerText, c.first, c.last)

LEMMA PartIs ==
  ASSUME ReplyIInv, NEW c, IsOfTheText(c)
  PROVE  /\ Len(answerText) \in Nat /\ c.first \in 1..Len(answerText)
         /\ c.last \in c.first..Len(answerText)
         /\ PartOf(c) \in Seq(Syms) /\ Len(PartOf(c)) = c.last - c.first + 1
         /\ \A k \in 1..Len(PartOf(c)) : PartOf(c)[k] = answerText[c.first + k - 1]
<1> DEFINE f == c.first
           l == c.last
           part == SubSeq(answerText, f, l)
<1>0. answerText \in Seq(Syms) /\ Len(answerText) \in Nat
  BY LenProperties DEF ReplyIInv, ReplyTyped
<1>1. f \in 1..Len(answerText) /\ l \in f..Len(answerText)
  BY DEF IsOfTheText
<1> HIDE DEF f, l
<1>2. f \in Int /\ l \in Int /\ f <= l /\ \A k \in f..l : k \in 1..Len(answerText)
  BY <1>0, <1>1
<1>3. \A k \in f..l : answerText[k] \in Syms
  BY <1>0, <1>2, ElementOfSeq
<1>4. /\ part \in Seq(Syms) /\ Len(part) = IF f <= l THEN l - f + 1 ELSE 0
      /\ \A k \in 1..(l - f + 1) : part[k] = answerText[f + k - 1]
  BY <1>2, <1>3, SubSeqProperties
<1> HIDE DEF part
<1>5. Len(part) = l - f + 1 /\ \A k \in 1..Len(part) : part[k] = answerText[f + k - 1]
  BY <1>2, <1>4
<1> QED BY <1>0, <1>1, <1>4, <1>5 DEF part, f, l, PartOf

LEMMA MarksOfParts ==
  ASSUME ReplyIInv, NEW c, IsOfTheText(c), NEW mark, IsMark(mark), NEW k \in 1..Len(PartOf(c)),
         k + Len(mark) - 1 <= Len(PartOf(c))
  PROVE  Starts(PartOf(c), k, mark) <=> Starts(answerText, c.first + k - 1, mark)
<1> DEFINE f == c.first
           part == PartOf(c)
<1>0. /\ Len(answerText) \in Nat /\ f \in 1..Len(answerText) /\ c.last \in f..Len(answerText)
      /\ Len(part) = c.last - f + 1
      /\ \A n \in 1..Len(part) : part[n] = answerText[f + n - 1]
  BY PartIs
<1>1. Len(mark) \in Nat \ {0} /\ DOMAIN mark = 1..Len(mark)
  BY DEF IsMark
<1>2. k \in 1..Len(part) /\ k + Len(mark) - 1 <= Len(part)
  OBVIOUS
<1> HIDE DEF f, part
<1>3. (f + k - 1) + Len(mark) - 1 <= Len(answerText)
  <2> DEFINE l == c.last
  <2>1. f \in Nat /\ l \in Nat
    BY <1>0
  <2>2. l <= Len(answerText) /\ Len(part) = l - f + 1 /\ Len(answerText) \in Nat
    BY <1>0
  <2>3. k \in Nat /\ k + Len(mark) - 1 <= l - f + 1
    BY <2>2, <1>2
  <2> HIDE DEF l
  <2> QED BY <2>1, <2>2, <2>3, <1>1
<1>4. ASSUME NEW m \in 1..Len(mark) PROVE part[k + m - 1] = answerText[(f + k - 1) + m - 1]
  <2>1. k + m - 1 \in 1..Len(part) /\ f + (k + m - 1) - 1 = (f + k - 1) + m - 1
    <3>1. f \in Nat /\ m \in Nat /\ k \in Nat /\ Len(part) \in Nat
      BY <1>0, <1>1, <1>2
    <3>2. 1 <= m /\ m <= Len(mark) /\ 1 <= k
      BY <1>1, <1>2
    <3> QED BY <3>1, <3>2, <1>1, <1>2
  <2> QED BY <2>1, <1>0
<1> QED BY <1>1, <1>3, <1>4 DEF Starts, part, f

LEMMA FencesOfParts ==
  ASSUME ReplyIInv, NEW c, IsOfTheText(c), NEW k \in 1..Len(PartOf(c))
  PROVE  k \in Fences(PartOf(c)) <=>
           /\ c.first + k - 1 \in c.first..c.last - 2
           /\ Starts(answerText, c.first + k - 1, FenceMark)
<1>0. /\ c.first \in Nat /\ c.last \in Nat /\ Len(PartOf(c)) = c.last - c.first + 1
  <2>1. /\ Len(answerText) \in Nat /\ c.first \in 1..Len(answerText)
        /\ c.last \in c.first..Len(answerText) /\ Len(PartOf(c)) = c.last - c.first + 1
    BY PartIs
  <2> QED BY <2>1
<1>1. k \in 1..(Len(PartOf(c)) - 2) <=> c.first + k - 1 \in c.first..c.last - 2
  <2> DEFINE f == c.first
             l == c.last
             len == Len(PartOf(c))
  <2>1. f \in Nat /\ l \in Nat /\ len = l - f + 1 /\ k \in Nat /\ 1 <= k
    BY <1>0
  <2> HIDE DEF f, l, len
  <2>2. k \in 1..(len - 2) <=> f + k - 1 \in f..l - 2
    BY <2>1
  <2> QED BY <2>2 DEF f, l, len
<1>2. k \in 1..(Len(PartOf(c)) - 2) =>
        (Starts(PartOf(c), k, FenceMark) <=> Starts(answerText, c.first + k - 1, FenceMark))
  <2> SUFFICES ASSUME k \in 1..(Len(PartOf(c)) - 2)
               PROVE  Starts(PartOf(c), k, FenceMark) <=> Starts(answerText, c.first + k - 1, FenceMark)
    OBVIOUS
  <2>1. IsMark(FenceMark) /\ Len(FenceMark) = 3
    BY MarksAre
  <2>2. k + Len(FenceMark) - 1 <= Len(PartOf(c))
    BY <1>0, <2>1
  <2> QED BY <2>1, <2>2, MarksOfParts
<1> QED BY <1>1, <1>2 DEF Fences

(* A letter of a chunk: it is to be seen, or it may be the name of a language. *)
LEMMA LetterOfChunk ==
  ASSUME ReplyIInv, NEW c, IsOfTheText(c), NEW i \in c.first..c.last, answerText[i] \in Letter
  PROVE  /\ i \in Letters(c)
         /\ i \in MayMiss(c) \/ (i \in Shown(c) /\ ~Blank(c.html))
<1> DEFINE f == c.first
           l == c.last
           part == PartOf(c)
           j == i - f + 1
           html == c.html
<1>0. /\ Len(answerText) \in Nat /\ f \in 1..Len(answerText) /\ l \in f..Len(answerText)
      /\ part \in Seq(Syms) /\ Len(part) = l - f + 1
      /\ \A n \in 1..Len(part) : part[n] = answerText[f + n - 1]
  BY PartIs
<1>1. html = Convert(part)
  BY DEF IsOfTheText, PartOf
<1>2. \A n \in 1..Len(part) :
        n \in Fences(part) <=> f + n - 1 \in f..l - 2 /\ Starts(answerText, f + n - 1, FenceMark)
  BY FencesOfParts
<1>i. i \in f..l
  OBVIOUS
<1>n. f \in Nat /\ l \in Nat /\ i \in Nat /\ f <= i /\ i <= l /\ j = i - f + 1
  BY <1>0
<1>3. i \in Letters(c)
  BY DEF Letters, Letter
<1> HIDE DEF f, l, part, html
<1>4. j \in 1..Len(part) /\ f + j - 1 = i /\ part[j] = answerText[i]
  <2> HIDE DEF j
  <2>1. j \in 1..(l - f + 1) /\ f + j - 1 = i
    BY <1>n
  <2> QED BY <2>1, <1>0
<1> HIDE DEF j
<1>5. ShownIn(html, part, j) \/ Hint(part, j)
  BY <1>0, <1>1, <1>4, ConvertIs
<1>6. CASE ShownIn(html, part, j)
  <2>1. html \in Seq(Tokens)
    BY <1>0, <1>1, ConvertIs
  <2>2. DOMAIN html = 1..Len(html)
    BY <2>1, LenProperties
  <2>3. PICK k \in 1..Len(html) : html[k].is = "text" /\ html[k].sym = part[j] /\ html[k].from = j
    BY <1>6 DEF ShownIn
  <2>4. html[k] \in ToSet(html) /\ html[k].from # 0
    BY <2>2, <2>3, <1>4 DEF ToSet
  <2>5. i \in Shown(c)
    <3>1. f + html[k].from - 1 = i
      BY <2>3, <1>4
    <3> QED BY <2>4, <3>1 DEF Shown, f, html
  <2>6. Shows(html[k])
    BY <2>3, <1>4 DEF Shows, Letter
  <2>7. ~Blank(html)
    BY <2>2, <2>6 DEF Blank
  <2> QED BY <1>3, <2>5, <2>7 DEF html
<1>7. CASE Hint(part, j)
  <2> DEFINE fences == {k \in c.first..c.last - 2 : Starts(answerText, k, FenceMark)}
             line(k, n) == \A m \in k..n : answerText[m] # "nl"
  <2>1. PICK k \in Fences(part) : k < j /\ SameLine(part, k, j)
    BY <1>7 DEF Hint
  <2>2. k \in 1..Len(part) /\ k \in Nat
    BY <1>0, <2>1 DEF Fences
  <2>3. f + k - 1 \in fences /\ f + k - 1 < i
    <3>1. f + k - 1 \in f..l - 2 /\ Starts(answerText, f + k - 1, FenceMark)
      BY <1>2, <2>1, <2>2
    <3>2. f + k - 1 < i
      BY <1>n, <2>1, <2>2
    <3> QED BY <3>1, <3>2 DEF f, l
  <2>4. line(f + k - 1, i)
    <3> SUFFICES ASSUME NEW m \in (f + k - 1)..i PROVE answerText[m] # "nl"
      OBVIOUS
    <3>0. m \in Int /\ f + k - 1 <= m /\ m <= i /\ 1 <= k
      BY <1>n, <2>2
    <3>1. m - f + 1 \in k..j /\ m - f + 1 \in 1..Len(part) /\ f + (m - f + 1) - 1 = m
      <4>1. m - f + 1 \in k..j /\ m - f + 1 \in 1..(l - f + 1) /\ f + (m - f + 1) - 1 = m
        BY <1>n, <2>2, <3>0
      <4> QED BY <4>1, <1>0
    <3>2. part[m - f + 1] # "nl"
      BY <3>1, <2>1 DEF SameLine
    <3> QED BY <3>1, <3>2, <1>0
  <2>5. ASSUME NEW n \in fences, n > i, line(i, n) PROVE FALSE
    <3>1. n \in f..l - 2 /\ Starts(answerText, n, FenceMark)
      BY DEF f, l
    <3>2. n - f + 1 \in 1..Len(part) /\ f + (n - f + 1) - 1 = n /\ n - f + 1 > j
      BY <3>1, <1>0, <1>4, <2>5
    <3>3. n - f + 1 \in Fences(part)
      BY <3>1, <3>2, <1>2
    <3>4. SameLine(part, j, n - f + 1)
      <4> SUFFICES ASSUME NEW m \in j..(n - f + 1) PROVE part[m] # "nl"
        BY DEF SameLine
      <4>0. n \in Nat /\ m \in Int /\ j <= m /\ m <= n - f + 1 /\ j \in Nat /\ j >= 1
        BY <1>n, <3>1, <1>4
      <4>1. f + m - 1 \in i..n /\ m \in 1..(l - f + 1)
        BY <1>n, <3>1, <4>0
      <4>2. m \in 1..Len(part)
        BY <4>1, <1>0
      <4> QED BY <4>1, <4>2, <2>5, <1>0
    <3> QED BY <3>2, <3>3, <3>4, <1>7 DEF Hint
  <2>6. MayBeHint(c, i)
    <3>1. \E n \in fences : n < i /\ line(n, i)
      BY <2>3, <2>4
    <3>2. ~\E n \in fences : n > i /\ line(i, n)
      BY <2>5
    <3> QED BY <3>1, <3>2 DEF MayBeHint
  <2> QED BY <1>3, <2>6 DEF MayMiss
<1> QED BY <1>5, <1>6, <1>7

LEMMA TagsOfParts ==
  ASSUME ReplyIInv, NEW c, IsOfTheText(c), ~HasOwnTags
  PROVE  WellFormed(c.html)
<1>0. /\ Len(answerText) \in Nat /\ c.first \in 1..Len(answerText) /\ c.last \in c.first..Len(answerText)
      /\ PartOf(c) \in Seq(Syms) /\ Len(PartOf(c)) = c.last - c.first + 1
  BY PartIs
<1>1. c.html = Convert(PartOf(c))
  BY DEF IsOfTheText, PartOf
<1>2. ASSUME NEW i \in 1..Len(PartOf(c)), NEW mark, IsMark(mark), Starts(PartOf(c), i, mark)
      PROVE  c.first + i - 1 \in 1..Len(answerText) /\ Starts(answerText, c.first + i - 1, mark)
  <2>1. i + Len(mark) - 1 <= Len(PartOf(c))
    BY <1>2 DEF Starts
  <2>2. c.first + i - 1 \in 1..Len(answerText)
    BY <1>0
  <2> QED BY <2>1, <2>2, <1>2, MarksOfParts
<1>3. ASSUME NEW i \in 1..Len(PartOf(c)), TagAt(PartOf(c), i) PROVE HasOwnTags
  BY <1>2, <1>3, MarksAre DEF TagAt, HasOwnTags
<1> QED BY <1>0, <1>1, <1>3, ConvertIs

(* The three parts of ReplyInv. *)
LEMMA ReplyIInvImplies == ReplyIInv => ReplyInv
<1> SUFFICES ASSUME ReplyIInv PROVE ReplyInv
  OBVIOUS
<1>0. Len(answerText) \in Nat /\ rest \in 1..(Len(answerText) + 1)
  BY LenProperties DEF ReplyIInv, ReplyTyped
<1>1. LettersArrive
  <2> SUFFICES ASSUME stage = "done", NEW i \in 1..Len(answerText), answerText[i] \in {"a", "w"}
               PROVE  \E c \in arrived : i \in Letters(c) /\ (i \in Shown(c) \/ i \in MayMiss(c))
    BY DEF LettersArrive
  <2>1. i \in 1..(rest - 1) /\ ~OnItsWay
    BY <1>0 DEF ReplyIInv, LettersAreTaken, OnItsWay
  <2>2. PICK c \in arrived : i \in c.first..c.last
    BY <2>1 DEF ReplyIInv, LettersAreTaken, Letter
  <2>3. IsOfTheText(c)
    BY DEF ReplyIInv, ChunksAreConverted
  <2>4. i \in Letters(c) /\ (i \in MayMiss(c) \/ i \in Shown(c))
    BY <2>2, <2>3, LetterOfChunk DEF Letter
  <2> QED BY <2>4
<1>2. ChunksAreValid
  <2> SUFFICES ASSUME stage = "plain", failures = 0, ~TooLong(chunk.html), ~HasOwnTags
               PROVE  Blank(chunk.html)
    BY DEF ChunksAreValid
  <2>1. IsOfTheText(chunk)
    BY DEF ReplyIInv, ChunksAreConverted, OnItsWay
  <2>2. WellFormed(chunk.html)
    BY <2>1, TagsOfParts
  <2> QED BY <2>2 DEF ReplyIInv, RefusedForAReason
<1>3. NothingCutOff
  <2> SUFFICES ASSUME stage = "failed", failures = 0, ~TooLong(chunk.html), NEW i \in Letters(chunk)
               PROVE  i \in MayMiss(chunk)
    BY DEF NothingCutOff
  <2>1. IsOfTheText(chunk)
    BY DEF ReplyIInv, ChunksAreConverted, OnItsWay
  <2>2. Blank(chunk.html)
    BY DEF ReplyIInv, RefusedForAReason, BlankPlain
  <2>3. i \in chunk.first..chunk.last /\ answerText[i] \in Letter
    BY DEF Letters, Letter
  <2> QED BY <2>1, <2>2, <2>3, LetterOfChunk
<1> QED BY <1>1, <1>2, <1>3 DEF ReplyInv

(* The delivery of an answer: whatever the text, wherever it is cut and
   whichever requests fail, the letters of an answer that was sent to its end
   have arrived, what is refused had tags of its own, nothing to show or more
   than Telegram takes, and nothing else breaks an answer off (bot.rs:2206-2440, 2563-2605, 2768-2975). *)
THEOREM ReplyInvHolds == ReplySpec => []ReplyInv
<1>1. ReplyInit => ReplyIInv
  BY ReplyInitially
<1>2. ReplyIInv /\ [ReplyNext]_replyVars => ReplyIInv'
  BY ReplyStep
<1>3. ReplyIInv => ReplyInv
  BY ReplyIInvImplies
<1> QED BY <1>1, <1>2, <1>3, PTL DEF ReplySpec

=============================================================================
