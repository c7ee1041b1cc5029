-------------------------- MODULE ToolCallsProofs --------------------------
(***************************************************************************)
(* Proofs about ToolCalls: permits are neither lost nor made, no turn      *)
(* outlives the call that awaits it, and the shutdown loses no event of a  *)
(* handler.                                                                *)
(***************************************************************************)
EXTENDS ToolCalls, FiniteSetTheorems, SequenceTheorems, TLAPS

AgentRecords ==
  [pc : {"off", "turn", "queued", "running"},
   tool : Tools \union {None}, above : SUBSET Agents]

RunningTurns == {a \in Agents : Running(a)}

(* Calls wait in the queue, each once. *)
QueueOK ==
  /\ \A i \in 1..Len(waiting) : agent[waiting[i]].pc = "queued"
  /\ \A i, j \in 1..Len(waiting) : waiting[i] = waiting[j] => i = j

(* The turns that await each other are chains. *)
Chains ==
  /\ \A a \in Agents : agent[a].pc = "off" => agent[a] = Off
  /\ \A x, y, z \in Agents :
       x \in agent[y].above /\ y \in agent[z].above => x \in agent[z].above
  /\ \A t, x, y \in Agents :
       t \in agent[x].above /\ t \in agent[y].above /\ x # y
       => x \in agent[y].above \/ y \in agent[x].above

-----------------------------------------------------------------------------
(* What is left of the queue. *)

(* Removing a place keeps the order of the others. *)
LEMMA RemoveAtProperties ==
  ASSUME NEW S, NEW q \in Seq(S), NEW i \in 1..Len(q)
  PROVE  /\ RemoveAt(q, i) \in Seq(S)
         /\ Len(RemoveAt(q, i)) = Len(q) - 1
         /\ \A k \in 1..Len(q) - 1 :
              RemoveAt(q, i)[k] = IF k < i THEN q[k] ELSE q[k + 1]
<1>1. Len(q) \in Nat /\ i \in Nat /\ 1 <= i /\ i <= Len(q)
  BY LenProperties
<1>2. \A k \in 1..Len(q) : q[k] \in S
  BY ElementOfSeq
<1> DEFINE front == SubSeq(q, 1, i - 1)
           back == SubSeq(q, i + 1, Len(q))
<1>3. /\ front \in Seq(S) /\ Len(front) = i - 1
      /\ \A k \in 1..i - 1 : front[k] = q[k]
  <2>1. \A k \in 1..i - 1 : q[k] \in S
    BY <1>1, <1>2
  <2>2. 1 \in Int /\ i - 1 \in Int
    BY <1>1
  <2>3. /\ front \in Seq(S) /\ Len(front) = IF 1 <= i - 1 THEN i - 1 - 1 + 1 ELSE 0
        /\ \A k \in 1..i - 1 - 1 + 1 : front[k] = q[1 + k - 1]
    BY <2>1, <2>2, SubSeqProperties
  <2> HIDE DEF front
  <2>4. QED
    BY <1>1, <2>3
<1>4. /\ back \in Seq(S) /\ Len(back) = Len(q) - i
      /\ \A k \in 1..Len(q) - i : back[k] = q[i + k]
  <2>1. \A k \in i + 1..Len(q) : q[k] \in S
    BY <1>1, <1>2
  <2>2. i + 1 \in Int /\ Len(q) \in Int
    BY <1>1
  <2>3. /\ back \in Seq(S)
        /\ Len(back) = IF i + 1 <= Len(q) THEN Len(q) - (i + 1) + 1 ELSE 0
        /\ \A k \in 1..Len(q) - (i + 1) + 1 : back[k] = q[i + 1 + k - 1]
    BY <2>1, <2>2, SubSeqProperties
  <2> HIDE DEF back
  <2>4. QED
    BY <1>1, <2>3
<1>5. /\ front \o back \in Seq(S)
      /\ Len(front \o back) = Len(front) + Len(back)
      /\ \A k \in 1..Len(front) + Len(back) :
           (front \o back)[k] = IF k <= Len(front) THEN front[k] ELSE back[k - Len(front)]
  BY <1>3, <1>4, ConcatProperties
<1>6. RemoveAt(q, i) = front \o back
  BY DEF RemoveAt
<1> HIDE DEF front, back
<1>7. Len(front \o back) = Len(q) - 1
  BY <1>1, <1>3, <1>4, <1>5
<1>8. ASSUME NEW k \in 1..Len(q) - 1
      PROVE  (front \o back)[k] = IF k < i THEN q[k] ELSE q[k + 1]
  <2>1. (front \o back)[k] = IF k <= i - 1 THEN front[k] ELSE back[k - (i - 1)]
    BY <1>1, <1>3, <1>4, <1>5
  <2>2. CASE k < i
    BY <1>1, <1>3, <2>1, <2>2
  <2>3. CASE ~(k < i)
    <3>1. k - (i - 1) \in 1..Len(q) - i /\ i + (k - (i - 1)) = k + 1
      BY <1>1, <2>3
    <3>2. (front \o back)[k] = back[k - (i - 1)]
      BY <1>1, <2>1, <2>3
    <3>3. QED
      BY <1>4, <2>3, <3>1, <3>2
  <2>4. QED
    BY <2>2, <2>3
<1>9. QED
  BY <1>5, <1>6, <1>7, <1>8

(* If at most one place of the queue is of the given turns, none is left. *)
LEMMA QueueWithoutProperties ==
  ASSUME TypeOK, QueueOK, NEW gone \in SUBSET Agents,
         \A i, j \in 1..Len(waiting) :
           waiting[i] \in gone /\ waiting[j] \in gone => i = j
  PROVE  LET left == QueueWithout(gone) IN
         /\ left \in Seq(Agents)
         /\ \A k \in 1..Len(left) : /\ left[k] \notin gone
                                    /\ agent[left[k]].pc = "queued"
         /\ \A k, m \in 1..Len(left) : left[k] = left[m] => k = m
         /\ waiting = <<>> => left = <<>>
<1> DEFINE places == {i \in DOMAIN waiting : waiting[i] \in gone}
           left == QueueWithout(gone)
<1>1. waiting \in Seq(Agents) /\ Len(waiting) \in Nat /\ DOMAIN waiting = 1..Len(waiting)
  BY LenProperties DEF TypeOK
<1>2. CASE places = {}
  <2>1. left = waiting
    BY <1>2 DEF QueueWithout
  <2>2. \A k \in 1..Len(waiting) : waiting[k] \notin gone
    BY <1>1, <1>2
  <2>3. QED
    BY <1>1, <2>1, <2>2 DEF QueueOK
<1>3. CASE places # {}
  <2> DEFINE i == CHOOSE i \in places : TRUE
  <2>1. i \in places
    BY <1>3
  <2>2. i \in 1..Len(waiting) /\ waiting[i] \in gone
    BY <1>1, <2>1
  <2>3. left = RemoveAt(waiting, i)
    BY <1>3 DEF QueueWithout
  <2> HIDE DEF i, left, places
  <2>4. /\ left \in Seq(Agents) /\ Len(left) = Len(waiting) - 1
        /\ \A k \in 1..Len(waiting) - 1 :
             left[k] = IF k < i THEN waiting[k] ELSE waiting[k + 1]
    BY <1>1, <2>2, <2>3, RemoveAtProperties
  <2>5. ASSUME NEW k \in 1..Len(left)
        PROVE  \E m \in 1..Len(waiting) :
                 /\ m # i /\ left[k] = waiting[m]
                 /\ m = IF k < i THEN k ELSE k + 1
    <3>1. CASE k < i
      BY <1>1, <2>2, <2>4, <3>1
    <3>2. CASE ~(k < i)
      <4>1. k + 1 \in 1..Len(waiting) /\ k + 1 # i /\ left[k] = waiting[k + 1]
        BY <1>1, <2>2, <2>4, <3>2
      <4>2. QED
        BY <3>2, <4>1
    <3>3. QED
      BY <3>1, <3>2
  <2>6. \A k \in 1..Len(left) : left[k] \notin gone /\ agent[left[k]].pc = "queued"
    BY <2>2, <2>5 DEF QueueOK
  <2>7. ASSUME NEW k \in 1..Len(left), NEW m \in 1..Len(left), left[k] = left[m]
        PROVE  k = m
    <3>1. PICK p \in 1..Len(waiting) : /\ left[k] = waiting[p]
                                       /\ p = IF k < i THEN k ELSE k + 1
      BY <2>5
    <3>2. PICK n \in 1..Len(waiting) : /\ left[m] = waiting[n]
                                       /\ n = IF m < i THEN m ELSE m + 1
      BY <2>5
    <3>3. p = n
      BY <2>7, <3>1, <3>2 DEF QueueOK
    <3>4. Len(left) \in Nat /\ i \in Nat
      BY <1>1, <2>2, <2>4
    <3>5. QED
      BY <3>1, <3>2, <3>3, <3>4
  <2>8. waiting # <<>>
    BY <1>1, <2>2
  <2>9. QED
    BY <2>4, <2>6, <2>7, <2>8 DEF left
<1>4. QED
  BY <1>2, <1>3

-----------------------------------------------------------------------------
LEMMA Finite ==
  /\ IsFiniteSet(Agents) /\ Permits \in Nat /\ MaxBegun \in Nat
  /\ IsFiniteSet(RunningTurns) /\ Cardinality(RunningTurns) \in Nat
<1>1. IsFiniteSet(Agents) /\ Permits \in Nat /\ MaxBegun \in Nat
  BY ToolCallsConstants
<1>2. RunningTurns \in SUBSET Agents
  BY DEF RunningTurns
<1>3. IsFiniteSet(RunningTurns)
  BY <1>1, <1>2, FS_Subset
<1>4. QED
  BY <1>1, <1>3, FS_CardinalityType

(* The first n calls of a queue are n. *)
LEMMA FirstOfQueue ==
  ASSUME NEW left \in Seq(Agents), NEW n \in 0..Len(left),
         \A k, m \in 1..Len(left) : left[k] = left[m] => k = m
  PROVE  LET first == {left[k] : k \in 1..n} IN
         IsFiniteSet(first) /\ Cardinality(first) = n
<1> DEFINE first == {left[k] : k \in 1..n}
           f == [k \in 1..n |-> left[k]]
<1>1. Len(left) \in Nat /\ n \in Nat /\ n <= Len(left)
  BY LenProperties
<1>2. f \in [1..n -> first] /\ \A y \in first : \E k \in 1..n : f[k] = y
  OBVIOUS
<1>3. \A k, m \in 1..n : f[k] = f[m] => k = m
  <2>1. 1..n \subseteq 1..Len(left)
    BY <1>1
  <2>2. QED
    BY <2>1
<1>4. f \in Bijection(1..n, first)
  <2> HIDE DEF first, f
  <2>1. QED
    BY <1>2, <1>3 DEF Bijection, Injection, Surjection, IsInjective
<1>5. IsFiniteSet(1..n) /\ Cardinality(1..n) = n
  <2>1. 1 \in Int /\ n \in Int
    BY <1>1
  <2>2. /\ IsFiniteSet(1..n)
        /\ Cardinality(1..n) = IF 1 > n THEN 0 ELSE n - 1 + 1
    BY <2>1, FS_Interval
  <2>3. QED
    BY <1>1, <2>2
<1>6. ExistsBijection(1..n, first)
  BY <1>4 DEF ExistsBijection
<1>7. IsFiniteSet(first) /\ Cardinality(first) = Cardinality(1..n)
  <2> HIDE DEF first
  <2>1. QED
    BY <1>5, <1>6, FS_Bijection
<1>8. QED
  BY <1>5, <1>7

(* What the end of calls does to each agent. *)
Released(back, gone) ==
  \A a \in Agents :
    /\ a \in gone => agent'[a] = Off
    /\ a \in back \ gone => agent'[a] = Turn(agent[a].above)
    /\ a \notin back \union gone =>
         /\ agent'[a].above = agent[a].above /\ agent'[a].tool = agent[a].tool
         /\ \/ agent'[a] = agent[a]
            \/ agent[a].pc = "queued" /\ agent'[a].pc = "running"

(* A release conserves the permits: those of the calls that end, returned or
   dropped, are free or held by calls that waited. *)
LEMMA ReleaseKeepsPermits ==
  ASSUME TypeOK, QueueOK, PermitsConserved,
         NEW back \in SUBSET Agents, NEW gone \in SUBSET Agents,
         \A a \in back : Running(a),
         \A i, j \in 1..Len(waiting) :
           waiting[i] \in gone /\ waiting[j] \in gone => i = j,
         Release(back, gone)
  PROVE  /\ agent' \in [Agents -> AgentRecords]
         /\ waiting' \in Seq(Agents) /\ free' \in 0..Permits
         /\ QueueOK' /\ PermitsConserved' /\ Released(back, gone)
<1> DEFINE ended == back \union gone
           left == QueueWithout(gone)
           held == Held(ended)
           take == IF held < Len(left) THEN held ELSE Len(left)
           next == {left[i] : i \in 1..take}
           rest == SubSeq(left, take + 1, Len(left))
<1>1. /\ left \in Seq(Agents)
      /\ \A k \in 1..Len(left) : left[k] \notin gone /\ agent[left[k]].pc = "queued"
      /\ \A k, m \in 1..Len(left) : left[k] = left[m] => k = m
      /\ waiting = <<>> => left = <<>>
  BY QueueWithoutProperties
<1>2. Len(left) \in Nat /\ \A k \in 1..Len(left) : left[k] \in Agents
  <2> HIDE DEF left
  <2>1. QED
    BY <1>1, LenProperties, ElementOfSeq
<1>3. /\ waiting' = rest
      /\ free' = free + held - take
      /\ agent' = [a \in Agents |->
           IF a \in gone THEN Off
           ELSE IF a \in back THEN Turn(agent[a].above)
           ELSE IF a \in next THEN [agent[a] EXCEPT !.pc = "running"]
           ELSE agent[a]]
  BY DEF Release, HandOver
<1> HIDE DEF left
<1>4. IsFiniteSet(ended \intersect RunningTurns) /\ held \in Nat
  <2>1. ended \intersect RunningTurns \in SUBSET RunningTurns
    OBVIOUS
  <2>2. IsFiniteSet(ended \intersect RunningTurns)
    BY <2>1, Finite, FS_Subset
  <2>3. {a \in ended : Running(a)} = ended \intersect RunningTurns
    BY DEF RunningTurns
  <2>4. QED
    BY <2>2, <2>3, FS_CardinalityType DEF Held
<1>5. held = Cardinality(ended \intersect RunningTurns)
  <2>1. {a \in ended : Running(a)} = ended \intersect RunningTurns
    BY DEF RunningTurns
  <2>2. QED
    BY <2>1 DEF Held
<1> HIDE DEF held
<1>6. take \in 0..Len(left) /\ take <= held /\ take \in Nat
  BY <1>2, <1>4
<1>7. IsFiniteSet(next) /\ Cardinality(next) = take
  <2> HIDE DEF take
  <2>1. QED
    BY <1>1, <1>6, FirstOfQueue
<1>8. \A a \in next : a \in Agents /\ a \notin gone /\ agent[a].pc = "queued"
  <2>1. 1..take \subseteq 1..Len(left)
    BY <1>2, <1>6
  <2> HIDE DEF take
  <2>2. QED
    BY <1>1, <1>2, <2>1
<1>9. next \intersect ended = {} /\ next \intersect RunningTurns = {}
  <2> HIDE DEF next
  <2>1. QED
    BY <1>8 DEF Running, RunningTurns
<1> HIDE DEF next
<1>10. /\ agent' \in [Agents -> AgentRecords]
       /\ Released(back, gone)
       /\ \A a \in next : agent'[a].pc = "running"
  <2>1. agent \in [Agents -> AgentRecords]
    BY DEF TypeOK, AgentRecords
  <2>2. ASSUME NEW a \in Agents
        PROVE  /\ agent'[a] \in AgentRecords
               /\ a \in gone => agent'[a] = Off
               /\ a \in back \ gone => agent'[a] = Turn(agent[a].above)
               /\ a \in next => agent'[a].pc = "running"
               /\ a \notin ended =>
                    /\ agent'[a].above = agent[a].above
                    /\ agent'[a].tool = agent[a].tool
                    /\ \/ agent'[a] = agent[a]
                       \/ agent[a].pc = "queued" /\ agent'[a].pc = "running"
    <3>1. CASE a \in gone
      BY <1>3, <1>9, <3>1 DEF Off, AgentRecords
    <3>2. CASE a \in back \ gone
      <4>1. agent'[a] = Turn(agent[a].above)
        BY <1>3, <3>2
      <4>2. QED
        BY <1>9, <2>1, <3>2, <4>1 DEF Turn, AgentRecords
    <3>3. CASE a \in next
      <4>1. agent'[a] = [agent[a] EXCEPT !.pc = "running"] /\ agent[a].pc = "queued"
        BY <1>3, <1>8, <1>9, <3>3
      <4>2. QED
        BY <1>9, <2>1, <3>3, <4>1 DEF AgentRecords
    <3>4. CASE a \notin ended /\ a \notin next
      BY <1>3, <2>1, <3>4
    <3>5. QED
      BY <3>1, <3>2, <3>3, <3>4
  <2>3. agent' = [a \in Agents |-> agent'[a]]
    BY <1>3
  <2>4. QED
    BY <1>8, <2>2, <2>3 DEF Released
<1>11. RunningTurns' = (RunningTurns \ ended) \union next
  <2>1. ASSUME NEW a \in Agents
        PROVE  agent'[a].pc = "running" <=>
                 (agent[a].pc = "running" /\ a \notin ended) \/ a \in next
    <3>1. CASE a \in ended
      BY <1>9, <1>10, <3>1 DEF Released, Off, Turn
    <3>2. CASE a \notin ended
      BY <1>3, <1>10, <3>2 DEF Released
    <3>3. QED
      BY <3>1, <3>2
  <2>2. next \subseteq Agents
    BY <1>8
  <2> HIDE DEF ended
  <2>3. QED
    BY <2>1, <2>2 DEF RunningTurns, Running
<1>12. Cardinality(RunningTurns') = Cardinality(RunningTurns) - held + take
  <2> DEFINE others == RunningTurns \ ended
  <2>1. IsFiniteSet(others)
        /\ Cardinality(others)
             = Cardinality(RunningTurns) - Cardinality(RunningTurns \intersect ended)
    BY Finite, FS_Difference
  <2>2. RunningTurns \intersect ended = ended \intersect RunningTurns
    OBVIOUS
  <2>3. others \intersect next = {}
    BY <1>9
  <2>4. Cardinality(others \union next)
          = Cardinality(others) + Cardinality(next) - Cardinality(others \intersect next)
    BY <1>7, <2>1, FS_Union
  <2>5. Cardinality(others \intersect next) = 0
    BY <2>3, FS_EmptySet
  <2>6. Cardinality(others) \in Nat
    BY <2>1, FS_CardinalityType
  <2>7. Cardinality(others) = Cardinality(RunningTurns) - held
    BY <1>5, <2>1, <2>2
  <2> HIDE DEF others, ended, take
  <2>8. Cardinality(others \union next) = Cardinality(others) + take
    BY <1>6, <1>7, <2>4, <2>5, <2>6
  <2>9. Cardinality(RunningTurns') = Cardinality(others) + take
    BY <1>11, <2>8 DEF others
  <2>10. QED
    BY <2>7, <2>9
<1>13. free \in Nat /\ free + Cardinality(RunningTurns) = Permits
  BY Finite DEF TypeOK, PermitsConserved, RunningTurns
<1>14. /\ free' \in 0..Permits
       /\ free' + Cardinality(RunningTurns') = Permits
  <2>1. Cardinality(RunningTurns) \in Nat /\ held <= Cardinality(RunningTurns)
    <3>1. ended \intersect RunningTurns \in SUBSET RunningTurns
      OBVIOUS
    <3> HIDE DEF ended
    <3>2. QED
      BY <1>5, <3>1, Finite, FS_Subset
  <2> HIDE DEF take
  <2>2. QED
    <3>1. free' = free + held - take
      BY <1>3
    <3>2. held \in Nat /\ take \in Nat /\ take <= free + held
      BY <1>4, <1>6, <1>13
    <3>3. Permits \in Nat
      BY Finite
    <3>4. Cardinality(RunningTurns') = Cardinality(RunningTurns) - held + take
      BY <1>12
    <3> HIDE DEF held
    <3>5. QED
      BY <1>13, <2>1, <3>1, <3>2, <3>3, <3>4
<1>15. /\ waiting' \in Seq(Agents) /\ Len(waiting') = Len(left) - take
       /\ \A k \in 1..Len(waiting') : waiting'[k] = left[take + k]
  <2>1. take + 1 \in Int /\ Len(left) \in Int
        /\ \A k \in take + 1..Len(left) : left[k] \in Agents
    BY <1>2, <1>6
  <2> HIDE DEF take
  <2>2. /\ rest \in Seq(Agents)
        /\ Len(rest) = IF take + 1 <= Len(left) THEN Len(left) - (take + 1) + 1 ELSE 0
        /\ \A k \in 1..Len(left) - (take + 1) + 1 : rest[k] = left[take + 1 + k - 1]
    BY <2>1, SubSeqProperties
  <2> HIDE DEF rest
  <2>3. Len(left) \in Nat /\ take \in 0..Len(left)
    BY <1>2, <1>6
  <2>4. Len(rest) = Len(left) - take
    BY <2>2, <2>3
  <2>5. ASSUME NEW k \in 1..Len(rest) PROVE rest[k] = left[take + k]
    <3>1. k \in 1..Len(left) - (take + 1) + 1 /\ take + 1 + k - 1 = take + k
      BY <2>3, <2>4
    <3>2. QED
      BY <2>2, <3>1
  <2>6. waiting' = rest
    BY <1>3
  <2>7. QED
    BY <2>2, <2>4, <2>5, <2>6
<1>16. QueueOK'
  <2>1. \A k \in 1..Len(waiting') : take + k \in 1..Len(left) /\ k \in Int
    BY <1>2, <1>6, <1>15
  <2> HIDE DEF take
  <2>2. \A i, j \in 1..Len(waiting') : waiting'[i] = waiting'[j] => i = j
    <3>1. ASSUME NEW i \in 1..Len(waiting'), NEW j \in 1..Len(waiting'),
                 waiting'[i] = waiting'[j]
          PROVE  i = j
      <4>1. take + i = take + j
        BY <1>1, <1>15, <2>1, <3>1
      <4>2. QED
        BY <1>6, <2>1, <4>1
    <3>2. QED
      BY <3>1
  <2>3. ASSUME NEW k \in 1..Len(waiting') PROVE agent'[waiting'[k]].pc = "queued"
    <3> DEFINE a == left[take + k]
    <3>1. a \in Agents /\ a \notin gone /\ agent[a].pc = "queued"
      BY <1>1, <1>2, <2>1
    <3>2. a \notin ended
      BY <3>1 DEF Running
    <3>3. a \notin next
      <4>1. ASSUME NEW i \in 1..take PROVE a # left[i]
        <5>1. i \in 1..Len(left) /\ i # take + k
          BY <1>2, <1>6
        <5>2. QED
          BY <1>1, <2>1, <5>1
      <4>2. QED
        BY <4>1 DEF next, take
    <3>4. agent'[a] = agent[a]
      BY <1>3, <3>1, <3>2, <3>3
    <3>5. QED
      BY <1>15, <3>1, <3>4
  <2>4. QED
    BY <2>2, <2>3 DEF QueueOK
<1>17. free' > 0 => waiting' = <<>>
  <2>1. CASE free > 0
    <3>1. left = <<>>
      BY <1>1, <2>1 DEF PermitsConserved
    <3>2. Len(waiting') = 0
      BY <1>6, <1>15, <3>1
    <3>3. QED
      BY <1>15, <3>2, EmptySeq
  <2>2. CASE free = 0
    <3>1. free' > 0 => take = Len(left)
      BY <1>2, <1>3, <1>4, <2>2
    <3>2. free' > 0 => Len(waiting') = 0
      BY <1>2, <1>15, <3>1
    <3>3. QED
      BY <1>15, <3>2, EmptySeq
  <2>3. QED
    BY <1>13, <2>1, <2>2
<1>18. PermitsConserved'
  BY <1>14, <1>17 DEF PermitsConserved, RunningTurns
<1>19. QED
  BY <1>10, <1>14, <1>15, <1>16, <1>18

-----------------------------------------------------------------------------
(* The turns below a call are a chain: those above its end are running. *)
LEMMA OneOfBelowWaits ==
  ASSUME TypeOK, QueueOK, Chains, InnerTurnsAwaited, NEW a \in Agents,
         NEW gone \in {Below(a), {a} \union Below(a)}
  PROVE  /\ gone \in SUBSET Agents
         /\ \A i, j \in 1..Len(waiting) :
              waiting[i] \in gone /\ waiting[j] \in gone => i = j
<1>1. gone \in SUBSET Agents
  BY DEF Below
<1>2. ASSUME NEW x \in gone, NEW y \in gone,
             agent[x].pc = "queued", agent[y].pc = "queued"
      PROVE  x = y
  <2>1. x \in Agents /\ y \in Agents
    BY <1>1
  <2>2. ~Running(x) /\ ~Running(y)
    BY <1>2 DEF Running
  <2>3. CASE x \in Below(a) /\ y \in Below(a)
    BY <2>1, <2>2, <2>3 DEF Below, Chains, InnerTurnsAwaited
  <2>4. CASE x = a /\ y \in Below(a)
    BY <2>1, <2>2, <2>4 DEF Below, InnerTurnsAwaited
  <2>5. CASE x \in Below(a) /\ y = a
    BY <2>1, <2>2, <2>5 DEF Below, InnerTurnsAwaited
  <2>6. QED
    BY <2>3, <2>4, <2>5
<1>3. QED
  BY <1>1, <1>2 DEF QueueOK

(* The invariant of the calls. *)
CallsIInv ==
  /\ agent \in [Agents -> AgentRecords]
  /\ waiting \in Seq(Agents) /\ free \in 0..Permits
  /\ QueueOK /\ Chains /\ PermitsConserved /\ InnerTurnsAwaited

(* When a call ends, everything below it goes with it. *)
LEMMA ReleaseKeepsCalls ==
  ASSUME TypeOK, QueueOK, Chains, PermitsConserved, InnerTurnsAwaited,
         NEW a \in Agents, NEW back \in SUBSET Agents, NEW gone,
         \/ back = {a} /\ gone = Below(a) /\ Running(a)
         \/ back = {} /\ gone = {a} \union Below(a),
         Release(back, gone)
  PROVE  CallsIInv' /\ Released(back, gone)
<1>1. /\ gone \in SUBSET Agents
      /\ \A i, j \in 1..Len(waiting) :
           waiting[i] \in gone /\ waiting[j] \in gone => i = j
  <2>1. gone \in {Below(a), {a} \union Below(a)}
    OBVIOUS
  <2>2. QED
    BY <2>1, OneOfBelowWaits
<1>2. \A b \in back : Running(b)
  OBVIOUS
<1>3. /\ agent' \in [Agents -> AgentRecords]
      /\ waiting' \in Seq(Agents) /\ free' \in 0..Permits
      /\ QueueOK' /\ PermitsConserved' /\ Released(back, gone)
  BY <1>1, <1>2, ReleaseKeepsPermits
<1>4. ASSUME NEW b \in Agents
      PROVE  /\ b \in gone => agent'[b].above = {}
             /\ b \notin gone => agent'[b].above = agent[b].above
  BY <1>3 DEF Released, Off, Turn
<1>5. \A b \in Agents : a \in agent[b].above => b \in gone
  BY DEF Below
<1>6. \A x \in Agents, b \in Agents :
        x \in Below(a) /\ x \in agent[b].above => b \in gone
  BY <1>5 DEF Below, Chains
<1>7. InnerTurnsAwaited'
  <2>1. SUFFICES ASSUME NEW b \in Agents, NEW x \in Agents, x \in agent'[b].above
                 PROVE  agent'[x].pc = "running" /\ agent'[x].tool = "run_now"
    BY DEF InnerTurnsAwaited, Running
  <2>2. b \notin gone /\ x \in agent[b].above
    BY <1>4, <2>1
  <2>3. x \notin {a} \union Below(a)
    BY <1>5, <1>6, <2>2
  <2>4. x \notin back \union gone
    BY <2>3
  <2>5. agent[x].pc = "running" /\ agent[x].tool = "run_now"
    BY <2>2 DEF InnerTurnsAwaited, Running
  <2>6. QED
    BY <1>3, <2>4, <2>5 DEF Released
<1>8. Chains'
  <2>1. ASSUME NEW b \in Agents, agent'[b].pc = "off" PROVE agent'[b] = Off
    BY <1>3, <2>1 DEF Released, Turn, Chains
  <2>2. \A x, y, z \in Agents :
          x \in agent'[y].above /\ y \in agent'[z].above => x \in agent'[z].above
    BY <1>4 DEF Chains
  <2>3. \A t, x, y \in Agents :
          t \in agent'[x].above /\ t \in agent'[y].above /\ x # y
          => x \in agent'[y].above \/ y \in agent'[x].above
    BY <1>4 DEF Chains
  <2>4. QED
    BY <2>1, <2>2, <2>3 DEF Chains
<1>9. QED
  BY <1>3, <1>7, <1>8 DEF CallsIInv

-----------------------------------------------------------------------------
(* The steps that start and end no call. *)
LEMMA TurnKeepsCalls ==
  ASSUME TypeOK, CallsIInv, NEW a \in Agents, NEW turn \in AgentRecords,
         agent' = [agent EXCEPT ![a] = turn], UNCHANGED <<waiting, free>>,
         agent[a].pc \in {"off", "turn"},
         turn = Off \/ \E above \in SUBSET Agents :
           /\ turn = Turn(above) /\ agent[a] = Off
           /\ \A x \in above : /\ Running(x) /\ agent[x].tool = "run_now"
                               /\ agent[x].above \subseteq above
           /\ \A x \in above, y \in Agents :
                x \in agent[y].above => y \in above
  PROVE  CallsIInv'
<1>1. /\ agent'[a] = turn /\ \A b \in Agents : b # a => agent'[b] = agent[b]
      /\ agent' \in [Agents -> AgentRecords]
  BY DEF CallsIInv
<1>2. turn.pc \in {"off", "turn"} /\ (turn.pc = "off" => turn = Off)
  BY DEF Off, Turn
<1>3. \A b \in Agents : Running(b) <=> agent'[b].pc = "running"
  BY <1>1, <1>2 DEF Running
<1>4. RunningTurns' = RunningTurns
  BY <1>3 DEF RunningTurns, Running
<1>5. PermitsConserved'
  BY <1>4 DEF CallsIInv, PermitsConserved, RunningTurns
<1>6. QueueOK'
  <2>1. \A i \in 1..Len(waiting) : waiting[i] \in Agents /\ waiting[i] # a
    BY ElementOfSeq DEF CallsIInv, QueueOK
  <2>2. QED
    BY <1>1, <2>1 DEF CallsIInv, QueueOK
<1>7. \A b \in Agents : a \notin agent[b].above
  BY DEF CallsIInv, InnerTurnsAwaited, Running
<1>8. CASE turn = Off
  <2>1. \A b \in Agents : agent'[b].above \subseteq agent[b].above
                          /\ (b # a => agent'[b] = agent[b]) /\ agent'[a].above = {}
    BY <1>1, <1>8 DEF Off
  <2>2. InnerTurnsAwaited'
    BY <1>7, <2>1 DEF CallsIInv, InnerTurnsAwaited, Running
  <2>3. Chains'
    BY <1>1, <1>8, <2>1 DEF CallsIInv, Chains
  <2>4. QED
    BY <1>1, <1>5, <1>6, <2>2, <2>3 DEF CallsIInv
<1>9. ASSUME NEW above \in SUBSET Agents, turn = Turn(above), agent[a] = Off,
             \A x \in above : /\ Running(x) /\ agent[x].tool = "run_now"
                              /\ agent[x].above \subseteq above,
             \A x \in above, y \in Agents : x \in agent[y].above => y \in above
      PROVE  CallsIInv'
  <2>1. agent'[a].above = above /\ a \notin above
    BY <1>1, <1>9 DEF Turn, Off, Running
  <2>2. \A x \in Agents : x \notin agent[a].above
    BY <1>9 DEF Off
  <2>3. InnerTurnsAwaited'
    <3>1. SUFFICES ASSUME NEW b \in Agents, NEW x \in Agents, x \in agent'[b].above
                   PROVE  agent'[x].pc = "running" /\ agent'[x].tool = "run_now"
      BY DEF InnerTurnsAwaited, Running
    <3>2. Running(x) /\ agent[x].tool = "run_now"
      BY <1>1, <1>9, <2>1, <3>1 DEF CallsIInv, InnerTurnsAwaited
    <3>3. x # a
      BY <1>9, <3>2 DEF Running, Off
    <3>4. QED
      BY <1>1, <3>2, <3>3 DEF Running
  <2>4. \A b \in Agents : agent'[b].pc = "off" => agent'[b] = Off
    BY <1>1, <1>2 DEF CallsIInv, Chains
  <2>5. ASSUME NEW x \in Agents, NEW y \in Agents, NEW z \in Agents,
               x \in agent'[y].above, y \in agent'[z].above
        PROVE  x \in agent'[z].above
    <3>1. y # a
      BY <1>1, <1>7, <2>1, <2>5
    <3>2. x \in agent[y].above
      BY <1>1, <2>5, <3>1
    <3>3. CASE z = a
      BY <1>9, <2>1, <2>5, <3>2, <3>3
    <3>4. CASE z # a
      BY <1>1, <2>5, <3>2, <3>4 DEF CallsIInv, Chains
    <3>5. QED
      BY <3>3, <3>4
  <2>6. ASSUME NEW t \in Agents, NEW x \in Agents, NEW y \in Agents,
               t \in agent'[x].above, t \in agent'[y].above, x # y
        PROVE  x \in agent'[y].above \/ y \in agent'[x].above
    <3>1. CASE x = a
      BY <1>1, <1>9, <2>1, <2>6, <3>1
    <3>2. CASE y = a
      BY <1>1, <1>9, <2>1, <2>6, <3>2
    <3>3. CASE x # a /\ y # a
      BY <1>1, <2>6, <3>3 DEF CallsIInv, Chains
    <3>4. QED
      BY <3>1, <3>2, <3>3
  <2>7. Chains'
    BY <2>4, <2>5, <2>6 DEF Chains
  <2>8. QED
    BY <1>1, <1>5, <1>6, <2>3, <2>7 DEF CallsIInv
<1>10. QED
  BY <1>8, <1>9

LEMMA ExecuteKeepsCalls ==
  ASSUME TypeOK, CallsIInv, NEW a \in Agents, NEW tool \in Tools, Execute(a, tool)
  PROVE  CallsIInv'
<1>1. agent[a].pc = "turn" /\ agent \in [Agents -> AgentRecords]
  BY DEF Execute, CallsIInv
<1>2. free \in Nat
  BY Finite DEF TypeOK
<1>3. \A b \in Agents : a \notin agent[b].above
  BY <1>1 DEF CallsIInv, InnerTurnsAwaited, Running
<1>4. ASSUME NEW pc \in {"running", "queued"},
             agent' = [agent EXCEPT ![a].pc = pc, ![a].tool = tool]
      PROVE  /\ agent' \in [Agents -> AgentRecords] /\ InnerTurnsAwaited' /\ Chains'
             /\ \A b \in Agents : b # a => agent'[b] = agent[b]
             /\ agent'[a].pc = pc
  <2>1. /\ agent' \in [Agents -> AgentRecords]
        /\ agent'[a].pc = pc /\ agent'[a].above = agent[a].above
        /\ \A b \in Agents : b # a => agent'[b] = agent[b]
    <3> DEFINE r == [agent[a] EXCEPT !.pc = pc, !.tool = tool]
    <3>1. r \in AgentRecords /\ r.pc = pc /\ r.above = agent[a].above
      <4>1. agent[a] \in AgentRecords /\ tool \in Tools \union {None}
        BY <1>1
      <4>2. QED
        BY <4>1 DEF AgentRecords
    <3>2. agent' = [agent EXCEPT ![a] = r]
      BY <1>4
    <3> HIDE DEF r
    <3>3. QED
      BY <1>1, <3>1, <3>2
  <2>2. \A b \in Agents : agent'[b].above = agent[b].above
    BY <2>1
  <2>3. InnerTurnsAwaited'
    BY <1>3, <2>1, <2>2 DEF CallsIInv, InnerTurnsAwaited, Running
  <2>4. Chains'
    BY <1>4, <2>1, <2>2 DEF CallsIInv, Chains
  <2>5. QED
    BY <2>1, <2>3, <2>4
<1>5. CASE free > 0
  <2>1. /\ agent' = [agent EXCEPT ![a].pc = "running", ![a].tool = tool]
        /\ free' = free - 1 /\ UNCHANGED waiting
    BY <1>5 DEF Execute
  <2>2. waiting = <<>> /\ free' \in 0..Permits
    BY <1>2, <1>5, <2>1, Finite DEF CallsIInv, PermitsConserved
  <2>3. /\ agent' \in [Agents -> AgentRecords] /\ InnerTurnsAwaited' /\ Chains'
        /\ \A b \in Agents : b # a => agent'[b] = agent[b]
        /\ agent'[a].pc = "running"
    BY <1>4, <2>1
  <2>4. RunningTurns' = RunningTurns \union {a} /\ a \notin RunningTurns
    BY <1>1, <2>3 DEF RunningTurns, Running
  <2>5. Cardinality(RunningTurns') = Cardinality(RunningTurns) + 1
    BY <2>4, Finite, FS_AddElement
  <2>6. free + Cardinality(RunningTurns) = Permits
    BY DEF CallsIInv, PermitsConserved, RunningTurns
  <2>7. free' + Cardinality(RunningTurns') = Permits
    BY <1>2, <2>1, <2>5, <2>6, Finite
  <2>8. PermitsConserved'
    BY <2>1, <2>2, <2>7 DEF PermitsConserved, RunningTurns
  <2>9. QueueOK'
    BY <2>1, <2>2 DEF QueueOK
  <2>10. QED
    BY <2>1, <2>2, <2>3, <2>8, <2>9 DEF CallsIInv
<1>6. CASE free = 0
  <2>1. /\ agent' = [agent EXCEPT ![a].pc = "queued", ![a].tool = tool]
        /\ waiting' = Append(waiting, a) /\ UNCHANGED free
    BY <1>6 DEF Execute
  <2>2. /\ agent' \in [Agents -> AgentRecords] /\ InnerTurnsAwaited' /\ Chains'
        /\ \A b \in Agents : b # a => agent'[b] = agent[b]
        /\ agent'[a].pc = "queued"
    BY <1>4, <2>1
  <2>3. RunningTurns' = RunningTurns
    BY <1>1, <2>2 DEF RunningTurns, Running
  <2>4. PermitsConserved'
    <3>1. free + Cardinality(RunningTurns) = Permits
      BY DEF CallsIInv, PermitsConserved, RunningTurns
    <3>2. free' + Cardinality(RunningTurns') = Permits /\ ~(free' > 0)
      BY <1>6, <2>1, <2>3, <3>1
    <3>3. QED
      BY <3>2 DEF PermitsConserved, RunningTurns
  <2>5. waiting \in Seq(Agents) /\ Len(waiting) \in Nat
    BY LenProperties DEF CallsIInv
  <2>6. /\ waiting' \in Seq(Agents) /\ Len(waiting') = Len(waiting) + 1
        /\ \A i \in 1..Len(waiting) : waiting'[i] = waiting[i]
        /\ waiting'[Len(waiting) + 1] = a
    BY <2>1, <2>5, AppendProperties
  <2>7. \A i \in 1..Len(waiting) : waiting[i] \in Agents /\ waiting[i] # a
                                  /\ agent'[waiting[i]].pc = "queued"
    BY <1>1, <2>2, <2>5, ElementOfSeq DEF CallsIInv, QueueOK
  <2>8. \A i \in 1..Len(waiting') : i \in 1..Len(waiting) \/ i = Len(waiting) + 1
    BY <2>5, <2>6
  <2>9. QueueOK'
    <3>1. \A i \in 1..Len(waiting') : agent'[waiting'[i]].pc = "queued"
      BY <2>2, <2>6, <2>7, <2>8
    <3>2. \A i, j \in 1..Len(waiting') : waiting'[i] = waiting'[j] => i = j
      BY <2>6, <2>7, <2>8 DEF CallsIInv, QueueOK
    <3>3. QED
      BY <3>1, <3>2 DEF QueueOK
  <2>10. QED
    BY <2>1, <2>2, <2>4, <2>6, <2>9 DEF CallsIInv
<1>7. QED
  BY <1>2, <1>5, <1>6

LEMMA ExitKeepsCalls ==
  ASSUME Exit
  PROVE  CallsIInv'
<1>1. /\ agent' = [a \in Agents |-> Off] /\ waiting' = <<>> /\ free' = Permits
  BY DEF Exit
<1>2. RunningTurns' = {}
  BY <1>1 DEF RunningTurns, Running, Off
<1>3. Cardinality(RunningTurns') = 0
  BY <1>2, FS_EmptySet
<1>4. PermitsConserved'
  BY <1>1, <1>3, Finite DEF PermitsConserved, RunningTurns
<1>5. QueueOK' /\ Len(waiting') = 0 /\ waiting' \in Seq(Agents)
  BY <1>1, EmptySeq DEF QueueOK
<1>6. agent' \in [Agents -> AgentRecords] /\ InnerTurnsAwaited' /\ Chains'
  BY <1>1 DEF Off, AgentRecords, InnerTurnsAwaited, Chains
<1>7. QED
  BY <1>1, <1>4, <1>5, <1>6, Finite DEF CallsIInv

LEMMA CallsStep ==
  ASSUME TypeOK, CallsIInv, [Next]_vars
  PROVE  CallsIInv'
<1> USE DEF CallsIInv
<1>1. CASE UNCHANGED <<agent, waiting, free>>
  BY <1>1 DEF QueueOK, Chains, PermitsConserved, Running, InnerTurnsAwaited
<1>2. ASSUME NEW a \in Agents, HandlerBegins(a) \/ TaskBegins(a) PROVE CallsIInv'
  <2>1. /\ agent[a] = Off /\ agent' = [agent EXCEPT ![a] = Turn({})]
        /\ UNCHANGED <<waiting, free>>
    BY <1>2 DEF HandlerBegins, TaskBegins
  <2>2. Turn({}) \in AgentRecords /\ agent[a].pc = "off"
    BY <2>1 DEF Turn, AgentRecords, Off
  <2>3. \E above \in SUBSET Agents :
          /\ Turn({}) = Turn(above) /\ agent[a] = Off
          /\ \A x \in above : /\ Running(x) /\ agent[x].tool = "run_now"
                              /\ agent[x].above \subseteq above
          /\ \A x \in above, y \in Agents : x \in agent[y].above => y \in above
    <3>1. {} \in SUBSET Agents
      OBVIOUS
    <3>2. QED
      BY <2>1, <3>1
  <2> HIDE DEF CallsIInv
  <2>4. QED
    BY <2>1, <2>2, <2>3, TurnKeepsCalls
<1>3. ASSUME NEW a \in Agents, TurnEnds(a) PROVE CallsIInv'
  <2>1. /\ agent[a].pc = "turn" /\ agent' = [agent EXCEPT ![a] = Off]
        /\ UNCHANGED <<waiting, free>>
    BY <1>3 DEF TurnEnds
  <2>2. Off \in AgentRecords
    BY DEF AgentRecords, Off
  <2>3. QED
    BY <2>1, <2>2, TurnKeepsCalls
<1>4. ASSUME NEW a \in Agents, NEW b \in Agents, RunNow(a, b) PROVE CallsIInv'
  <2> DEFINE above == agent[a].above \union {a}
  <2>1. /\ Running(a) /\ agent[a].tool = "run_now" /\ Below(a) = {}
        /\ agent[b] = Off /\ agent' = [agent EXCEPT ![b] = Turn(above)]
        /\ UNCHANGED <<waiting, free>>
    BY <1>4 DEF RunNow
  <2>2. above \in SUBSET Agents /\ Turn(above) \in AgentRecords
    BY DEF Turn, AgentRecords
  <2>3. \A x \in above : /\ Running(x) /\ agent[x].tool = "run_now"
                         /\ agent[x].above \subseteq above
    BY <2>1, <2>2 DEF InnerTurnsAwaited, Chains, AgentRecords
  <2>4. ASSUME NEW x \in above, NEW y \in Agents, x \in agent[y].above
        PROVE  y \in above
    <3>1. a \notin agent[y].above
      BY <2>1 DEF Below
    <3>2. QED
      BY <2>2, <2>4, <3>1 DEF Chains
  <2>5. agent[b].pc = "off"
    BY <2>1 DEF Off
  <2> HIDE DEF above
  <2>6. QED
    BY <2>1, <2>2, <2>3, <2>4, <2>5, TurnKeepsCalls
<1>5. ASSUME NEW a \in Agents, NEW tool \in Tools, Execute(a, tool) PROVE CallsIInv'
  BY <1>5, ExecuteKeepsCalls
<1>6. ASSUME NEW a \in Agents, Returns(a) \/ TimesOut(a) PROVE CallsIInv'
  <2>1. Running(a) /\ Release({a}, Below(a))
    BY <1>6 DEF Returns, TimesOut
  <2>2. QED
    BY <2>1, ReleaseKeepsCalls
<1>7. ASSUME NEW a \in Agents, TaskAborted(a) PROVE CallsIInv'
  <2>1. Release({}, {a} \union Below(a))
    BY <1>7 DEF TaskAborted
  <2>2. QED
    BY <2>1, ReleaseKeepsCalls
<1>8. CASE Exit
  BY <1>8, ExitKeepsCalls
<1>9. \/ UNCHANGED vars \/ WriteEvent \/ CtrlC \/ Drained \/ Close
      \/ \E a \in Agents : Refused(a)
      => UNCHANGED <<agent, waiting, free>>
  BY DEF vars, WriteEvent, CtrlC, Drained, Close, Refused
<1>10. Handlers \subseteq Agents /\ Tasks \subseteq Agents /\ Inner \subseteq Agents
  BY DEF Agents
<1>11. QED
  BY <1>1, <1>2, <1>3, <1>4, <1>5, <1>6, <1>7, <1>8, <1>9, <1>10 DEF Next

-----------------------------------------------------------------------------
(* Every step keeps the types of the shutdown and of the audit log. *)
Events == Sources \union {"flush"}

LEMMA SequenceOfEvents ==
  ASSUME NEW q \in Seq(Events), NEW e \in Events
  PROVE  /\ Append(q, e) \in Seq(Events) /\ <<>> \in Seq(Events)
         /\ Len(Append(q, e)) = Len(q) + 1
         /\ \A i \in 1..Len(q) : Append(q, e)[i] = q[i]
         /\ Append(q, e)[Len(q) + 1] = e
         /\ q # <<>> => /\ Head(q) = q[1] /\ Head(q) \in Events
                        /\ Tail(q) \in Seq(Events) /\ Len(Tail(q)) = Len(q) - 1
                        /\ \A i \in 1..Len(q) - 1 : Tail(q)[i] = q[i + 1]
         /\ \A f \in Events :
              /\ q \o <<e, f>> \in Seq(Events)
              /\ Len(q \o <<e, f>>) = Len(q) + 2
              /\ \A i \in 1..Len(q) : (q \o <<e, f>>)[i] = q[i]
              /\ (q \o <<e, f>>)[Len(q) + 1] = e
              /\ (q \o <<e, f>>)[Len(q) + 2] = f
<1>1. Len(q) \in Nat /\ \A i \in 1..Len(q) : q[i] \in Events
  BY LenProperties, ElementOfSeq
<1>2. /\ Append(q, e) \in Seq(Events) /\ Len(Append(q, e)) = Len(q) + 1
      /\ \A i \in 1..Len(q) : Append(q, e)[i] = q[i]
      /\ Append(q, e)[Len(q) + 1] = e
  BY AppendProperties
<1>3. <<>> \in Seq(Events)
  BY EmptySeq
<1>4. ASSUME q # <<>>
      PROVE  /\ Head(q) = q[1] /\ Head(q) \in Events
             /\ Tail(q) \in Seq(Events) /\ Len(Tail(q)) = Len(q) - 1
             /\ \A i \in 1..Len(q) - 1 : Tail(q)[i] = q[i + 1]
  BY <1>4, HeadTailProperties
<1>5. ASSUME NEW f \in Events
      PROVE  /\ q \o <<e, f>> \in Seq(Events)
             /\ Len(q \o <<e, f>>) = Len(q) + 2
             /\ \A i \in 1..Len(q) : (q \o <<e, f>>)[i] = q[i]
             /\ (q \o <<e, f>>)[Len(q) + 1] = e
             /\ (q \o <<e, f>>)[Len(q) + 2] = f
  <2> DEFINE pair == <<e, f>>
  <2>1. pair \in Seq(Events) /\ Len(pair) = 2 /\ pair[1] = e /\ pair[2] = f
    OBVIOUS
  <2> HIDE DEF pair
  <2>2. /\ q \o pair \in Seq(Events) /\ Len(q \o pair) = Len(q) + Len(pair)
        /\ \A i \in 1..Len(q) + Len(pair) :
             (q \o pair)[i] = IF i <= Len(q) THEN q[i] ELSE pair[i - Len(q)]
    BY <2>1, ConcatProperties
  <2>3. \A i \in 1..Len(q) : (q \o pair)[i] = q[i]
    BY <1>1, <2>1, <2>2
  <2>4. (q \o pair)[Len(q) + 1] = pair[1] /\ (q \o pair)[Len(q) + 2] = pair[2]
    BY <1>1, <2>1, <2>2
  <2>5. QED
    BY <2>1, <2>2, <2>3, <2>4 DEF pair
<1>6. QED
  BY <1>2, <1>3, <1>4, <1>5

(* The steps by what they do to the audit log. *)
Logged(a) == Log(Source(a)) \/ UNCHANGED auditVars

LEMMA StepsOfTheLog ==
  ASSUME [Next]_vars
  PROVE  \/ UNCHANGED <<main, auditVars>>
         \/ UNCHANGED main /\ \E a \in Agents :
              \/ (Refused(a) \/ Returns(a)) /\ Logged(a)
              \/ TurnEnds(a) /\ a \in Handlers /\ Log("handler")
         \/ UNCHANGED main /\ Writer /\ WriteEvent
         \/ CtrlC /\ UNCHANGED auditVars
         \/ Drained \/ Close \/ Exit
<1>1. ASSUME NEW a \in Agents, Refused(a) \/ Returns(a)
      PROVE  UNCHANGED main /\ Logged(a)
  BY <1>1 DEF Refused, Returns, Logged
<1>2. ASSUME NEW a \in Agents, TurnEnds(a)
      PROVE  UNCHANGED main /\ ((a \in Handlers /\ Log("handler")) \/ UNCHANGED auditVars)
  BY <1>2 DEF TurnEnds
<1>3. ASSUME \/ \E h \in Handlers : HandlerBegins(h)
             \/ \E t \in Tasks : TaskBegins(t) \/ TaskAborted(t)
             \/ \E a \in Agents : TimesOut(a)
             \/ \E a \in Agents, tool \in Tools : Execute(a, tool)
             \/ \E a \in Agents, b \in Inner : RunNow(a, b)
             \/ UNCHANGED vars
      PROVE  UNCHANGED <<main, auditVars>>
  BY <1>3 DEF HandlerBegins, TaskBegins, TaskAborted, TimesOut, Execute, RunNow, vars
<1>4. WriteEvent => UNCHANGED main /\ Writer
  BY DEF WriteEvent
<1>5. CtrlC => UNCHANGED auditVars
  BY DEF CtrlC
<1>6. QED
  BY <1>1, <1>2, <1>3, <1>4, <1>5 DEF Next

LEMMA SourcesAreEvents ==
  /\ \A a \in Agents : Source(a) \in Events /\ Source(a) # "flush"
  /\ "handler" \in Events /\ "main" \in Events /\ "flush" \in Events
BY ToolCallsConstants DEF Source, Events

LEMMA AuditTypes ==
  ASSUME AuditTypeOK, [Next]_vars
  PROVE  AuditTypeOK'
<1> USE DEF AuditTypeOK
<1>1. queue \in Seq(Events) /\ lost \subseteq Events /\ Len(queue) \in Nat
  BY LenProperties DEF Events
<1>2. ASSUME NEW e \in Events, Log(e) PROVE AuditTypeOK'
  BY <1>1, <1>2, SequenceOfEvents DEF Log, Events
<1>3. CASE UNCHANGED auditVars
  BY <1>3 DEF auditVars
<1>4. CASE Writer
  <2>1. /\ queue # <<>> /\ queue' = Tail(queue) /\ UNCHANGED database
        /\ UNCHANGED lost \/ lost' = lost \union {Head(queue)}
        /\ flushed' \in BOOLEAN
    BY <1>4 DEF Writer, Write, AnswerFlush
  <2>2. Head(queue) \in Events /\ Tail(queue) \in Seq(Events)
    BY <1>1, <2>1, SequenceOfEvents, SourcesAreEvents
  <2>3. QED
    BY <2>1, <2>2 DEF Events
<1>5. CASE Drained
  BY <1>1, <1>5, SequenceOfEvents, SourcesAreEvents DEF Drained, LogAndFlush, Events
<1>6. CASE Close
  BY <1>6 DEF Close, CloseDatabase
<1>7. CASE Exit
  <2>1. \A i \in DOMAIN queue : queue[i] \in Events
    BY <1>1, ElementOfSeq, LenProperties
  <2>2. lost' \subseteq Events /\ queue' = <<>> /\ UNCHANGED <<database, flushed>>
    BY <1>1, <1>7, <2>1 DEF Exit, LoseQueue
  <2>3. queue' \in Seq(Events)
    BY <2>2, SequenceOfEvents, SourcesAreEvents, EmptySeq
  <2>4. QED
    BY <2>2, <2>3 DEF Events
<1>8. ASSUME NEW a \in Agents, Logged(a) PROVE AuditTypeOK'
  BY <1>2, <1>3, <1>8, SourcesAreEvents DEF Logged
<1>9. QED
  BY <1>2, <1>3, <1>4, <1>5, <1>6, <1>7, <1>8, StepsOfTheLog, SourcesAreEvents DEF auditVars

(* The bound of the model. *)
Counted == (begun < MaxBegun /\ begun' = begun + 1) \/ UNCHANGED begun

LEMMA OtherTypes ==
  ASSUME TypeOK, [Next]_vars
  PROVE  /\ main' \in {"serving", "draining", "flushing", "closed", "gone"}
         /\ begun' \in 0..MaxBegun
<1>1. MaxBegun \in Nat
  BY Finite
<1>2. main' \in {"serving", "draining", "flushing", "closed", "gone"}
  BY StepsOfTheLog DEF TypeOK, CtrlC, Drained, Close, Exit
<1>3. Counted
  <2>1. ASSUME NEW a \in Agents,
               \/ HandlerBegins(a) \/ TaskBegins(a) \/ Refused(a)
               \/ \E tool \in Tools : Execute(a, tool)
        PROVE  Counted
    BY <2>1 DEF Counted, HandlerBegins, TaskBegins, Refused, Execute
  <2>2. ASSUME NEW a \in Agents,
               \/ TaskAborted(a) \/ TurnEnds(a) \/ Returns(a) \/ TimesOut(a)
               \/ \E b \in Inner : RunNow(a, b)
        PROVE  Counted
    BY <2>2 DEF Counted, TaskAborted, TurnEnds, Returns, TimesOut, RunNow
  <2>3. WriteEvent \/ CtrlC \/ Drained \/ Close \/ Exit \/ UNCHANGED vars => Counted
    BY DEF Counted, WriteEvent, CtrlC, Drained, Close, Exit, vars
  <2>4. Handlers \subseteq Agents /\ Tasks \subseteq Agents
    BY DEF Agents
  <2>5. QED
    BY <2>1, <2>2, <2>3, <2>4 DEF Next
<1>4. QED
  BY <1>1, <1>2, <1>3 DEF TypeOK, Counted

(* The types and the calls, in every reachable state. *)
LEMMA CallsCorrect == Spec => [](TypeOK /\ CallsIInv)
<1>1. Init => TypeOK /\ CallsIInv
  <2> SUFFICES ASSUME Init PROVE TypeOK /\ CallsIInv
    OBVIOUS
  <2> USE DEF Init, AuditInit
  <2>1. agent \in [Agents -> AgentRecords] /\ free \in 0..Permits /\ begun \in 0..MaxBegun
    BY Finite DEF Off, AgentRecords
  <2>2. waiting \in Seq(Agents) /\ queue \in Seq(Events) /\ Len(waiting) = 0
    BY EmptySeq
  <2>3. AuditTypeOK
    BY <2>2 DEF AuditTypeOK, Events
  <2>4. TypeOK
    BY <2>1, <2>2, <2>3 DEF TypeOK, AgentRecords
  <2>5. RunningTurns = {}
    BY DEF RunningTurns, Running, Off
  <2>6. Cardinality(RunningTurns) = 0
    BY <2>5, FS_EmptySet
  <2>7. PermitsConserved
    BY <2>6, Finite DEF PermitsConserved, RunningTurns
  <2>8. QueueOK /\ Chains /\ InnerTurnsAwaited
    BY <2>2 DEF QueueOK, Chains, InnerTurnsAwaited, Off
  <2>9. QED
    BY <2>1, <2>2, <2>4, <2>7, <2>8 DEF CallsIInv
<1>2. TypeOK /\ CallsIInv /\ [Next]_vars => (TypeOK /\ CallsIInv)'
  <2> SUFFICES ASSUME TypeOK, CallsIInv, [Next]_vars PROVE (TypeOK /\ CallsIInv)'
    OBVIOUS
  <2>1. CallsIInv'
    BY CallsStep
  <2>2. AuditTypeOK'
    BY AuditTypes DEF TypeOK
  <2>3. TypeOK'
    BY <2>1, <2>2, OtherTypes DEF TypeOK, CallsIInv, AgentRecords
  <2>4. QED
    BY <2>1, <2>3
<1>3. QED
  BY <1>1, <1>2, PTL DEF Spec

(* CallsInv for any number of turns and permits: through returns, time limits
   and aborts of nested calls, every permit of the semaphore is free or held by
   one running call, and none is free while a call waits. *)
THEOREM CallsAreRight == Spec => []CallsInv
<1>1. TypeOK /\ CallsIInv => CallsInv
  BY DEF CallsInv, CallsIInv
<1>2. QED
  BY <1>1, CallsCorrect, PTL

(* InnerTurnsAwaited for any number of turns: a turn of run_now never outlives
   a call that awaits it, however deep it is and whatever ends the call. *)
THEOREM NoTurnIsLeftBehind == Spec => []InnerTurnsAwaited
<1>1. TypeOK /\ CallsIInv => InnerTurnsAwaited
  BY DEF CallsIInv
<1>2. QED
  BY <1>1, CallsCorrect, PTL

-----------------------------------------------------------------------------
(* The audit log at the shutdown.  Before the flush is sent nothing is lost;
   behind it in the queue there are only events of tasks, because the handlers
   have returned and, with them, every call within their turns. *)
HandlersOff == \A h \in Handlers : agent[h] = Off

OnlyTasksAfter(k) == \A i \in 1..Len(queue) : i > k => queue[i] = "task"

FlushQueued ==
  \E k \in 1..Len(queue) :
    /\ queue[k] = "flush" /\ OnlyTasksAfter(k)
    /\ \A i \in 1..Len(queue) : i < k => queue[i] # "flush"

AuditIInv ==
  /\ main \in {"serving", "draining"} =>
       /\ ~flushed /\ lost = {} /\ database = "open"
       /\ \A i \in 1..Len(queue) : queue[i] # "flush"
  /\ main \notin {"serving", "draining"} => HandlersOff
  /\ main = "flushing" =>
       /\ lost = {} /\ database = "open"
       /\ IF flushed THEN OnlyTasksAfter(0) ELSE FlushQueued
  /\ main \in {"closed", "gone"} =>
       flushed /\ lost \subseteq {"task"} /\ OnlyTasksAfter(0)

(* With the handlers gone nothing runs on behalf of one. *)
LEMMA OnlyTasksRun ==
  ASSUME CallsIInv, HandlersOff, NEW a \in Agents, agent[a].pc # "off"
  PROVE  Source(a) = "task"
<1>1. Handlers \subseteq Agents
  BY DEF Agents
<1>2. SUFFICES ASSUME NEW h \in Handlers, h = a \/ h \in agent[a].above PROVE FALSE
  BY DEF Source
<1>3. agent[h].pc = "off"
  BY DEF HandlersOff, Off
<1>4. QED
  BY <1>1, <1>2, <1>3 DEF CallsIInv, InnerTurnsAwaited, Running

(* Handlers that have returned stay so once the shutdown has begun. *)
LEMMA HandlersStayOff ==
  ASSUME TypeOK, CallsIInv, HandlersOff, main # "serving", [Next]_vars
  PROVE  HandlersOff'
<1>1. /\ Handlers \subseteq Agents /\ Tasks \subseteq Agents /\ Inner \subseteq Agents
      /\ Handlers \intersect (Tasks \union Inner) = {}
  BY ToolCallsConstants DEF Agents
<1>2. \A h \in Handlers : agent[h] = Off /\ agent[h].pc = "off"
  BY DEF HandlersOff, Off
<1>3. ASSUME NEW a \in Agents, NEW back \in SUBSET Agents, NEW gone,
             \/ back = {a} /\ gone = Below(a) /\ Running(a)
             \/ a \in Tasks /\ back = {} /\ gone = {a} \union Below(a),
             Release(back, gone)
      PROVE  HandlersOff'
  <2>1. Released(back, gone)
    BY <1>3, ReleaseKeepsCalls DEF CallsIInv
  <2>2. \A h \in Handlers : h \notin back
    BY <1>2, <1>3 DEF Running
  <2>3. QED
    BY <1>1, <1>2, <2>1, <2>2 DEF Released, HandlersOff
<1>4. ASSUME NEW a \in Agents, Returns(a) \/ TimesOut(a) PROVE HandlersOff'
  <2>1. Running(a) /\ Release({a}, Below(a))
    BY <1>4 DEF Returns, TimesOut
  <2>2. QED
    BY <1>3, <2>1
<1>5. ASSUME NEW t \in Tasks, TaskAborted(t) PROVE HandlersOff'
  <2>1. Release({}, {t} \union Below(t))
    BY <1>5 DEF TaskAborted
  <2>2. QED
    BY <1>1, <1>3, <2>1
<1>6. ASSUME NEW a \in Agents, a \notin Handlers, NEW r, agent' = [agent EXCEPT ![a] = r]
      PROVE  HandlersOff'
  BY <1>1, <1>6 DEF HandlersOff, CallsIInv
<1>7. ASSUME NEW t \in Tasks, TaskBegins(t) PROVE HandlersOff'
  BY <1>1, <1>6, <1>7 DEF TaskBegins
<1>8. ASSUME NEW a \in Agents, TurnEnds(a) PROVE HandlersOff'
  BY <1>2, <1>6, <1>8 DEF TurnEnds
<1>9. ASSUME NEW a \in Agents, NEW tool \in Tools, Execute(a, tool) PROVE HandlersOff'
  <2>1. agent[a].pc = "turn" /\ \A b \in Agents : b # a => agent'[b] = agent[b]
    BY <1>9 DEF Execute, CallsIInv
  <2>2. QED
    BY <1>1, <1>2, <2>1 DEF HandlersOff
<1>10. ASSUME NEW a \in Agents, NEW b \in Inner, RunNow(a, b) PROVE HandlersOff'
  BY <1>1, <1>6, <1>10 DEF RunNow
<1>11. ASSUME UNCHANGED agent PROVE HandlersOff'
  BY <1>11 DEF HandlersOff
<1>12. \/ UNCHANGED vars \/ WriteEvent \/ CtrlC \/ Drained \/ Close
       \/ \E a \in Agents : Refused(a)
       => UNCHANGED agent
  BY DEF vars, WriteEvent, CtrlC, Drained, Close, Refused
<1>13. Exit => HandlersOff'
  BY <1>1 DEF Exit, HandlersOff
<1>14. ~ \E h \in Handlers : HandlerBegins(h)
  BY DEF HandlerBegins
<1>15. QED
  BY <1>4, <1>5, <1>7, <1>8, <1>9, <1>10, <1>11, <1>12, <1>13, <1>14 DEF Next

LEMMA AuditStep ==
  ASSUME TypeOK, CallsIInv, AuditIInv, [Next]_vars
  PROVE  AuditIInv'
<1>1. /\ queue \in Seq(Events) /\ Len(queue) \in Nat /\ flushed \in BOOLEAN
      /\ main \in {"serving", "draining", "flushing", "closed", "gone"}
  BY LenProperties DEF TypeOK, AuditTypeOK, Events
<1>2. main # "serving" /\ HandlersOff => HandlersOff'
  BY HandlersStayOff
<1>3. CASE UNCHANGED <<main, auditVars>>
  BY <1>2, <1>3 DEF AuditIInv, auditVars, OnlyTasksAfter, FlushQueued
<1>4. ASSUME NEW e \in Events, e # "flush", HandlersOff => e = "task",
             Log(e), UNCHANGED main
      PROVE  AuditIInv'
  <2>1. /\ UNCHANGED <<database, flushed, lost>> /\ Len(queue') = Len(queue) + 1
        /\ \A i \in 1..Len(queue) : queue'[i] = queue[i]
        /\ queue'[Len(queue) + 1] = e
    BY <1>1, <1>4, SequenceOfEvents DEF Log
  <2>2. \A i \in 1..Len(queue') : i \in 1..Len(queue) \/ queue'[i] = e
    BY <1>1, <2>1
  <2>3. ASSUME HandlersOff, NEW k \in Nat, OnlyTasksAfter(k) PROVE OnlyTasksAfter(k)'
    BY <1>1, <1>4, <2>1, <2>2, <2>3 DEF OnlyTasksAfter
  <2>4. ASSUME HandlersOff, FlushQueued PROVE FlushQueued'
    <3>1. PICK k \in 1..Len(queue) :
            /\ queue[k] = "flush" /\ OnlyTasksAfter(k)
            /\ \A i \in 1..Len(queue) : i < k => queue[i] # "flush"
      BY <2>4 DEF FlushQueued
    <3>2. k \in 1..Len(queue') /\ queue'[k] = "flush"
      BY <1>1, <2>1, <3>1
    <3>3. OnlyTasksAfter(k)'
      BY <1>1, <2>3, <2>4, <3>1
    <3>4. \A i \in 1..Len(queue') : i < k => queue'[i] # "flush"
      BY <1>4, <2>1, <2>2, <3>1
    <3>5. QED
      BY <3>2, <3>3, <3>4 DEF FlushQueued
  <2>5. CASE main \in {"serving", "draining"}
    <3>1. \A i \in 1..Len(queue') : queue'[i] # "flush"
      BY <1>4, <2>1, <2>2, <2>5 DEF AuditIInv
    <3>2. QED
      BY <1>4, <2>1, <2>5, <3>1 DEF AuditIInv
  <2>6. CASE main \in {"flushing", "closed", "gone"}
    <3>1. HandlersOff /\ HandlersOff' /\ 0 \in Nat
      BY <1>2, <2>6 DEF AuditIInv
    <3>2. QED
      BY <1>4, <2>1, <2>3, <2>4, <2>6, <3>1 DEF AuditIInv
  <2>7. QED
    BY <1>1, <2>5, <2>6
<1>5. ASSUME NEW a \in Agents, Refused(a) \/ Returns(a), Logged(a), UNCHANGED main
      PROVE  AuditIInv'
  <2>1. agent[a].pc # "off"
    BY <1>5 DEF Refused, Returns, Running
  <2>2. HandlersOff => Source(a) = "task"
    BY <2>1, OnlyTasksRun
  <2>3. QED
    BY <1>3, <1>4, <1>5, <2>2, SourcesAreEvents DEF Logged
<1>6. ASSUME NEW a \in Agents, TurnEnds(a), a \in Handlers, Log("handler"),
             UNCHANGED main
      PROVE  AuditIInv'
  <2>1. ~HandlersOff
    BY <1>6 DEF TurnEnds, HandlersOff, Off
  <2>2. QED
    BY <1>4, <1>6, <2>1, SourcesAreEvents
<1>7. CASE UNCHANGED main /\ Writer /\ WriteEvent
  <2>1. /\ queue # <<>> /\ queue' = Tail(queue) /\ UNCHANGED <<main, database>>
        /\ \/ Head(queue) # "flush" /\ UNCHANGED flushed
              /\ lost' = IF database = "open" THEN lost ELSE lost \union {Head(queue)}
           \/ Head(queue) = "flush" /\ flushed' /\ UNCHANGED lost
    BY <1>7 DEF Writer, Write, AnswerFlush
  <2>2. /\ Head(queue) = queue[1] /\ Len(queue') = Len(queue) - 1
        /\ \A i \in 1..Len(queue') : queue'[i] = queue[i + 1]
        /\ Len(queue) >= 1
    BY <1>1, <2>1, SequenceOfEvents, SourcesAreEvents, EmptySeq
  <2>3. \A i \in 1..Len(queue') : i + 1 \in 1..Len(queue) /\ queue'[i] = queue[i + 1]
    BY <1>1, <2>2
  <2>4. CASE main \in {"serving", "draining"}
    <3>1. /\ ~flushed /\ lost = {} /\ database = "open"
          /\ \A i \in 1..Len(queue) : queue[i] # "flush"
      BY <2>4 DEF AuditIInv
    <3>2. 1 \in 1..Len(queue)
      BY <1>1, <2>2
    <3>3. Head(queue) # "flush"
      BY <2>2, <3>1, <3>2
    <3>4. \A i \in 1..Len(queue') : queue'[i] # "flush"
      BY <2>3, <3>1
    <3>5. QED
      BY <2>1, <2>4, <3>1, <3>3, <3>4 DEF AuditIInv
  <2>5. ASSUME OnlyTasksAfter(0)
        PROVE  OnlyTasksAfter(0)' /\ Head(queue) = "task"
    BY <1>1, <2>2, <2>3, <2>5 DEF OnlyTasksAfter
  <2>6. CASE main = "flushing"
    <3>1. HandlersOff' /\ lost = {} /\ database = "open"
      BY <1>2, <2>6 DEF AuditIInv
    <3>2. CASE flushed
      BY <2>1, <2>5, <2>6, <3>1, <3>2 DEF AuditIInv
    <3>3. CASE ~flushed
      <4>1. PICK k \in 1..Len(queue) :
              /\ queue[k] = "flush" /\ OnlyTasksAfter(k)
              /\ \A i \in 1..Len(queue) : i < k => queue[i] # "flush"
        BY <2>6, <3>3 DEF AuditIInv, FlushQueued
      <4>2. CASE k = 1
        <5>1. flushed'
          BY <2>1, <2>2, <4>1, <4>2
        <5>2. OnlyTasksAfter(0)'
          BY <1>1, <2>3, <4>1, <4>2 DEF OnlyTasksAfter
        <5>3. QED
          BY <2>1, <2>6, <3>1, <5>1, <5>2 DEF AuditIInv
      <4>3. CASE k # 1
        <5>1. Head(queue) # "flush" /\ k - 1 \in 1..Len(queue')
          BY <1>1, <2>2, <4>1, <4>3
        <5>2. queue'[k - 1] = "flush"
          BY <2>3, <4>1, <5>1
        <5>3. OnlyTasksAfter(k - 1)'
          BY <1>1, <2>3, <4>1 DEF OnlyTasksAfter
        <5>4. \A i \in 1..Len(queue') : i < k - 1 => queue'[i] # "flush"
          BY <1>1, <2>3, <4>1
        <5>5. FlushQueued'
          BY <5>1, <5>2, <5>3, <5>4 DEF FlushQueued
        <5>6. QED
          BY <2>1, <2>6, <3>1, <3>3, <5>1, <5>5 DEF AuditIInv
      <4>4. QED
        BY <4>2, <4>3
    <3>4. QED
      BY <3>2, <3>3
  <2>7. CASE main \in {"closed", "gone"}
    <3>1. /\ HandlersOff' /\ flushed /\ lost \subseteq {"task"}
          /\ OnlyTasksAfter(0)' /\ Head(queue) = "task"
      BY <1>2, <2>5, <2>7 DEF AuditIInv
    <3>2. QED
      BY <2>1, <2>7, <3>1 DEF AuditIInv
  <2>8. QED
    BY <1>1, <2>4, <2>6, <2>7
<1>8. CASE CtrlC /\ UNCHANGED auditVars
  BY <1>8 DEF CtrlC, AuditIInv, auditVars
<1>9. CASE Drained
  <2>1. /\ main = "draining" /\ main' = "flushing" /\ HandlersOff /\ UNCHANGED agent
        /\ queue' = queue \o <<"main", "flush">> /\ UNCHANGED <<database, flushed, lost>>
    BY <1>9 DEF Drained, LogAndFlush, HandlersOff
  <2>2. /\ Len(queue') = Len(queue) + 2
        /\ \A i \in 1..Len(queue) : queue'[i] = queue[i]
        /\ queue'[Len(queue) + 1] = "main" /\ queue'[Len(queue) + 2] = "flush"
    BY <1>1, <2>1, SequenceOfEvents, SourcesAreEvents
  <2>3. /\ ~flushed /\ lost = {} /\ database = "open"
        /\ \A i \in 1..Len(queue) : queue[i] # "flush"
    BY <2>1 DEF AuditIInv
  <2>4. FlushQueued'
    <3>1. PICK k \in 1..Len(queue') : k = Len(queue) + 2
      BY <1>1, <2>2
    <3>2. OnlyTasksAfter(k)'
      BY <1>1, <2>2, <3>1 DEF OnlyTasksAfter
    <3>3. \A i \in 1..Len(queue') : i < k => i \in 1..Len(queue) \/ i = Len(queue) + 1
      BY <1>1, <2>2, <3>1
    <3>4. \A i \in 1..Len(queue') : i < k => queue'[i] # "flush"
      BY <2>2, <2>3, <3>3
    <3>5. QED
      BY <2>2, <3>1, <3>2, <3>4 DEF FlushQueued
  <2>5. HandlersOff'
    BY <2>1 DEF HandlersOff
  <2>6. QED
    BY <2>1, <2>3, <2>4, <2>5 DEF AuditIInv
<1>10. CASE Close
  <2>1. /\ main = "flushing" /\ flushed /\ main' = "closed"
        /\ UNCHANGED <<agent, queue, flushed, lost>>
    BY <1>10 DEF Close, CloseDatabase
  <2>2. HandlersOff' /\ lost = {} /\ OnlyTasksAfter(0)'
    BY <2>1 DEF AuditIInv, HandlersOff, OnlyTasksAfter
  <2>3. QED
    BY <2>1, <2>2 DEF AuditIInv
<1>11. CASE Exit
  <2>1. /\ main = "closed" /\ main' = "gone" /\ queue' = <<>> /\ UNCHANGED flushed
        /\ lost' = lost \union {queue[i] : i \in DOMAIN queue}
    BY <1>11 DEF Exit, LoseQueue
  <2>2. flushed /\ lost \subseteq {"task"} /\ OnlyTasksAfter(0) /\ HandlersOff'
    BY <1>2, <2>1 DEF AuditIInv
  <2>3. \A i \in DOMAIN queue : queue[i] = "task"
    BY <1>1, <2>2, LenProperties DEF OnlyTasksAfter
  <2>4. Len(queue') = 0
    BY <2>1, EmptySeq
  <2>5. OnlyTasksAfter(0)'
    BY <2>4 DEF OnlyTasksAfter
  <2>6. QED
    BY <2>1, <2>2, <2>3, <2>5 DEF AuditIInv
<1>12. QED
  BY <1>3, <1>5, <1>6, <1>7, <1>8, <1>9, <1>10, <1>11, StepsOfTheLog

(* AuditComplete for any number of turns: whatever tasks log during the
   shutdown, no event of a handler, of a call within its turn or of the
   shutdown itself is behind the flush or still in the queue at the exit. *)
THEOREM NoEventIsLost == Spec => []AuditComplete
<1>1. Init => AuditIInv
  BY EmptySeq DEF Init, AuditInit, AuditIInv
<1>2. TypeOK /\ CallsIInv /\ AuditIInv /\ [Next]_vars => AuditIInv'
  BY AuditStep
<1>3. TypeOK /\ AuditIInv => AuditComplete
  BY DEF TypeOK, AuditIInv, AuditComplete
<1>4. QED
  BY <1>1, <1>2, <1>3, CallsCorrect, PTL DEF Spec

=============================================================================
