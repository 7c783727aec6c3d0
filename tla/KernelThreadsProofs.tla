------------------------- MODULE KernelThreadsProofs -------------------------
(***************************************************************************)
(* For any number of threads and objects: no wakeup is lost, every thread  *)
(* that may run is in the ready queue exactly once, and a queued thread is *)
(* never overtaken.                                                        *)
(*                                                                         *)
(* One inductive invariant carries all three: the queue is in order, and   *)
(* every sleeper is in the lists of the objects it waits for and has missed*)
(* no signal.  Each step is split into what it does to threads and queue   *)
(* (SchedulerStep) and what it does to the objects (Undisturbed, Calm): a  *)
(* step may not signal an object for a thread it leaves asleep.            *)
(***************************************************************************)
EXTENDS KernelThreads, SequenceTheorems, WellFoundedInduction, TLAPS

ThreadRecord == [state : States, frame : Nat, waits : SUBSET Nat, all : BOOLEAN,
                 timed : BOOLEAN, suspends : Int]

\* The threads, the queue and the current thread have their types.
ThreadsTyped ==
    /\ threads \in Seq(ThreadRecord) /\ ready \in Seq(Threads)
    /\ current \in {0} \cup Threads

-----------------------------------------------------------------------------
(* Sequences without duplicates. *)

\* A set of numbers has a least one.
LEMMA LeastElement ==
    ASSUME NEW T \in SUBSET Nat, T # {}
    PROVE  \E n \in T : \A m \in T : n <= m
<1> DEFINE R == {ss \in Nat \X Nat : ss[1] < ss[2]}
<1>1. IsWellFoundedOn(R, Nat)
  BY NatLessThanWellFounded DEF OpToRel
<1> HIDE DEF R
<1>2. PICK n \in T : \A m \in T : ~(<<m, n>> \in R)
  BY <1>1, WFMin, Zenon
<1>3. \A m \in T : ~(m < n)
  BY <1>2, Zenon DEF R
<1> QED
  BY <1>3

\* A set of numbers that holds 0, and with a number below n the next, holds all up to n.
LEMMA Induction ==
    ASSUME NEW n \in Nat, NEW T, 0 \in T, \A i \in 0 .. n : i \in T /\ i < n => i + 1 \in T
    PROVE  \A i \in 0 .. n : i \in T
<1> DEFINE F == {i \in 0 .. n : i \notin T}
<1>1. ASSUME F # {} PROVE FALSE
  <2> F \in SUBSET Nat
    OBVIOUS
  <2>1. PICK m \in F : \A k \in F : m <= k
    BY <1>1, LeastElement, Zenon
  <2>2. m \in 0 .. n /\ m # 0 /\ m - 1 \in 0 .. n /\ m - 1 \notin F
    BY <2>1
  <2>3. m - 1 \in T /\ m - 1 < n /\ (m - 1) + 1 = m
    BY <2>1, <2>2
  <2> QED
    BY <2>1, <2>3
<1> QED
  BY <1>1

\* No element of r is further back than in q.
NotOvertaken(q, r) == \A k \in DOMAIN r, p \in DOMAIN q : r[k] = q[p] => k <= p

\* The queue after EnqueueReady.
Queues(q, r, tid) ==
    /\ Range(r) = Range(q) \cup {tid} /\ Len(q) <= Len(r)
    /\ \A i \in 1 .. Len(q) : r[i] = q[i]

LEMMA EnqueueFacts ==
    ASSUME NEW S, NEW q \in Seq(S), NEW tid \in S, IsInjective(q)
    PROVE  /\ EnqueueReady(q, tid) \in Seq(S) /\ IsInjective(EnqueueReady(q, tid))
           /\ Queues(q, EnqueueReady(q, tid), tid)
<1>1. CASE tid \in Range(q)
  <2>1. EnqueueReady(q, tid) = q
    BY <1>1 DEF EnqueueReady
  <2> QED
    BY <1>1, <2>1 DEF Queues
<1>2. CASE tid \notin Range(q)
  <2> DEFINE r == Append(q, tid)
  <2>1. EnqueueReady(q, tid) = r
    BY <1>2 DEF EnqueueReady
  <2>2. /\ r \in Seq(S) /\ Len(r) = Len(q) + 1 /\ r[Len(q) + 1] = tid /\ Len(q) \in Nat
        /\ \A i \in 1 .. Len(q) : r[i] = q[i]
        /\ DOMAIN q = 1 .. Len(q) /\ DOMAIN r = 1 .. Len(q) + 1
    OBVIOUS
  <2> HIDE DEF r
  <2>3. \A i \in 1 .. Len(q) : q[i] # tid
    BY <1>2, <2>2 DEF Range
  <2>4. IsInjective(r)
    BY <2>2, <2>3 DEF IsInjective
  <2>5. Range(r) = Range(q) \cup {tid}
    <3>1. \A i \in DOMAIN r : r[i] \in Range(q) \cup {tid}
      BY <2>2 DEF Range
    <3>2. \A i \in DOMAIN q : q[i] \in Range(r)
      BY <2>2 DEF Range
    <3>3. tid \in Range(r)
      BY <2>2 DEF Range
    <3> QED
      BY <3>1, <3>2, <3>3 DEF Range
  <2> QED
    BY <2>1, <2>2, <2>4, <2>5 DEF Queues
<1> QED
  BY <1>1, <1>2

\* What is left of a sequence behind its first i elements.
LEMMA SuffixFacts ==
    ASSUME NEW S, NEW q \in Seq(S), NEW i \in 0 .. Len(q)
    PROVE  /\ SubSeq(q, i + 1, Len(q)) \in Seq(S)
           /\ Len(SubSeq(q, i + 1, Len(q))) = Len(q) - i
           /\ \A k \in 1 .. Len(q) - i : SubSeq(q, i + 1, Len(q))[k] = q[i + k]
<1> DEFINE n == Len(q)
           r == SubSeq(q, i + 1, n)
<1>1. n \in Nat /\ i + 1 \in Int /\ n \in Int /\ \A k \in (i + 1) .. n : q[k] \in S
  OBVIOUS
<1> HIDE DEF n
<1>2. /\ r \in Seq(S)
      /\ Len(r) = (IF i + 1 <= n THEN n - (i + 1) + 1 ELSE 0)
      /\ \A k \in 1 .. n - (i + 1) + 1 : r[k] = q[(i + 1) + k - 1]
  BY <1>1, SubSeqProperties
<1> HIDE DEF r
<1>3. i \in 0 .. n
  BY DEF n
<1>4. Len(r) = n - i
  BY <1>1, <1>2, <1>3
<1>5. ASSUME NEW k \in 1 .. n - i PROVE r[k] = q[i + k]
  <2>1. k \in 1 .. n - (i + 1) + 1 /\ (i + 1) + k - 1 = i + k
    BY <1>1, <1>3
  <2> QED
    BY <1>2, <2>1
<1> QED
  BY <1>2, <1>4, <1>5 DEF n, r

\* Taking a thread out keeps the others, none further back.
LEMMA WithoutFacts ==
    ASSUME NEW S, NEW q \in Seq(S), NEW tid, IsInjective(q)
    PROVE  /\ Without(q, tid) \in Seq(S) /\ IsInjective(Without(q, tid))
           /\ Range(Without(q, tid)) = Range(q) \ {tid}
           /\ NotOvertaken(q, Without(q, tid))
<1>1. CASE tid \notin Range(q)
  <2>1. Without(q, tid) = q
    BY <1>1 DEF Without
  <2>2. NotOvertaken(q, q)
    BY DEF NotOvertaken, IsInjective
  <2> QED
    BY <1>1, <2>1, <2>2
<1>2. CASE tid \in Range(q)
  <2> DEFINE n == Len(q)
             p == Position(q, tid)
             r == SubSeq(q, 1, p - 1) \o SubSeq(q, p + 1, Len(q))
  <2>1. p \in DOMAIN q /\ q[p] = tid
    BY <1>2 DEF Position, Range
  <2>2. n \in Nat /\ DOMAIN q = 1 .. n /\ p \in 1 .. n
    BY <2>1
  <2>3. Without(q, tid) = r
    BY <1>2, Zenon DEF Without
  <2> HIDE DEF p
  <2> DEFINE a == SubSeq(q, 1, p - 1)
             b == SubSeq(q, p + 1, n)
  <2>4. a \in Seq(S) /\ Len(a) = p - 1 /\ \A k \in 1 .. p - 1 : a[k] = q[k]
    BY <2>2
  <2>5. b \in Seq(S) /\ Len(b) = n - p /\ \A k \in 1 .. n - p : b[k] = q[p + k]
    <3>1. p \in 0 .. Len(q)
      BY <2>2
    <3> QED
      BY <3>1, SuffixFacts
  <2>6. r = a \o b
    OBVIOUS
  <2> HIDE DEF a, b, r
  <2>7. r \in Seq(S) /\ Len(r) = n - 1
    <3>1. r \in Seq(S) /\ Len(r) = Len(a) + Len(b)
      BY <2>4, <2>5, <2>6, ConcatProperties, Zenon
    <3> QED
      BY <2>2, <2>4, <2>5, <3>1
  <2>8. ASSUME NEW k \in 1 .. n - 1 PROVE r[k] = IF k < p THEN q[k] ELSE q[k + 1]
    <3>1. r[k] = IF k <= Len(a) THEN a[k] ELSE b[k - Len(a)]
      BY <2>2, <2>4, <2>5, <2>6, ConcatProperties
    <3>2. CASE k < p
      BY <2>2, <2>4, <3>1, <3>2
    <3>3. CASE ~(k < p)
      <4>1. r[k] = b[k - (p - 1)] /\ k - (p - 1) \in 1 .. n - p
        BY <2>2, <2>4, <3>1, <3>3
      <4>2. p + (k - (p - 1)) = k + 1
        BY <2>2
      <4> QED
        BY <2>2, <2>5, <3>3, <4>1, <4>2
    <3> QED
      BY <3>2, <3>3
  <2>9. DOMAIN r = 1 .. n - 1
    BY <2>7
  <2> HIDE DEF r, n
  <2>10. IsInjective(r)
    BY <2>2, <2>8, <2>9 DEF IsInjective
  <2>11. NotOvertaken(q, r)
    BY <2>2, <2>8, <2>9 DEF IsInjective, NotOvertaken
  <2>12. ASSUME NEW k \in DOMAIN r PROVE r[k] \in Range(q) /\ r[k] # tid
    <3>1. PICK m \in DOMAIN q : m # p /\ r[k] = q[m]
      <4>1. CASE k < p
        BY <2>2, <2>8, <2>9, <4>1
      <4>2. CASE ~(k < p)
        <5>1. k + 1 \in DOMAIN q /\ k + 1 # p /\ r[k] = q[k + 1]
          BY <2>2, <2>8, <2>9, <4>2
        <5> QED
          BY <5>1
      <4> QED
        BY <4>1, <4>2
    <3> QED
      BY <2>1, <3>1 DEF Range, IsInjective
  <2>13. ASSUME NEW k \in DOMAIN q, q[k] # tid PROVE q[k] \in Range(r)
    <3>1. CASE k < p
      BY <2>2, <2>8, <2>9, <3>1 DEF Range
    <3>2. CASE k > p
      <4>1. k - 1 \in DOMAIN r /\ r[k - 1] = q[(k - 1) + 1] /\ (k - 1) + 1 = k
        BY <2>2, <2>8, <2>9, <3>2
      <4> QED
        BY <4>1 DEF Range
    <3> QED
      BY <2>1, <2>2, <2>13, <3>1, <3>2
  <2>14. Range(r) = Range(q) \ {tid}
    BY <2>12, <2>13 DEF Range
  <2> QED
    BY <2>3, <2>7, <2>10, <2>11, <2>14
<1> QED
  BY <1>1, <1>2

-----------------------------------------------------------------------------
(* The queue after a Wake. *)

WakeOne(q, tid) == IF Wakes(tid) THEN EnqueueReady(q, tid) ELSE q

\* The queues g while the first n threads of tids are woken, from the queue q.
WakeQueues(g, q, tids, n) ==
    g = [i \in 0 .. n |-> IF i = 0 THEN q ELSE WakeOne(g[i - 1], tids[i])]

\* The recursion in QueueAfterWake has a solution.
LEMMA WakeRecursion ==
    ASSUME NEW q, NEW tids, NEW n \in Nat
    PROVE  \E g : WakeQueues(g, q, tids, n)
<1> DEFINE T == {m \in Nat : \E g : WakeQueues(g, q, tids, m)}
<1>1. 0 \in T
  <2> DEFINE g == [i \in 0 .. 0 |-> q]
  <2>1. g = [i \in 0 .. 0 |-> IF i = 0 THEN q ELSE WakeOne(g[i - 1], tids[i])]
    OBVIOUS
  <2> QED
    BY <2>1, Zenon DEF WakeQueues
<1>2. ASSUME NEW m \in 0 .. n, m \in T, m < n
      PROVE  m + 1 \in T
  <2>1. PICK g : WakeQueues(g, q, tids, m)
    BY <1>2
  <2> DEFINE h == [i \in 0 .. m + 1 |-> IF i <= m THEN g[i] ELSE WakeOne(g[m], tids[m + 1])]
  <2>2. \A i \in 0 .. m : g[i] = IF i = 0 THEN q ELSE WakeOne(g[i - 1], tids[i])
    BY <2>1 DEF WakeQueues
  <2>3. ASSUME NEW i \in 0 .. m + 1
        PROVE  h[i] = IF i = 0 THEN q ELSE WakeOne(h[i - 1], tids[i])
    <3>1. CASE i = 0
      BY <2>2, <3>1
    <3>2. CASE i # 0 /\ i <= m
      <4>1. i - 1 \in 0 .. m + 1 /\ i - 1 <= m /\ i \in 0 .. m
        BY <3>2
      <4>2. h[i] = g[i] /\ h[i - 1] = g[i - 1]
        BY <3>2, <4>1
      <4> QED
        BY <2>2, <3>2, <4>1, <4>2
    <3>3. CASE i = m + 1
      <4>1. h[i] = WakeOne(g[m], tids[m + 1]) /\ h[m] = g[m] /\ i - 1 = m /\ i # 0
        BY <3>3
      <4> QED
        BY <3>3, <4>1
    <3> QED
      BY <3>1, <3>2, <3>3
  <2>4. h = [i \in 0 .. m + 1 |-> h[i]]
    OBVIOUS
  <2> HIDE DEF h
  <2>5. h = [i \in 0 .. m + 1 |-> IF i = 0 THEN q ELSE WakeOne(h[i - 1], tids[i])]
    BY <2>3, <2>4, Zenon
  <2>6. m + 1 \in Nat
    OBVIOUS
  <2> QED
    BY <2>5, <2>6 DEF WakeQueues
<1> HIDE DEF T
<1>3. \A i \in 0 .. n : i \in T
  BY <1>1, <1>2, Induction
<1>4. n \in T
  BY <1>3
<1> QED
  BY <1>4 DEF T

\* QueueAfterWake wakes one thread after the other.
LEMMA QueueSteps ==
    ASSUME NEW tids, Len(tids) \in Nat
    PROVE  \E g : /\ g[0] = ready /\ g[Len(tids)] = QueueAfterWake(tids)
                  /\ \A i \in 1 .. Len(tids) : g[i] = WakeOne(g[i - 1], tids[i])
<1> DEFINE n == Len(tids)
           f == CHOOSE g : g = [i \in 0 .. n |-> IF i = 0 THEN ready
                                                 ELSE IF Wakes(tids[i])
                                                      THEN EnqueueReady(g[i - 1], tids[i])
                                                      ELSE g[i - 1]]
<1>1. QueueAfterWake(tids) = f[n]
  BY DEF QueueAfterWake
<1>2. \E g : WakeQueues(g, ready, tids, n)
  BY WakeRecursion
<1>3. \E g : g = [i \in 0 .. n |-> IF i = 0 THEN ready
                                   ELSE IF Wakes(tids[i]) THEN EnqueueReady(g[i - 1], tids[i])
                                        ELSE g[i - 1]]
  BY <1>2 DEF WakeQueues, WakeOne
<1>4. f = [i \in 0 .. n |-> IF i = 0 THEN ready
                            ELSE IF Wakes(tids[i]) THEN EnqueueReady(f[i - 1], tids[i])
                                 ELSE f[i - 1]]
  BY <1>3
<1> HIDE DEF f
<1>5. f[0] = ready /\ \A i \in 1 .. n : f[i] = WakeOne(f[i - 1], tids[i])
  <2>1. n \in Nat
    OBVIOUS
  <2> HIDE DEF n
  <2>2. \A i \in 0 .. n : f[i] = IF i = 0 THEN ready
                                 ELSE IF Wakes(tids[i]) THEN EnqueueReady(f[i - 1], tids[i])
                                      ELSE f[i - 1]
    BY <1>4, Zenon
  <2>3. f[0] = ready
    BY <2>1, <2>2
  <2>4. \A i \in 1 .. n : i \in 0 .. n /\ i # 0
    BY <2>1
  <2> QED
    BY <2>2, <2>3, <2>4 DEF WakeOne
<1> QED
  BY <1>1, <1>5

\* r is the queue q with more behind it.
Continues(q, r) == Len(q) <= Len(r) /\ \A i \in 1 .. Len(q) : r[i] = q[i]

\* What QueueAfterWake returns: the queue with the threads that wake behind it.
WokenQueue(q, r, tids) ==
    /\ r \in Seq(Threads) /\ IsInjective(r) /\ Continues(q, r)
    /\ \A t : t \in Range(r) <=> t \in Range(q) \/ (t \in Range(tids) /\ Wakes(t))

LEMMA QueueAfterWakeFacts ==
    ASSUME ready \in Seq(Threads), IsInjective(ready), NEW tids \in Seq(Nat)
    PROVE  WokenQueue(ready, QueueAfterWake(tids), tids)
<1> DEFINE n == Len(tids)
<1>1. n \in Nat /\ DOMAIN tids = 1 .. n
  OBVIOUS
<1>2. PICK g : /\ g[0] = ready /\ g[n] = QueueAfterWake(tids)
               /\ \A i \in 1 .. n : g[i] = WakeOne(g[i - 1], tids[i])
  BY <1>1, QueueSteps
<1> DEFINE P(i) == /\ g[i] \in Seq(Threads) /\ IsInjective(g[i]) /\ Continues(ready, g[i])
                   /\ \A t : t \in Range(g[i]) <=>
                                t \in Range(ready) \/ \E j \in 1 .. i : t = tids[j] /\ Wakes(t)
           T == {i \in 0 .. n : P(i)}
<1> HIDE DEF n
<1>3. P(0)
  <2>1. Continues(ready, ready)
    BY DEF Continues
  <2> QED
    BY <1>2, <2>1
<1>4. ASSUME NEW i \in 0 .. n, i < n, P(i)
      PROVE  P(i + 1)
  <2> DEFINE tid == tids[i + 1]
  <2>1. i + 1 \in 1 .. n /\ (i + 1) - 1 = i
    BY <1>1, <1>4
  <2>2. g[i + 1] = WakeOne(g[i], tid)
    BY <1>2, <2>1
  <2>3. \A j : j \in 1 .. i + 1 <=> j \in 1 .. i \/ j = i + 1
    BY <1>1
  <2>4. \A t : (\E j \in 1 .. i + 1 : t = tids[j] /\ Wakes(t)) <=>
                  (\E j \in 1 .. i : t = tids[j] /\ Wakes(t)) \/ (t = tid /\ Wakes(t))
    BY <2>3
  <2>5. CASE ~Wakes(tid)
    BY <1>4, <2>2, <2>4, <2>5 DEF WakeOne
  <2>6. CASE Wakes(tid)
    <3>1. tid \in Threads /\ g[i + 1] = EnqueueReady(g[i], tid)
      BY <2>2, <2>6 DEF WakeOne, Wakes
    <3>2. g[i] \in Seq(Threads) /\ IsInjective(g[i])
      BY <1>4
    <3>3. /\ g[i + 1] \in Seq(Threads) /\ IsInjective(g[i + 1])
          /\ Queues(g[i], g[i + 1], tid)
      BY <3>1, <3>2, EnqueueFacts
    <3>4. Continues(ready, g[i + 1])
      <4>1. Len(ready) \in Nat /\ Len(g[i]) \in Nat /\ Len(g[i + 1]) \in Nat
        BY <3>2, <3>3
      <4> QED
        BY <1>4, <3>3, <4>1 DEF Queues, Continues
    <3>5. \A t : t \in Range(g[i + 1]) <=> t \in Range(g[i]) \/ t = tid
      BY <3>3 DEF Queues
    <3> HIDE DEF tid
    <3> QED
      BY <1>4, <2>4, <2>6, <3>3, <3>4, <3>5
  <2> QED
    BY <2>5, <2>6
<1> HIDE DEF P
<1>5. \A i \in 0 .. n : i \in T
  <2>1. 0 \in T /\ \A i \in 0 .. n : i \in T /\ i < n => i + 1 \in T
    BY <1>1, <1>3, <1>4
  <2> HIDE DEF T
  <2> QED
    BY <1>1, <2>1, Induction, Zenon
<1>6. P(n)
  BY <1>1, <1>5
<1>7. \A t : (\E j \in 1 .. n : t = tids[j] /\ Wakes(t)) <=> (t \in Range(tids) /\ Wakes(t))
  BY <1>1, Zenon DEF Range
<1> QED
  BY <1>2, <1>6, <1>7 DEF P, WokenQueue

-----------------------------------------------------------------------------
(* The switch of threads. *)

\* What QueueHoldsReady says, of threads ts, a queue q and a current thread c.
QueueOK(ts, q, c) ==
    /\ \A t \in DOMAIN ts : ts[t].state = "Running" => t = c
    /\ IsInjective(q)
    /\ \A t \in DOMAIN ts : ts[t].state = "Ready" => t \in Range(q)
    /\ \A t \in Range(q) : ts[t].state \notin {"Running", "Suspended"}

\* The fields of a thread that runs.
LEMMA RunningFacts ==
    ASSUME NEW th \in ThreadRecord
    PROVE  /\ Running(th) \in ThreadRecord /\ Running(th).state = "Running"
           /\ Running(th).waits = th.waits
BY Zenon DEF ThreadRecord, Running, States, NoFrame

\* How ScheduleNext leaves threads, queue and current thread.
Scheduled(ts, q) ==
    /\ threads' \in Seq(ThreadRecord) /\ DOMAIN threads' = DOMAIN ts
    /\ ready' \in Seq(Threads) /\ current' \in {0} \cup Threads
    /\ QueueOK(threads', ready', current') /\ NotOvertaken(q, ready')
    /\ \A t \in DOMAIN ts : threads'[t] = ts[t] \/ threads'[t] = Running(ts[t])

LEMMA ScheduleNextFacts ==
    ASSUME NEW ts \in Seq(ThreadRecord), DOMAIN ts = Threads, NEW q \in Seq(Threads),
           current \in {0} \cup Threads, QueueOK(ts, q, 0), ScheduleNext(ts, q)
    PROVE  Scheduled(ts, q)
<1> DEFINE runnable == {i \in DOMAIN q : ts[q[i]].state \notin {"Terminated", "Suspended"}}
           i == CHOOSE n \in runnable : \A m \in runnable : n <= m
<1>1. /\ \A t \in Threads : ts[t].state # "Running"
      /\ IsInjective(q) /\ \A t \in Threads : ts[t].state = "Ready" => t \in Range(q)
      /\ \A t \in Range(q) : ts[t].state \notin {"Running", "Suspended"}
  <2>1. \A t \in Threads : t # 0
    OBVIOUS
  <2> QED
    BY <2>1 DEF QueueOK
<1>2. CASE runnable = {}
  <2>1. threads' = ts /\ ready' = << >> /\ current' = current
    BY <1>2 DEF ScheduleNext
  <2>2. \A t \in Threads : ts[t].state # "Ready"
    BY <1>1, <1>2 DEF Range
  <2>3. << >> \in Seq(Threads) /\ Range(<< >>) = {} /\ IsInjective(<< >>) /\ NotOvertaken(q, << >>)
    BY DEF Range, IsInjective, NotOvertaken
  <2>4. QueueOK(ts, << >>, current)
    BY <1>1, <2>2, <2>3 DEF QueueOK
  <2> QED
    BY <2>1, <2>3, <2>4 DEF Scheduled
<1>3. CASE runnable # {}
  <2>1. runnable \in SUBSET Nat
    OBVIOUS
  <2>2. \E n \in runnable : \A m \in runnable : n <= m
    BY <1>3, <2>1, LeastElement, Zenon
  <2>3. i \in runnable /\ \A m \in runnable : i <= m
    BY <2>2
  <2> DEFINE t0 == q[i]
             r == SubSeq(q, i + 1, Len(q))
  <2>4. /\ threads' = [ts EXCEPT ![t0] = Running(ts[t0])] /\ ready' = r /\ current' = t0
    BY <1>3 DEF ScheduleNext
  <2>5. i \in DOMAIN q /\ \A m \in DOMAIN q : m < i => ts[q[m]].state \in {"Terminated", "Suspended"}
    <3>1. i \in Nat /\ DOMAIN q \subseteq Nat /\ i \in DOMAIN q
      <4>1. runnable \subseteq DOMAIN q /\ DOMAIN q = 1 .. Len(q) /\ Len(q) \in Nat
        OBVIOUS
      <4> HIDE DEF runnable, i
      <4> QED
        BY <2>3, <4>1
    <3> HIDE DEF i
    <3> SUFFICES ASSUME NEW m \in DOMAIN q, m < i PROVE ts[q[m]].state \in {"Terminated", "Suspended"}
      BY <3>1
    <3>2. m \notin runnable
      <4> HIDE DEF runnable
      <4> QED
        BY <2>3, <3>1
    <3> QED
      BY <3>2
  <2> HIDE DEF i, runnable
  <2>6. Len(q) \in Nat /\ DOMAIN q = 1 .. Len(q) /\ i \in 1 .. Len(q) /\ i \in 0 .. Len(q)
    BY <2>5
  <2>7. t0 \in Threads
    BY <2>5
  <2>8. /\ r \in Seq(Threads) /\ Len(r) = Len(q) - i
        /\ \A k \in 1 .. Len(q) - i : r[k] = q[i + k]
    BY <2>6, SuffixFacts
  <2>9. DOMAIN r = 1 .. Len(q) - i
    BY <2>8
  <2> HIDE DEF r
  <2>10. ASSUME NEW k \in DOMAIN r
         PROVE  /\ i + k \in DOMAIN q /\ i + k > i /\ k < i + k
                /\ r[k] = q[i + k]
    <3>1. k \in 1 .. Len(q) - i
      BY <2>9
    <3>2. i + k \in 1 .. Len(q) /\ i + k > i /\ k < i + k
      BY <2>6, <3>1
    <3> QED
      BY <2>6, <2>8, <3>1, <3>2
  <2>11. IsInjective(r)
    BY <1>1, <2>6, <2>9, <2>10 DEF IsInjective
  <2>12. NotOvertaken(q, r)
    BY <1>1, <2>6, <2>9, <2>10 DEF IsInjective, NotOvertaken
  <2>13. ASSUME NEW k \in DOMAIN r PROVE r[k] # t0 /\ r[k] \in Range(q)
    <3>1. i + k \in DOMAIN q /\ i + k # i /\ r[k] = q[i + k]
      BY <2>6, <2>10
    <3>2. q[i + k] # q[i]
      BY <1>1, <2>5, <3>1 DEF IsInjective
    <3> QED
      BY <3>1, <3>2 DEF Range
  <2>14. ASSUME NEW m \in DOMAIN q, m > i PROVE q[m] \in Range(r)
    <3>1. m - i \in DOMAIN r /\ i + (m - i) = m
      BY <2>6, <2>9, <2>14
    <3> QED
      BY <2>10, <3>1 DEF Range
  <2> HIDE DEF t0
  <2>15. ts[t0] \in ThreadRecord
    BY <2>7
  <2>16. Running(ts[t0]) \in ThreadRecord /\ Running(ts[t0]).state = "Running"
    BY <2>15, RunningFacts
  <2>17. /\ threads' \in Seq(ThreadRecord) /\ DOMAIN threads' = Threads
         /\ threads'[t0] = Running(ts[t0])
         /\ \A t \in Threads : t # t0 => threads'[t] = ts[t]
    BY <2>4, <2>7, <2>16
  <2>18. \A t \in Threads : threads'[t].state = "Running" => t = t0
    BY <1>1, <2>17
  <2>19. ASSUME NEW t \in Threads, threads'[t].state = "Ready" PROVE t \in Range(r)
    <3>1. t # t0 /\ ts[t].state = "Ready"
      BY <2>16, <2>17, <2>19
    <3>2. PICK m \in DOMAIN q : q[m] = t
      BY <1>1, <3>1 DEF Range
    <3>3. ~(m < i) /\ m # i
      BY <2>5, <3>1, <3>2 DEF t0
    <3> QED
      BY <2>6, <2>14, <3>2, <3>3
  <2>20. \A t \in Range(r) : threads'[t].state \notin {"Running", "Suspended"}
    <3>1. \A t \in Range(r) : t # t0 /\ t \in Range(q) /\ t \in Threads
      BY <2>8, <2>13 DEF Range
    <3> QED
      BY <1>1, <2>17, <3>1
  <2>21. QueueOK(threads', r, t0)
    BY <2>11, <2>17, <2>18, <2>19, <2>20 DEF QueueOK
  <2> QED
    BY <2>4, <2>7, <2>8, <2>12, <2>17, <2>21 DEF Scheduled
<1> QED
  BY <1>2, <1>3

-----------------------------------------------------------------------------
(* What the operations of the scheduler do to threads and queue. *)

SchedulerInv == ThreadsTyped /\ QueueOK(threads, ready, current)

\* A step keeps the invariant, and nobody who waits for an object is put to sleep,
\* or waits for something else, except the threads of T.
SchedulerStep(T) ==
    /\ threads' \in Seq(ThreadRecord) /\ Threads \subseteq DOMAIN threads'
    /\ ready' \in Seq(DOMAIN threads') /\ current' \in {0} \cup DOMAIN threads'
    /\ QueueOK(threads', ready', current') /\ NotOvertaken(ready, ready')
    /\ \A t \in DOMAIN threads' \ T : threads'[t].state = "Blocked" =>
          /\ t \in Threads /\ threads[t].state = "Blocked"
          /\ threads'[t].waits = threads[t].waits /\ threads'[t].all = threads[t].all

\* One thread changed.
LEMMA UpdateFacts ==
    ASSUME NEW ts \in Seq(ThreadRecord), NEW c \in DOMAIN ts, NEW th \in ThreadRecord
    PROVE  /\ [ts EXCEPT ![c] = th] \in Seq(ThreadRecord)
           /\ DOMAIN [ts EXCEPT ![c] = th] = DOMAIN ts
           /\ [ts EXCEPT ![c] = th][c] = th
           /\ \A t \in DOMAIN ts : t # c => [ts EXCEPT ![c] = th][t] = ts[t]
OBVIOUS

\* A queue overtakes nobody in itself, nor does one that continues it.
LEMMA ContinuesFacts ==
    ASSUME NEW S, NEW q \in Seq(S), NEW r \in Seq(S), IsInjective(r), Continues(q, r)
    PROVE  /\ NotOvertaken(q, r)
           /\ \A s : NotOvertaken(r, s) => NotOvertaken(q, s)
<1>1. /\ DOMAIN q = 1 .. Len(q) /\ DOMAIN r = 1 .. Len(r) /\ Len(q) \in Nat /\ Len(r) \in Nat
  OBVIOUS
<1>2. \A i \in DOMAIN q : i \in DOMAIN r /\ r[i] = q[i]
  BY <1>1 DEF Continues
<1>3. NotOvertaken(q, r)
  BY <1>1, <1>2 DEF NotOvertaken, IsInjective
<1>4. \A s : NotOvertaken(r, s) => NotOvertaken(q, s)
  BY <1>2 DEF NotOvertaken
<1> QED
  BY <1>3, <1>4

LEMMA SelfNotOvertaken ==
    ASSUME NEW S, NEW q \in Seq(S), IsInjective(q)
    PROVE  NotOvertaken(q, q)
BY DEF NotOvertaken, IsInjective

\* th may take the place of the current thread while another one runs.
OffCpu(th) ==
    /\ th \in ThreadRecord
    /\ th.state \in {"Ready", "Blocked", "Terminated"}
          \/ (th.state = threads[current].state /\ th.state # "Running")

\* q is the ready queue, with the current thread in it when it is ready as th.
QueueWith(q, th) ==
    /\ q \in Seq(Threads) /\ IsInjective(q) /\ Continues(ready, q)
    /\ \A t : t \in Range(q) <=> t \in Range(ready) \/ (t = current /\ th.state = "Ready")

\* ScheduleNext has run with the current thread th in ts.
Switched(ts, q, th) ==
    /\ Scheduled(ts, q) /\ NotOvertaken(ready, ready')
    /\ ts \in Seq(ThreadRecord) /\ DOMAIN ts = Threads /\ ts[current] = th
    /\ \A t \in Threads : t # current => ts[t] = threads[t]

\* A caller of ScheduleNext that took the CPU from the current thread.
LEMMA GiveUpCpu ==
    ASSUME SchedulerInv, current \in Threads, NEW th, OffCpu(th), NEW q, QueueWith(q, th),
           ScheduleNext([threads EXCEPT ![current] = th], q)
    PROVE  Switched([threads EXCEPT ![current] = th], q, th)
<1> DEFINE ts == [threads EXCEPT ![current] = th]
<1>1. /\ th \in ThreadRecord
      /\ th.state \in {"Ready", "Blocked", "Terminated"}
            \/ (th.state = threads[current].state /\ th.state # "Running")
      /\ q \in Seq(Threads) /\ IsInjective(q) /\ Continues(ready, q)
      /\ \A t : t \in Range(q) <=> t \in Range(ready) \/ (t = current /\ th.state = "Ready")
  BY DEF OffCpu, QueueWith
<1>2. threads \in Seq(ThreadRecord) /\ ready \in Seq(Threads)
  BY DEF SchedulerInv, ThreadsTyped
<1>3. /\ ts \in Seq(ThreadRecord) /\ DOMAIN ts = Threads /\ ts[current] = th
      /\ \A t \in Threads : t # current => ts[t] = threads[t]
  BY <1>1, <1>2, UpdateFacts DEF Threads
<1>4. ScheduleNext(ts, q)
  OBVIOUS
<1> HIDE DEF ts
<1>5. QueueOK(threads, ready, current)
  BY DEF SchedulerInv
<1>6. \A t \in Range(q) : t \in Threads
  BY <1>1 DEF Range
<1>7. QueueOK(ts, q, 0)
  <2>1. \A t \in Threads : ts[t].state # "Running"
    BY <1>1, <1>3, <1>5 DEF QueueOK, Threads
  <2>2. \A t \in Threads : ts[t].state = "Ready" => t \in Range(q)
    BY <1>1, <1>3, <1>5 DEF QueueOK, Threads
  <2>3. \A t \in Range(q) : ts[t].state # "Suspended"
    <3> SUFFICES ASSUME NEW t \in Range(q) PROVE ts[t].state # "Suspended"
      OBVIOUS
    <3>1. CASE t # current
      BY <1>1, <1>3, <1>5, <1>6, <3>1 DEF QueueOK
    <3>2. CASE t = current /\ t \in Range(ready)
      BY <1>1, <1>3, <1>5, <3>2 DEF QueueOK
    <3>3. CASE t = current /\ th.state = "Ready"
      BY <1>3, <3>3
    <3> QED
      BY <1>1, <3>1, <3>2, <3>3
  <2> QED
    BY <1>1, <1>3, <1>6, <2>1, <2>2, <2>3 DEF QueueOK
<1>8. current \in {0} \cup Threads
  OBVIOUS
<1>9. Scheduled(ts, q)
  BY <1>1, <1>3, <1>7, <1>8, <1>4, ScheduleNextFacts
<1>10. NotOvertaken(q, ready')
  BY <1>9 DEF Scheduled
<1>11. NotOvertaken(ready, ready')
  BY <1>1, <1>2, <1>10, ContinuesFacts
<1>12. Switched(ts, q, th)
  BY <1>3, <1>9, <1>11 DEF Switched
<1> QED
  BY <1>12 DEF ts

\* What such a caller's step is.
LEMMA GiveUpCpuStep ==
    ASSUME SchedulerInv, current \in Threads, NEW ts, NEW q, NEW th, Switched(ts, q, th)
    PROVE  /\ SchedulerStep({current})
           /\ threads'[current].state = "Blocked" => threads'[current] = th
<1>1. /\ threads' \in Seq(ThreadRecord) /\ DOMAIN threads' = Threads
      /\ ready' \in Seq(Threads) /\ current' \in {0} \cup Threads
      /\ QueueOK(threads', ready', current')
      /\ \A t \in Threads : threads'[t] = ts[t] \/ threads'[t] = Running(ts[t])
      /\ NotOvertaken(ready, ready') /\ ts[current] = th
      /\ \A t \in Threads : t # current => ts[t] = threads[t]
  BY DEF Scheduled, Switched
<1>2. \A t \in Threads : ts[t] \in ThreadRecord
  BY DEF Switched
<1>3. \A t \in Threads : Running(ts[t]).state = "Running"
  BY <1>2, RunningFacts
<1>4. ASSUME NEW t \in DOMAIN threads' \ {current}, threads'[t].state = "Blocked"
      PROVE  /\ t \in Threads /\ threads[t].state = "Blocked"
             /\ threads'[t].waits = threads[t].waits /\ threads'[t].all = threads[t].all
  <2>1. t \in Threads /\ threads'[t] = ts[t] /\ ts[t] = threads[t]
    BY <1>1, <1>3, <1>4
  <2> QED
    BY <1>4, <2>1
<1>5. SchedulerStep({current})
  BY <1>1, <1>4 DEF SchedulerStep
<1> QED
  BY <1>1, <1>3, <1>5

LEMMA YieldStep ==
    ASSUME SchedulerInv, Yield
    PROVE  /\ SchedulerStep({current})
           /\ current \in Threads
           /\ threads'[current].state = "Blocked" =>
                 /\ threads[current].state = "Blocked"
                 /\ threads'[current].waits = threads[current].waits
                 /\ threads'[current].all = threads[current].all
<1> DEFINE old == threads[current]
           runs == old.state = "Running"
           th == [old EXCEPT !.frame = Frame["Yield"], !.state = IF runs THEN "Ready" ELSE @]
           ts == [threads EXCEPT ![current] = th]
           q == IF runs THEN EnqueueReady(ready, current) ELSE ready
<1>1. /\ threads \in Seq(ThreadRecord) /\ ready \in Seq(Threads) /\ current \in Threads
      /\ IsInjective(ready)
  BY DEF SchedulerInv, ThreadsTyped, QueueOK, Yield
<1>2. old \in ThreadRecord
  BY <1>1 DEF Threads
<1>3. /\ th \in ThreadRecord /\ th.state = (IF runs THEN "Ready" ELSE old.state)
      /\ th.waits = old.waits /\ th.all = old.all
  BY <1>2, Zenon DEF ThreadRecord, Frame, States
<1>4. ScheduleNext(ts, q)
  <2>1. ts = [threads EXCEPT ![current].frame = Frame["Yield"],
                             ![current].state = IF runs THEN "Ready" ELSE @]
    BY Zenon
  <2> QED
    BY <2>1 DEF Yield
<1> HIDE DEF th, ts
<1>5. QueueWith(q, th)
  <2>1. CASE runs
    <3>1. Queues(ready, q, current) /\ q \in Seq(Threads) /\ IsInjective(q)
      BY <1>1, <2>1, EnqueueFacts
    <3> QED
      BY <1>3, <2>1, <3>1 DEF Queues, Continues, QueueWith
  <2>2. CASE ~runs
    <3>1. th.state = "Ready" => current \in Range(ready)
      BY <1>1, <1>3, <2>2 DEF SchedulerInv, QueueOK, Threads
    <3> QED
      BY <1>1, <2>2, <3>1 DEF Continues, QueueWith
  <2> QED
    BY <2>1, <2>2
<1> HIDE DEF q
<1>6. OffCpu(th)
  BY <1>3 DEF OffCpu
<1>7. Switched(ts, q, th)
  BY <1>1, <1>4, <1>5, <1>6, GiveUpCpu DEF ts
<1>8. SchedulerStep({current}) /\ (threads'[current].state = "Blocked" => threads'[current] = th)
  BY <1>1, <1>7, GiveUpCpuStep
<1> QED
  BY <1>1, <1>3, <1>8

\* The current thread goes to sleep, or goes on because nobody else can run.
LEMMA BlockCurrentStep ==
    ASSUME SchedulerInv, current \in Threads, NEW e \in {"Yield", "WaitSingle", "WaitMultiple", "Delay"},
           NEW waits \in SUBSET Nat, NEW all \in BOOLEAN, NEW timed \in BOOLEAN,
           BlockCurrent(e, waits, all, timed)
    PROVE  /\ SchedulerStep({current})
           /\ threads'[current].state = "Blocked" =>
                 threads'[current].waits = waits /\ threads'[current].all = all
<1> DEFINE old == threads[current]
           th == [old EXCEPT !.frame = Frame[e], !.state = "Blocked", !.waits = waits,
                             !.all = all, !.timed = timed]
           ts == [threads EXCEPT ![current] = th]
<1>1. /\ threads \in Seq(ThreadRecord) /\ ready \in Seq(Threads) /\ current # 0
      /\ IsInjective(ready)
  BY DEF SchedulerInv, ThreadsTyped, QueueOK, Threads
<1>2. old \in ThreadRecord
  BY <1>1 DEF Threads
<1>3. Frame[e] \in Nat
  BY DEF Frame
<1>4. th \in ThreadRecord /\ th.state = "Blocked" /\ th.waits = waits /\ th.all = all
  BY <1>2, <1>3 DEF ThreadRecord, States
<1>5. ScheduleNext(ts, ready)
  <2>1. ts = [threads EXCEPT ![current].frame = Frame[e], ![current].state = "Blocked",
                             ![current].waits = waits, ![current].all = all,
                             ![current].timed = timed]
    OBVIOUS
  <2> QED
    BY <1>1, <2>1 DEF BlockCurrent
<1> HIDE DEF th, ts
<1>6. QueueWith(ready, th) /\ OffCpu(th)
  BY <1>1, <1>4 DEF Continues, QueueWith, OffCpu
<1>7. Switched(ts, ready, th)
  BY <1>5, <1>6, GiveUpCpu DEF ts
<1>8. SchedulerStep({current}) /\ (threads'[current].state = "Blocked" => threads'[current] = th)
  BY <1>7, GiveUpCpuStep
<1> QED
  BY <1>4, <1>8

LEMMA DeadFacts ==
    Dead \in ThreadRecord /\ Dead.state = "Terminated"
BY DEF Dead, ThreadRecord, States, NoFrame

LEMMA ExitCurrentStep ==
    ASSUME SchedulerInv, ExitCurrent
    PROVE  SchedulerStep({current}) /\ current \in Threads /\ threads'[current].state # "Blocked"
<1> DEFINE ts == [threads EXCEPT ![current] = Dead]
<1>1. /\ threads \in Seq(ThreadRecord) /\ ready \in Seq(Threads) /\ current \in Threads
      /\ IsInjective(ready) /\ ScheduleNext(ts, ready)
  BY DEF SchedulerInv, ThreadsTyped, QueueOK, ExitCurrent
<1> HIDE DEF ts
<1>2. QueueWith(ready, Dead) /\ OffCpu(Dead)
  BY <1>1, DeadFacts DEF Continues, QueueWith, OffCpu
<1>3. Switched(ts, ready, Dead)
  BY <1>1, <1>2, GiveUpCpu DEF ts
<1> QED
  BY <1>1, <1>3, DeadFacts, GiveUpCpuStep, Zenon

LEMMA CreateThreadStep ==
    ASSUME SchedulerInv, CreateThread
    PROVE  SchedulerStep({})
<1> DEFINE n == Len(threads)
           tid == n + 1
           first == current = 0
           th == [state |-> IF first THEN "Running" ELSE "Ready", frame |-> NoFrame,
                  waits |-> {}, all |-> FALSE, timed |-> FALSE, suspends |-> 0]
<1>1. /\ threads \in Seq(ThreadRecord) /\ ready \in Seq(Threads) /\ current \in {0} \cup Threads
      /\ QueueOK(threads, ready, current)
  BY DEF SchedulerInv, ThreadsTyped
<1>2. th \in ThreadRecord /\ th.state = (IF first THEN "Running" ELSE "Ready")
  BY DEF ThreadRecord, States, NoFrame
<1>3. /\ threads' = Append(threads, th) /\ current' = (IF first THEN tid ELSE current)
      /\ ready' = (IF first THEN ready ELSE EnqueueReady(ready, tid))
  BY DEF CreateThread
<1> HIDE DEF th
<1>4. /\ threads' \in Seq(ThreadRecord) /\ DOMAIN threads' = Threads \cup {tid}
      /\ threads'[tid] = th /\ \A t \in Threads : threads'[t] = threads[t] /\ t # tid
      /\ tid \notin Threads /\ tid # 0
  BY <1>1, <1>2, <1>3 DEF Threads
<1>5. ready \in Seq(DOMAIN threads')
  BY <1>1, <1>4
<1>6. \A t \in Range(ready) : t \in Threads
  BY <1>1 DEF Range
<1> HIDE DEF tid
<1>7. CASE first
  <2>1. QueueOK(threads', ready, tid)
    <3>1. \A t \in Threads : threads[t].state # "Running"
      BY <1>1, <1>7 DEF QueueOK, Threads
    <3>2. \A t \in DOMAIN threads' : threads'[t].state = "Running" => t = tid
      BY <1>4, <3>1
    <3>3. \A t \in DOMAIN threads' : threads'[t].state = "Ready" => t \in Range(ready)
      BY <1>1, <1>2, <1>4, <1>7 DEF QueueOK, Threads
    <3>4. \A t \in Range(ready) : threads'[t].state \notin {"Running", "Suspended"}
      BY <1>1, <1>4, <1>6 DEF QueueOK
    <3> QED
      BY <1>1, <3>2, <3>3, <3>4 DEF QueueOK
  <2>2. NotOvertaken(ready, ready)
    BY <1>1, SelfNotOvertaken DEF QueueOK
  <2> QED
    BY <1>2, <1>3, <1>4, <1>5, <1>7, <2>1, <2>2 DEF SchedulerStep
<1>8. CASE ~first
  <2>1. /\ ready' \in Seq(DOMAIN threads') /\ IsInjective(ready') /\ Queues(ready, ready', tid)
    BY <1>1, <1>3, <1>4, <1>5, <1>8, EnqueueFacts DEF QueueOK
  <2>2. QueueOK(threads', ready', current)
    <3>1. \A t \in DOMAIN threads' : threads'[t].state = "Running" => t = current
      BY <1>1, <1>2, <1>4, <1>8 DEF QueueOK, Threads
    <3>2. \A t \in DOMAIN threads' : threads'[t].state = "Ready" => t \in Range(ready')
      BY <1>1, <1>4, <2>1 DEF QueueOK, Threads, Queues
    <3>3. \A t \in Range(ready') : threads'[t].state \notin {"Running", "Suspended"}
      BY <1>1, <1>2, <1>4, <1>6, <1>8, <2>1 DEF QueueOK, Queues
    <3> QED
      BY <2>1, <3>1, <3>2, <3>3 DEF QueueOK
  <2>3. NotOvertaken(ready, ready')
    BY <1>5, <2>1, ContinuesFacts DEF Continues, Queues
  <2> QED
    BY <1>1, <1>2, <1>3, <1>4, <1>8, <2>1, <2>2, <2>3 DEF SchedulerStep
<1> QED
  BY <1>7, <1>8

\* One thread changed that is not the current one's business: what is left to show.
LEMMA ChangeStep ==
    ASSUME SchedulerInv, NEW tid \in Threads, NEW th \in ThreadRecord,
           threads' = [threads EXCEPT ![tid] = th], current' = current,
           ready' \in Seq(Threads), IsInjective(ready'), NotOvertaken(ready, ready'),
           \A t : t # tid => (t \in Range(ready') <=> t \in Range(ready)),
           th.state = "Running" => threads[tid].state = "Running",
           th.state = "Ready" => tid \in Range(ready'),
           tid \in Range(ready') => th.state \notin {"Running", "Suspended"},
           th.state = "Blocked" => /\ threads[tid].state = "Blocked"
                                   /\ th.waits = threads[tid].waits /\ th.all = threads[tid].all
    PROVE  SchedulerStep({})
<1>1. /\ threads \in Seq(ThreadRecord) /\ current \in {0} \cup Threads
      /\ QueueOK(threads, ready, current)
  BY DEF SchedulerInv, ThreadsTyped
<1>2. /\ threads' \in Seq(ThreadRecord) /\ DOMAIN threads' = Threads /\ threads'[tid] = th
      /\ \A t \in Threads : t # tid => threads'[t] = threads[t]
  BY <1>1, UpdateFacts DEF Threads
<1>3. \A t \in Range(ready') : t \in Threads
  BY DEF Range
<1>4. QueueOK(threads', ready', current')
  <2>1. \A t \in Threads : threads'[t].state = "Running" => t = current
    BY <1>1, <1>2 DEF QueueOK, Threads
  <2>2. \A t \in Threads : threads'[t].state = "Ready" => t \in Range(ready')
    BY <1>1, <1>2 DEF QueueOK, Threads
  <2>3. \A t \in Range(ready') : threads'[t].state \notin {"Running", "Suspended"}
    BY <1>1, <1>2, <1>3 DEF QueueOK
  <2> QED
    BY <1>2, <2>1, <2>2, <2>3 DEF QueueOK
<1> QED
  BY <1>1, <1>2, <1>4 DEF SchedulerStep

LEMMA TerminateThreadStep ==
    ASSUME SchedulerInv, NEW tid \in Threads, TerminateThread(tid)
    PROVE  SchedulerStep({})
<1>1. ready \in Seq(Threads) /\ IsInjective(ready)
  BY DEF SchedulerInv, ThreadsTyped, QueueOK
<1>2. /\ threads' = [threads EXCEPT ![tid] = Dead] /\ ready' = Without(ready, tid)
      /\ current' = current
  BY DEF TerminateThread
<1>3. /\ ready' \in Seq(Threads) /\ IsInjective(ready') /\ Range(ready') = Range(ready) \ {tid}
      /\ NotOvertaken(ready, ready')
  BY <1>1, <1>2, WithoutFacts
<1> QED
  BY <1>2, <1>3, DeadFacts, ChangeStep, Zenon

\* A thread with another suspend count and state.
WithSuspends(th, n, s) == [th EXCEPT !.suspends = n, !.state = s]

LEMMA SuspendsFacts ==
    ASSUME NEW old \in ThreadRecord, NEW n \in Int, NEW s \in States
    PROVE  LET th == WithSuspends(old, n, s)
           IN  th \in ThreadRecord /\ th.state = s /\ th.waits = old.waits /\ th.all = old.all
BY Zenon DEF ThreadRecord, WithSuspends

LEMMA SuspendThreadStep ==
    ASSUME SchedulerInv, NEW tid \in Threads, SuspendThread(tid)
    PROVE  SchedulerStep({})
<1> DEFINE old == threads[tid]
           isReady == old.state = "Ready"
           s == IF isReady THEN "Suspended" ELSE old.state
           th == WithSuspends(old, old.suspends + 1, s)
<1>1. /\ threads \in Seq(ThreadRecord) /\ ready \in Seq(Threads) /\ IsInjective(ready)
      /\ QueueOK(threads, ready, current)
  BY DEF SchedulerInv, ThreadsTyped, QueueOK
<1>2. old \in ThreadRecord
  BY <1>1 DEF Threads
<1>3. /\ th \in ThreadRecord /\ th.state = (IF isReady THEN "Suspended" ELSE old.state)
      /\ th.waits = old.waits /\ th.all = old.all
  <2>1. s \in States /\ old.suspends \in Int
    BY <1>2 DEF ThreadRecord, States
  <2>2. old.suspends + 1 \in Int
    BY <2>1
  <2> HIDE DEF s, old
  <2>3. th \in ThreadRecord /\ th.state = s /\ th.waits = old.waits /\ th.all = old.all
    BY <1>2, <2>1, <2>2, SuspendsFacts
  <2> QED
    BY <2>3 DEF s
<1>4. /\ threads' = [threads EXCEPT ![tid] = th] /\ current' = current
      /\ ready' = IF isReady THEN Without(ready, tid) ELSE ready
  BY Zenon DEF SuspendThread, WithSuspends
<1> HIDE DEF th
<1>5. CASE isReady
  <2>1. /\ ready' \in Seq(Threads) /\ IsInjective(ready')
        /\ Range(ready') = Range(ready) \ {tid} /\ NotOvertaken(ready, ready')
    BY <1>1, <1>4, <1>5, WithoutFacts
  <2>2. th.state = "Suspended"
    BY <1>3, <1>5
  <2> QED
    BY <1>3, <1>4, <2>1, <2>2, ChangeStep, Zenon
<1>6. CASE ~isReady
  <2>1. /\ ready' = ready /\ NotOvertaken(ready, ready') /\ th.state = old.state
    BY <1>1, <1>3, <1>4, <1>6, SelfNotOvertaken
  <2>2. tid \in Range(ready') => th.state \notin {"Running", "Suspended"}
    BY <1>1, <2>1 DEF QueueOK
  <2> QED
    BY <1>1, <1>3, <1>4, <1>6, <2>1, <2>2, ChangeStep, Zenon
<1> QED
  BY <1>5, <1>6

LEMMA ResumeThreadStep ==
    ASSUME SchedulerInv, NEW tid \in Threads, ResumeThread(tid)
    PROVE  SchedulerStep({})
<1> DEFINE old == threads[tid]
           released == old.suspends = 1 /\ old.state = "Suspended"
           s == IF released THEN "Ready" ELSE old.state
           th == WithSuspends(old, old.suspends - 1, s)
<1>1. /\ threads \in Seq(ThreadRecord) /\ ready \in Seq(Threads) /\ IsInjective(ready)
      /\ QueueOK(threads, ready, current)
  BY DEF SchedulerInv, ThreadsTyped, QueueOK
<1>2. old \in ThreadRecord
  BY <1>1 DEF Threads
<1>3. /\ th \in ThreadRecord /\ th.state = (IF released THEN "Ready" ELSE old.state)
      /\ th.waits = old.waits /\ th.all = old.all
  <2>1. s \in States /\ old.suspends \in Int
    BY <1>2 DEF ThreadRecord, States
  <2>2. old.suspends - 1 \in Int
    BY <2>1
  <2> HIDE DEF s, old
  <2>3. th \in ThreadRecord /\ th.state = s /\ th.waits = old.waits /\ th.all = old.all
    BY <1>2, <2>1, <2>2, SuspendsFacts
  <2> QED
    BY <2>3 DEF s
<1>4. /\ threads' = [threads EXCEPT ![tid] = th] /\ current' = current
      /\ ready' = IF released THEN EnqueueReady(ready, tid) ELSE ready
  BY DEF ResumeThread, WithSuspends
<1> HIDE DEF th
<1>5. CASE released
  <2>1. /\ ready' \in Seq(Threads) /\ IsInjective(ready') /\ Queues(ready, ready', tid)
    BY <1>1, <1>4, <1>5, EnqueueFacts
  <2>2. NotOvertaken(ready, ready')
    BY <1>1, <2>1, ContinuesFacts DEF Continues, Queues
  <2>3. /\ th.state = "Ready" /\ tid \in Range(ready')
        /\ \A t : t # tid => (t \in Range(ready') <=> t \in Range(ready))
    BY <1>3, <1>5, <2>1 DEF Queues
  <2> QED
    BY <1>3, <1>4, <2>1, <2>2, <2>3, ChangeStep
<1>6. CASE ~released
  <2>1. /\ ready' = ready /\ NotOvertaken(ready, ready') /\ th.state = old.state
    BY <1>1, <1>3, <1>4, <1>6, SelfNotOvertaken
  <2>2. /\ tid \in Range(ready') => th.state \notin {"Running", "Suspended"}
        /\ th.state = "Ready" => tid \in Range(ready')
    BY <1>1, <2>1 DEF QueueOK, Threads
  <2> QED
    BY <1>1, <1>3, <1>4, <1>6, <2>1, <2>2, ChangeStep, Zenon
<1> QED
  BY <1>5, <1>6

\* Every thread of tids that slept is ready, and the others are as they were.
LEMMA WakeStep ==
    ASSUME SchedulerInv, NEW tids \in Seq(Nat), Wake(tids)
    PROVE  /\ SchedulerStep({})
           /\ \A t \in Threads : t \in Range(tids) => threads'[t].state # "Blocked"
<1> DEFINE th(t) == [threads[t] EXCEPT !.state = "Ready", !.waits = {}, !.all = FALSE, !.timed = FALSE]
<1>1. /\ threads \in Seq(ThreadRecord) /\ ready \in Seq(Threads) /\ current \in {0} \cup Threads
      /\ QueueOK(threads, ready, current) /\ IsInjective(ready)
  BY DEF SchedulerInv, ThreadsTyped, QueueOK
<1>2. \A t \in Threads : threads[t] \in ThreadRecord
  BY <1>1 DEF Threads
<1>3. \A t \in Threads : th(t) \in ThreadRecord /\ th(t).state = "Ready"
  BY <1>2, Zenon DEF ThreadRecord, States
<1>4. /\ threads' = [t \in Threads |-> IF t \in Range(tids) /\ Wakes(t) THEN th(t) ELSE threads[t]]
      /\ ready' = QueueAfterWake(tids) /\ current' = current
  BY DEF Wake
<1> HIDE DEF th
<1>5. WokenQueue(ready, ready', tids)
  BY <1>1, <1>4, QueueAfterWakeFacts
<1>6. /\ ready' \in Seq(Threads) /\ IsInjective(ready') /\ Continues(ready, ready')
      /\ \A t : t \in Range(ready') <=> t \in Range(ready) \/ (t \in Range(tids) /\ Wakes(t))
  BY <1>5 DEF WokenQueue
<1>7. /\ DOMAIN threads' = Threads
      /\ \A t \in Threads : IF t \in Range(tids) /\ Wakes(t) THEN threads'[t] = th(t)
                            ELSE threads'[t] = threads[t]
  BY <1>4
<1>8. threads' \in Seq(ThreadRecord)
  <2>1. Threads = 1 .. Len(threads) /\ Len(threads) \in Nat
    BY <1>1 DEF Threads
  <2>2. \A t \in Threads : threads'[t] \in ThreadRecord
    BY <1>2, <1>3, <1>7
  <2>3. threads' \in [1 .. Len(threads) -> ThreadRecord]
    BY <1>4, <1>7, <2>1, <2>2
  <2> QED
    BY <2>1, <2>3
<1>9. NotOvertaken(ready, ready')
  BY <1>1, <1>6, ContinuesFacts
<1>10. QueueOK(threads', ready', current)
  <2>1. \A t \in Threads : threads'[t].state = "Running" => t = current
    BY <1>1, <1>3, <1>7, Zenon DEF QueueOK, Threads
  <2>2. \A t \in Threads : threads'[t].state = "Ready" => t \in Range(ready')
    BY <1>1, <1>6, <1>7 DEF QueueOK, Threads
  <2>3. \A t \in Range(ready') : t \in Threads
    BY <1>6 DEF Range
  <2>4. \A t \in Range(ready') : threads'[t].state \notin {"Running", "Suspended"}
    BY <1>1, <1>3, <1>6, <1>7, <2>3 DEF QueueOK
  <2> QED
    BY <1>6, <1>7, <2>1, <2>2, <2>4 DEF QueueOK
<1>11. \A t \in Threads : threads'[t].state = "Blocked" =>
           threads'[t] = threads[t] /\ ~(t \in Range(tids) /\ Wakes(t))
  BY <1>3, <1>7
<1>12. \A t \in Threads : t \in Range(tids) => threads'[t].state # "Blocked"
  BY <1>11 DEF Wakes
<1> QED
  BY <1>1, <1>4, <1>6, <1>7, <1>8, <1>9, <1>10, <1>11, <1>12 DEF SchedulerStep

\* A step that leaves the scheduler alone.
LEMMA IdleStep ==
    ASSUME SchedulerInv, UNCHANGED <<threads, ready, current>>
    PROVE  SchedulerStep({})
<1>1. /\ threads \in Seq(ThreadRecord) /\ ready \in Seq(Threads) /\ current \in {0} \cup Threads
      /\ QueueOK(threads, ready, current) /\ IsInjective(ready)
  BY DEF SchedulerInv, ThreadsTyped, QueueOK
<1>2. NotOvertaken(ready, ready)
  BY <1>1, SelfNotOvertaken
<1> QED
  BY <1>1, <1>2 DEF SchedulerStep, Threads

-----------------------------------------------------------------------------
(* The objects. *)

ObjectRecord == [kind : {"event", "mutex", "semaphore"}, manual : BOOLEAN, count : Int,
                 max : Int, owner : Nat, waiting : Seq(Nat)]

\* The objects have their types, and no mutex was released more often than acquired.
ObjectsTyped ==
    /\ objects \in Seq(ObjectRecord)
    /\ \A h \in DOMAIN objects : objects[h].kind = "mutex" => objects[h].count >= 0

\* What a step does to an object that a thread t waits for and that is not woken: t
\* stays in its waiting list, and is not signalled what it was not before.
Undisturbed(o, p, t) ==
    t \in Range(o.waiting) =>
        t \in Range(p.waiting) /\ (Signaled(p, t) => Signaled(o, t))

\* Thread t, asleep until hs are signalled, is in their lists and has not missed it.
Asleep(os, t, hs, all) ==
    hs # {} => /\ hs \subseteq DOMAIN os
               /\ \A h \in hs : t \in Range(os[h].waiting)
               /\ IF all THEN \E h \in hs : ~Signaled(os[h], t)
                         ELSE \A h \in hs : ~Signaled(os[h], t)

WakeupInv ==
    \A t \in Threads : threads[t].state = "Blocked" =>
        Asleep(objects, t, threads[t].waits, threads[t].all)

\* The inductive invariant.
KernelInv == SchedulerInv /\ ObjectsTyped /\ WakeupInv

\* A sleeper whose objects a step does not disturb stays asleep for a reason.
LEMMA StaysAsleep ==
    ASSUME NEW os, NEW ps, NEW t, NEW hs, NEW all, Asleep(os, t, hs, all),
           DOMAIN os \subseteq DOMAIN ps,
           \A h \in DOMAIN os : Undisturbed(os[h], ps[h], t)
    PROVE  Asleep(ps, t, hs, all)
BY DEF Asleep, Undisturbed

\* The step of the wakeup invariant.
LEMMA WakeupStep ==
    ASSUME KernelInv, SchedulerStep({}), DOMAIN objects \subseteq DOMAIN objects',
           \A t \in Threads, h \in DOMAIN objects :
               threads'[t].state = "Blocked" => Undisturbed(objects[h], objects'[h], t)
    PROVE  WakeupInv'
<1> SUFFICES ASSUME NEW t \in DOMAIN threads', threads'[t].state = "Blocked"
             PROVE  Asleep(objects', t, threads'[t].waits, threads'[t].all)
  BY DEF WakeupInv, Threads
<1>1. /\ t \in Threads /\ threads[t].state = "Blocked"
      /\ threads'[t].waits = threads[t].waits /\ threads'[t].all = threads[t].all
  BY DEF SchedulerStep
<1>2. Asleep(objects, t, threads[t].waits, threads[t].all)
  BY <1>1 DEF KernelInv, WakeupInv
<1>3. Asleep(objects', t, threads[t].waits, threads[t].all)
  BY <1>1, <1>2, StaysAsleep
<1> QED
  BY <1>1, <1>3

\* Nothing disturbs an object that does not change.
LEMMA SameUndisturbed ==
    ASSUME NEW o, NEW t
    PROVE  Undisturbed(o, o, t)
BY DEF Undisturbed

\* The step that keeps the objects.
LEMMA ObjectsKept ==
    ASSUME KernelInv, SchedulerStep({}), UNCHANGED objects
    PROVE  WakeupInv' /\ ObjectsTyped'
<1>1. WakeupInv'
  BY WakeupStep, SameUndisturbed
<1> QED
  BY <1>1 DEF KernelInv, ObjectsTyped

\* The step that changes one object.
LEMMA ObjectChanged ==
    ASSUME KernelInv, NEW h \in DOMAIN objects, NEW p \in ObjectRecord,
           p.kind = "mutex" => p.count >= 0,
           objects' = [objects EXCEPT ![h] = p], SchedulerStep({}),
           \A t \in Threads : threads'[t].state = "Blocked" => Undisturbed(objects[h], p, t)
    PROVE  WakeupInv' /\ ObjectsTyped'
<1>1. objects \in Seq(ObjectRecord)
  BY DEF KernelInv, ObjectsTyped
<1>2. /\ objects' \in Seq(ObjectRecord) /\ DOMAIN objects' = DOMAIN objects
      /\ objects'[h] = p /\ \A g \in DOMAIN objects : g # h => objects'[g] = objects[g]
  BY <1>1
<1>3. ObjectsTyped'
  BY <1>2 DEF KernelInv, ObjectsTyped
<1>4. WakeupInv'
  <2>1. \A t \in Threads, g \in DOMAIN objects :
            threads'[t].state = "Blocked" => Undisturbed(objects[g], objects'[g], t)
    BY <1>2, SameUndisturbed
  <2> QED
    BY <1>2, <2>1, WakeupStep
<1> QED
  BY <1>3, <1>4

\* An object with another count and waiting list.
WithCount(o, c, w) == [o EXCEPT !.count = c, !.waiting = w]

LEMMA CountAndWaiting ==
    ASSUME NEW o \in ObjectRecord, NEW c \in Int, NEW w \in Seq(Nat)
    PROVE  /\ WithCount(o, c, w) \in ObjectRecord /\ WithCount(o, c, w).kind = o.kind
           /\ WithCount(o, c, w).count = c /\ WithCount(o, c, w).waiting = w
BY Zenon DEF ObjectRecord, WithCount

\* The threads woken and the rest of a waiting list.
LEMMA FirstOfFacts ==
    ASSUME NEW w \in Seq(Nat), NEW n \in Nat
    PROVE  LET woken == FirstOf(w, n)
               rest == SubSeq(w, Len(woken) + 1, Len(w))
           IN  /\ woken \in Seq(Nat) /\ rest \in Seq(Nat) /\ Len(woken) \in Nat
               /\ \A t \in Range(w) : t \in Range(woken) \/ (t \in Range(rest) /\ Len(woken) = n)
<1> DEFINE m == IF n < Len(w) THEN n ELSE Len(w)
           woken == SubSeq(w, 1, m)
           rest == SubSeq(w, m + 1, Len(w))
<1>1. /\ Len(w) \in Nat /\ m \in Nat /\ m \in 0 .. Len(w) /\ DOMAIN w = 1 .. Len(w)
      /\ m < Len(w) => m = n
  OBVIOUS
<1> HIDE DEF m
<1>2. \A i \in 1 .. m : i \in 1 .. Len(w) /\ w[i] \in Nat
  BY <1>1
<1>3. /\ woken \in Seq(Nat) /\ Len(woken) = (IF 1 <= m THEN m - 1 + 1 ELSE 0)
      /\ \A i \in 1 .. m - 1 + 1 : woken[i] = w[1 + i - 1]
  BY <1>1, <1>2, SubSeqProperties
<1>4. Len(woken) = m /\ \A i \in 1 .. m : woken[i] = w[i]
  <2>1. m - 1 + 1 = m /\ \A i \in 1 .. m : 1 + i - 1 = i
    BY <1>1
  <2> QED
    BY <1>1, <1>3, <2>1
<1>5. rest \in Seq(Nat) /\ Len(rest) = Len(w) - m /\ \A i \in 1 .. Len(w) - m : rest[i] = w[m + i]
  BY <1>1, SuffixFacts
<1>6. DOMAIN woken = 1 .. m /\ DOMAIN rest = 1 .. Len(w) - m
  BY <1>3, <1>4, <1>5
<1> HIDE DEF woken, rest
<1>7. ASSUME NEW i \in DOMAIN w PROVE w[i] \in Range(woken) \/ (w[i] \in Range(rest) /\ m = n)
  <2>1. CASE i <= m
    BY <1>1, <1>4, <1>6, <2>1 DEF Range
  <2>2. CASE i > m
    <3>1. i - m \in DOMAIN rest /\ m + (i - m) = i /\ m = n
      BY <1>1, <1>6, <2>2
    <3> QED
      BY <1>5, <1>6, <3>1 DEF Range
  <2> QED
    BY <1>1, <2>1, <2>2
<1>8. FirstOf(w, n) = woken
  BY DEF FirstOf, woken, m
<1>9. rest = SubSeq(w, Len(woken) + 1, Len(w))
  BY <1>4 DEF rest
<1>10. \A t \in Range(w) : t \in Range(woken) \/ (t \in Range(rest) /\ Len(woken) = n)
  BY <1>4, <1>7 DEF Range
<1> QED
  BY <1>1, <1>3, <1>4, <1>5, <1>8, <1>9, <1>10

\* The first thread of a waiting list and the rest.
LEMMA HeadFacts ==
    ASSUME NEW w \in Seq(Nat), w # << >>
    PROVE  /\ Head(w) \in Nat /\ Tail(w) \in Seq(Nat) /\ <<Head(w)>> \in Seq(Nat)
           /\ Head(w) \in Range(<<Head(w)>>)
           /\ \A t \in Range(w) : t = Head(w) \/ t \in Range(Tail(w))
<1>1. /\ Head(w) \in Nat /\ Tail(w) \in Seq(Nat) /\ Len(Tail(w)) = Len(w) - 1
      /\ \A i \in 1 .. Len(Tail(w)) : Tail(w)[i] = w[i + 1]
  BY HeadTailProperties
<1>2. Head(w) = w[1] /\ DOMAIN w = 1 .. Len(w) /\ Len(w) \in Nat /\ Len(w) >= 1
  OBVIOUS
<1>3. DOMAIN Tail(w) = 1 .. Len(w) - 1
  BY <1>1
<1>4. ASSUME NEW i \in DOMAIN w PROVE w[i] = Head(w) \/ w[i] \in Range(Tail(w))
  <2>1. CASE i = 1
    BY <1>2, <2>1
  <2>2. CASE i # 1
    <3>1. i - 1 \in DOMAIN Tail(w) /\ (i - 1) + 1 = i
      BY <1>2, <1>3, <2>2
    <3> QED
      BY <1>1, <1>3, <3>1 DEF Range
  <2> QED
    BY <2>1, <2>2
<1>5. <<Head(w)>> \in Seq(Nat) /\ Head(w) \in Range(<<Head(w)>>)
  BY <1>1 DEF Range
<1> QED
  BY <1>1, <1>4, <1>5, Zenon DEF Range

\* The object of a handle.
LEMMA HandleFacts ==
    ASSUME KernelInv, NEW h \in DOMAIN objects
    PROVE  /\ objects[h] \in ObjectRecord /\ objects[h].waiting \in Seq(Nat)
           /\ objects[h].count \in Int /\ objects[h].manual \in BOOLEAN /\ objects[h].owner \in Nat
           /\ objects[h].kind = "mutex" => objects[h].count >= 0
<1>1. objects[h] \in ObjectRecord
  BY DEF KernelInv, ObjectsTyped
<1>2. objects[h].kind = "mutex" => objects[h].count >= 0
  BY DEF KernelInv, ObjectsTyped
<1> QED
  BY <1>1, <1>2 DEF ObjectRecord

\* What a step owes the invariant and the order of the queue.
KernelStep == SchedulerStep({}) /\ WakeupInv' /\ ObjectsTyped'

\* The step gives object h the count c and the waiting list w.
SetsObject(h, c, w) ==
    objects' = [objects EXCEPT ![h] = WithCount(objects[h], c, w)]

\* Whoever waited for object h and is not woken still does, and is not signalled.
ServesWaiters(h, c, w) ==
    \A t \in Threads : threads'[t].state = "Blocked" /\ t \in Range(objects[h].waiting) =>
        t \in Range(w) /\ (c > 0 => objects[h].count > 0)

\* A signal: one object changes and some of its waiters are woken.
LEMMA SignalStep ==
    ASSUME KernelInv, NEW h \in DOMAIN objects, NEW c \in Int, NEW w \in Seq(Nat),
           objects[h].kind # "mutex", SetsObject(h, c, w), SchedulerStep({}),
           ServesWaiters(h, c, w)
    PROVE  KernelStep
<1> DEFINE o == objects[h]
           p == WithCount(o, c, w)
<1>1. o \in ObjectRecord /\ o.count \in Int
  BY HandleFacts
<1>2. /\ p \in ObjectRecord /\ p.kind = o.kind /\ p.count = c /\ p.waiting = w
  BY <1>1, CountAndWaiting
<1> HIDE DEF p
<1>3. \A t \in Threads : threads'[t].state = "Blocked" => Undisturbed(o, p, t)
  BY <1>2 DEF Undisturbed, Signaled, ServesWaiters
<1>4. objects' = [objects EXCEPT ![h] = p]
  BY DEF p, SetsObject
<1>5. WakeupInv' /\ ObjectsTyped'
  BY <1>2, <1>3, <1>4, ObjectChanged, Zenon
<1> QED
  BY <1>5 DEF KernelStep

LEMMA SetEventStep ==
    ASSUME KernelInv, NEW h \in OpenOf("event"), SetEvent(h)
    PROVE  KernelStep
<1> DEFINE o == objects[h]
<1>1. h \in DOMAIN objects /\ o.kind = "event"
  BY DEF OpenOf, Open
<1>2. o \in ObjectRecord /\ o.waiting \in Seq(Nat) /\ o.count \in Int /\ o.manual \in BOOLEAN
  BY <1>1, HandleFacts
<1>3. SchedulerInv
  BY DEF KernelInv
<1>4. CASE o.manual
  <2>1. objects' = [objects EXCEPT ![h].count = 1, ![h].waiting = << >>] /\ Wake(o.waiting)
    BY <1>4 DEF SetEvent
  <2>2. SetsObject(h, 1, << >>)
    BY <2>1, Zenon DEF SetsObject, WithCount
  <2>3. /\ SchedulerStep({})
        /\ \A t \in Threads : t \in Range(o.waiting) => threads'[t].state # "Blocked"
    BY <1>2, <1>3, <2>1, WakeStep
  <2>4. ServesWaiters(h, 1, << >>)
    BY <2>3 DEF ServesWaiters
  <2>5. << >> \in Seq(Nat) /\ 1 \in Int /\ o.kind # "mutex" /\ SchedulerStep({})
    BY <1>1, <2>3
  <2> QED
    BY <1>1, <2>2, <2>4, <2>5, SignalStep, Zenon
<1>5. CASE ~o.manual /\ o.waiting # << >>
  <2>1. /\ objects' = [objects EXCEPT ![h].count = 0, ![h].waiting = Tail(@)]
        /\ Wake(<<Head(o.waiting)>>)
    BY <1>5, Zenon DEF SetEvent
  <2>2. SetsObject(h, 0, Tail(o.waiting))
    BY <2>1, Zenon DEF SetsObject, WithCount
  <2>3. /\ Tail(o.waiting) \in Seq(Nat) /\ <<Head(o.waiting)>> \in Seq(Nat)
        /\ Head(o.waiting) \in Range(<<Head(o.waiting)>>)
        /\ \A t \in Range(o.waiting) : t = Head(o.waiting) \/ t \in Range(Tail(o.waiting))
    BY <1>2, <1>5, HeadFacts, Zenon
  <2>4. /\ SchedulerStep({})
        /\ \A t \in Threads : t \in Range(<<Head(o.waiting)>>) => threads'[t].state # "Blocked"
    BY <1>3, <2>1, <2>3, WakeStep, Zenon
  <2>5. ServesWaiters(h, 0, Tail(o.waiting))
    BY <2>3, <2>4 DEF ServesWaiters
  <2>6. Tail(o.waiting) \in Seq(Nat) /\ 0 \in Int /\ o.kind # "mutex" /\ SchedulerStep({})
    BY <1>1, <2>3, <2>4
  <2> QED
    BY <1>1, <2>2, <2>5, <2>6, SignalStep, Zenon
<1>6. CASE ~o.manual /\ o.waiting = << >>
  <2>1. objects' = [objects EXCEPT ![h].count = 1] /\ UNCHANGED <<threads, ready, current>>
    BY <1>6, Zenon DEF SetEvent
  <2>2. SetsObject(h, 1, o.waiting)
    BY <1>2, <2>1, Zenon DEF ObjectRecord, SetsObject, WithCount
  <2>3. ServesWaiters(h, 1, o.waiting)
    BY <1>6 DEF Range, ServesWaiters
  <2>4. SchedulerStep({})
    BY <1>3, <2>1, IdleStep
  <2> QED
    BY <1>1, <1>2, <2>2, <2>3, <2>4, SignalStep
<1> QED
  BY <1>2, <1>4, <1>5, <1>6

LEMMA ResetEventStep ==
    ASSUME KernelInv, NEW h \in OpenOf("event"), ResetEvent(h)
    PROVE  KernelStep
<1> DEFINE o == objects[h]
<1>1. h \in DOMAIN objects /\ o.kind = "event"
  BY DEF OpenOf, Open
<1>2. o \in ObjectRecord /\ o.waiting \in Seq(Nat)
  BY <1>1, HandleFacts
<1>3. objects' = [objects EXCEPT ![h].count = 0] /\ UNCHANGED <<threads, ready, current>>
  BY DEF ResetEvent
<1>4. SetsObject(h, 0, o.waiting)
  BY <1>2, <1>3, Zenon DEF ObjectRecord, SetsObject, WithCount
<1>5. SchedulerStep({})
  BY <1>3, IdleStep DEF KernelInv
<1>6. ServesWaiters(h, 0, o.waiting)
  BY DEF ServesWaiters
<1> QED
  BY <1>1, <1>2, <1>4, <1>5, <1>6, SignalStep

LEMMA PulseEventStep ==
    ASSUME KernelInv, NEW h \in OpenOf("event"), PulseEvent(h)
    PROVE  KernelStep
<1> DEFINE o == objects[h]
           w == o.waiting
           n == IF o.manual THEN Len(w) ELSE 1
           woken == FirstOf(w, n)
           rest == SubSeq(w, Len(woken) + 1, Len(w))
<1>1. h \in DOMAIN objects /\ o.kind = "event"
  BY DEF OpenOf, Open
<1>2. o \in ObjectRecord /\ w \in Seq(Nat) /\ o.manual \in BOOLEAN
  BY <1>1, HandleFacts
<1>3. n \in Nat
  BY <1>2
<1>4. woken = IF o.manual THEN w ELSE FirstOf(w, 1)
  <2>1. FirstOf(w, Len(w)) = w
    BY <1>2, SubSeqFull DEF FirstOf
  <2> QED
    BY <2>1
<1>5. /\ objects' = [objects EXCEPT ![h].count = 0, ![h].waiting = SubSeq(@, Len(woken) + 1, Len(@))]
      /\ Wake(woken)
  BY <1>4, Zenon DEF PulseEvent
<1>6. SetsObject(h, 0, rest)
  BY <1>5, Zenon DEF SetsObject, WithCount
<1> HIDE DEF n
<1>7. /\ woken \in Seq(Nat) /\ rest \in Seq(Nat)
      /\ \A t \in Range(w) : t \in Range(woken) \/ t \in Range(rest)
  BY <1>2, <1>3, FirstOfFacts, Zenon
<1> HIDE DEF woken, rest
<1>8. /\ SchedulerStep({})
      /\ \A t \in Threads : t \in Range(woken) => threads'[t].state # "Blocked"
  BY <1>5, <1>7, WakeStep DEF KernelInv
<1>9. ServesWaiters(h, 0, rest)
  BY <1>7, <1>8 DEF ServesWaiters
<1> QED
  BY <1>1, <1>6, <1>7, <1>8, <1>9, SignalStep

LEMMA ReleaseSemaphoreStep ==
    ASSUME KernelInv, NEW h \in OpenOf("semaphore"), NEW n \in 1 .. MaxRelease,
           ReleaseSemaphore(h, n)
    PROVE  KernelStep
<1> DEFINE o == objects[h]
           w == o.waiting
           woken == FirstOf(w, n)
           rest == SubSeq(w, Len(woken) + 1, Len(w))
           sum == o.count + n
           wraps == sum > MaxI32
           wrapped == sum - 2 * (MaxI32 + 1)
           c == IF wraps THEN wrapped ELSE sum - Len(woken)
<1>1. h \in DOMAIN objects /\ o.kind = "semaphore"
  BY DEF OpenOf, Open
<1>2. o \in ObjectRecord /\ w \in Seq(Nat) /\ o.count \in Int
  BY <1>1, HandleFacts
<1>3. n \in Nat /\ MaxI32 \in Nat /\ n <= MaxI32 /\ sum \in Int
  BY <1>2, KernelAssumption
<1>4. /\ woken \in Seq(Nat) /\ rest \in Seq(Nat) /\ Len(woken) \in Nat
      /\ \A t \in Range(w) : t \in Range(woken) \/ (t \in Range(rest) /\ Len(woken) = n)
  BY <1>2, <1>3, FirstOfFacts, Zenon
<1>5. /\ objects' = [objects EXCEPT ![h].count = c, ![h].waiting = SubSeq(@, Len(woken) + 1, Len(@))]
      /\ Wake(woken)
  BY DEF ReleaseSemaphore
<1>6. SetsObject(h, c, rest)
  BY <1>5, Zenon DEF SetsObject, WithCount
<1>7. /\ SchedulerStep({})
      /\ \A t \in Threads : t \in Range(woken) => threads'[t].state # "Blocked"
  BY <1>4, <1>5, WakeStep DEF KernelInv
<1> HIDE DEF woken, rest
<1>8. c \in Int /\ (Len(woken) = n /\ c > 0 => o.count > 0)
  <2>1. wrapped \in Int /\ (wraps => o.count > 0)
    BY <1>2, <1>3
  <2>2. sum - Len(woken) \in Int /\ (Len(woken) = n => sum - Len(woken) = o.count)
    BY <1>2, <1>3, <1>4
  <2> HIDE DEF sum, wraps, wrapped
  <2> QED
    BY <2>1, <2>2
<1> HIDE DEF c
<1>9. ServesWaiters(h, c, rest)
  BY <1>4, <1>7, <1>8 DEF ServesWaiters
<1> QED
  BY <1>1, <1>4, <1>6, <1>7, <1>8, <1>9, SignalStep

\* The mutex goes to the first waiter, or to nobody when nobody waits.
LEMMA ReleaseMutexStep ==
    ASSUME KernelInv, NEW h \in OpenOf("mutex"), ReleaseMutex(h)
    PROVE  KernelStep
<1> DEFINE o == objects[h]
           w == o.waiting
<1>1. h \in DOMAIN objects /\ o.kind = "mutex"
  BY DEF OpenOf, Open
<1>2. o \in ObjectRecord /\ w \in Seq(Nat) /\ o.count \in Int /\ o.owner \in Nat /\ o.count > 0
  BY <1>1, HandleFacts DEF ReleaseMutex
<1>3. SchedulerInv
  BY DEF KernelInv
<1>4. CASE o.count = 1 /\ w # << >>
  <2> DEFINE p == [o EXCEPT !.owner = Head(w), !.waiting = Tail(w)]
  <2>1. /\ objects' = [objects EXCEPT ![h].owner = Head(w), ![h].waiting = Tail(@)]
        /\ Wake(<<Head(w)>>)
    BY <1>4 DEF ReleaseMutex
  <2>2. objects' = [objects EXCEPT ![h] = p]
    BY <2>1, Zenon
  <2>3. /\ Head(w) \in Nat /\ Tail(w) \in Seq(Nat) /\ <<Head(w)>> \in Seq(Nat)
        /\ Head(w) \in Range(<<Head(w)>>)
        /\ \A t \in Range(w) : t = Head(w) \/ t \in Range(Tail(w))
    BY <1>2, <1>4, HeadFacts
  <2>4. /\ p \in ObjectRecord /\ p.kind = "mutex" /\ p.count = 1 /\ p.owner = Head(w)
        /\ p.waiting = Tail(w)
    BY <1>1, <1>2, <1>4, <2>3, Zenon DEF ObjectRecord
  <2> HIDE DEF p
  <2>5. /\ SchedulerStep({})
        /\ \A t \in Threads : t \in Range(<<Head(w)>>) => threads'[t].state # "Blocked"
    BY <1>3, <2>1, <2>3, WakeStep, Zenon
  <2>6. \A t \in Threads : threads'[t].state = "Blocked" => Undisturbed(o, p, t)
    <3>1. \A t \in Threads : threads'[t].state = "Blocked" => t # Head(w)
      BY <2>3, <2>5
    <3> QED
      BY <2>3, <2>4, <3>1 DEF Undisturbed, Signaled
  <2>7. p \in ObjectRecord /\ p.count >= 0
    BY <2>4
  <2>8. WakeupInv' /\ ObjectsTyped'
    BY <1>1, <2>2, <2>5, <2>6, <2>7, ObjectChanged, Zenon
  <2> QED
    BY <2>5, <2>8 DEF KernelStep
<1>5. CASE ~(o.count = 1 /\ w # << >>)
  <2> DEFINE owner == IF o.count = 1 THEN 0 ELSE o.owner
             p == [o EXCEPT !.count = o.count - 1, !.owner = owner]
  <2>1. /\ objects' = [objects EXCEPT ![h].count = @ - 1, ![h].owner = IF o.count = 1 THEN 0 ELSE @]
        /\ UNCHANGED <<threads, ready, current>>
    BY <1>5 DEF ReleaseMutex
  <2>2. objects' = [objects EXCEPT ![h] = p]
    BY <2>1, Zenon
  <2>3. owner \in Nat /\ o.count - 1 \in Int /\ o.count - 1 >= 0
    BY <1>2
  <2>4. owner # o.owner => Range(w) = {}
    BY <1>5 DEF Range
  <2>5. Range(w) = {} \/ (o.count - 1 # 0 /\ owner = o.owner)
    BY <1>2, <1>5 DEF Range
  <2> HIDE DEF owner
  <2>6. /\ p \in ObjectRecord /\ p.kind = "mutex" /\ p.count = o.count - 1 /\ p.owner = owner
        /\ p.waiting = w
    BY <1>1, <1>2, <2>3, Zenon DEF ObjectRecord
  <2> HIDE DEF p
  <2>7. \A t \in Threads : Undisturbed(o, p, t)
    BY <1>1, <2>5, <2>6 DEF Undisturbed, Signaled
  <2>8. SchedulerStep({})
    BY <1>3, <2>1, IdleStep
  <2>9. p \in ObjectRecord /\ p.count >= 0
    BY <2>3, <2>6
  <2>10. WakeupInv' /\ ObjectsTyped'
    BY <1>1, <2>2, <2>7, <2>8, <2>9, ObjectChanged, Zenon
  <2> QED
    BY <2>8, <2>10 DEF KernelStep
<1> QED
  BY <1>4, <1>5

\* A new object disturbs nobody.
LEMMA CreateStep ==
    ASSUME KernelInv, NEW o \in ObjectRecord, o.kind = "mutex" => o.count >= 0, Create(o)
    PROVE  KernelStep
<1>1. objects' = Append(objects, o) /\ UNCHANGED <<threads, ready, current>>
  BY DEF Create
<1>2. objects \in Seq(ObjectRecord)
  BY DEF KernelInv, ObjectsTyped
<1>3. /\ objects' \in Seq(ObjectRecord) /\ DOMAIN objects' = DOMAIN objects \cup {Len(objects) + 1}
      /\ objects'[Len(objects) + 1] = o /\ \A h \in DOMAIN objects : objects'[h] = objects[h]
  BY <1>1, <1>2
<1>4. SchedulerStep({})
  BY <1>1, IdleStep DEF KernelInv
<1>5. WakeupInv'
  BY <1>3, <1>4, WakeupStep, SameUndisturbed
<1>6. ObjectsTyped'
  BY <1>3 DEF KernelInv, ObjectsTyped
<1> QED
  BY <1>4, <1>5, <1>6 DEF KernelStep

LEMMA CreateSteps ==
    ASSUME KernelInv, CreateEvent \/ CreateMutex \/ CreateSemaphore
    PROVE  KernelStep
<1>1. ASSUME NEW manual \in BOOLEAN, NEW signaled \in BOOLEAN, Create(EventObject(manual, signaled))
      PROVE  KernelStep
  <2>1. EventObject(manual, signaled) \in ObjectRecord /\ EventObject(manual, signaled).kind # "mutex"
    BY DEF EventObject, ObjectRecord
  <2> QED
    BY <1>1, <2>1, CreateStep
<1>2. ASSUME NEW owned \in BOOLEAN, Create(MutexObject(owned, current))
      PROVE  KernelStep
  <2>1. current \in Nat
    BY DEF KernelInv, SchedulerInv, ThreadsTyped, Threads
  <2>2. MutexObject(owned, current) \in ObjectRecord /\ MutexObject(owned, current).count >= 0
    BY <2>1 DEF MutexObject, ObjectRecord
  <2> QED
    BY <1>2, <2>2, CreateStep
<1>3. ASSUME NEW max \in 1 .. MaxI32, NEW initial \in 0 .. max, Create(SemaphoreObject(initial, max))
      PROVE  KernelStep
  <2>1. max \in Int /\ initial \in Int
    OBVIOUS
  <2>2. SemaphoreObject(initial, max) \in ObjectRecord /\ SemaphoreObject(initial, max).kind # "mutex"
    BY <2>1 DEF SemaphoreObject, ObjectRecord
  <2> QED
    BY <1>3, <2>2, CreateStep
<1> QED
  BY <1>1, <1>2, <1>3 DEF CreateEvent, CreateMutex, CreateSemaphore

-----------------------------------------------------------------------------
(* The waits. *)

\* What each step of the kernel has to keep.
Keeps == KernelInv' /\ NotOvertaken(ready, ready')

LEMMA StepKeeps ==
    ASSUME NEW T, SchedulerStep(T), WakeupInv', ObjectsTyped'
    PROVE  Keeps
BY DEF SchedulerStep, Keeps, KernelInv, SchedulerInv, ThreadsTyped, Threads

\* The current thread sleeps and the others are not disturbed.
LEMMA BlockedStep ==
    ASSUME KernelInv, current \in Threads, NEW e \in {"Yield", "WaitSingle", "WaitMultiple", "Delay"},
           NEW waits \in SUBSET Nat, NEW all \in BOOLEAN, NEW timed \in BOOLEAN,
           BlockCurrent(e, waits, all, timed), ObjectsTyped',
           DOMAIN objects \subseteq DOMAIN objects',
           \A t \in Threads, h \in DOMAIN objects : Undisturbed(objects[h], objects'[h], t),
           Asleep(objects', current, waits, all)
    PROVE  Keeps
<1>1. /\ SchedulerStep({current})
      /\ threads'[current].state = "Blocked" =>
            threads'[current].waits = waits /\ threads'[current].all = all
  BY BlockCurrentStep, Zenon DEF KernelInv
<1>2. WakeupInv'
  <2> SUFFICES ASSUME NEW t \in DOMAIN threads', threads'[t].state = "Blocked"
               PROVE  Asleep(objects', t, threads'[t].waits, threads'[t].all)
    BY DEF WakeupInv, Threads
  <2>1. CASE t = current
    BY <1>1, <2>1
  <2>2. CASE t # current
    <3>1. /\ t \in Threads /\ threads[t].state = "Blocked"
          /\ threads'[t].waits = threads[t].waits /\ threads'[t].all = threads[t].all
      BY <1>1, <2>2 DEF SchedulerStep
    <3>2. Asleep(objects, t, threads[t].waits, threads[t].all)
      BY <3>1 DEF KernelInv, WakeupInv
    <3>3. Asleep(objects', t, threads[t].waits, threads[t].all)
      BY <3>1, <3>2, StaysAsleep
    <3> QED
      BY <3>1, <3>3
  <2> QED
    BY <2>1, <2>2
<1> QED
  BY <1>1, <1>2, StepKeeps

\* A wait for no object.
LEMMA SleepStep ==
    ASSUME KernelInv, current # 0, NEW e \in {"WaitSingle", "Delay"}, NEW timed \in BOOLEAN,
           BlockCurrent(e, {}, FALSE, timed), UNCHANGED objects
    PROVE  Keeps
<1>1. current \in Threads
  BY DEF KernelInv, SchedulerInv, ThreadsTyped
<1>2. ObjectsTyped'
  BY DEF KernelInv, ObjectsTyped
<1>3. Asleep(objects', current, {}, FALSE)
  BY DEF Asleep
<1>4. \A t \in Threads, h \in DOMAIN objects : Undisturbed(objects[h], objects'[h], t)
  BY SameUndisturbed
<1>5. {} \in SUBSET Nat /\ FALSE \in BOOLEAN
  OBVIOUS
<1> QED
  BY <1>1, <1>2, <1>3, <1>4, <1>5, BlockedStep, Zenon

\* A satisfied wait takes from an object and gives nothing.
LEMMA SatisfiedFacts ==
    ASSUME NEW o \in ObjectRecord, o.kind = "mutex" => o.count >= 0, NEW c \in Nat, Signaled(o, c)
    PROVE  /\ Satisfied(o, c) \in ObjectRecord
           /\ Satisfied(o, c).kind = "mutex" => Satisfied(o, c).count >= 0
           /\ \A t \in Nat : Undisturbed(o, Satisfied(o, c), t)
<1>1. /\ o.kind \in {"event", "mutex", "semaphore"} /\ o.count \in Int
  BY DEF ObjectRecord
<1>2. CASE o.kind = "event"
  <2> DEFINE n == IF o.manual THEN 1 ELSE 0
  <2>1. n \in Int /\ o.count > 0
    BY <1>2 DEF Signaled
  <2> HIDE DEF n
  <2>2. Satisfied(o, c) = [o EXCEPT !.count = n]
    BY <1>2 DEF Satisfied, n
  <2> DEFINE p == [o EXCEPT !.count = n]
  <2>3. p \in ObjectRecord /\ p.kind = "event" /\ p.waiting = o.waiting
    BY <1>2, <2>1, Zenon DEF ObjectRecord
  <2> HIDE DEF p
  <2>4. \A t \in Nat : Undisturbed(o, p, t)
    BY <1>2, <2>1, <2>3 DEF Undisturbed, Signaled
  <2> QED
    BY <2>2, <2>3, <2>4 DEF p
<1>3. CASE o.kind = "mutex"
  <2> DEFINE p == [o EXCEPT !.count = o.count + 1, !.owner = c]
  <2>1. Satisfied(o, c) = p
    BY <1>3 DEF Satisfied
  <2>2. o.count >= 0 /\ o.count + 1 \in Int /\ o.count + 1 # 0 /\ o.count + 1 >= 0
    BY <1>1, <1>3
  <2>3. p \in ObjectRecord /\ p.kind = "mutex" /\ p.waiting = o.waiting /\ p.count = o.count + 1 /\ p.owner = c
    BY <1>3, <2>2, Zenon DEF ObjectRecord
  <2> HIDE DEF p
  <2>4. \A t \in Nat : Undisturbed(o, p, t)
    BY <1>3, <2>2, <2>3 DEF Undisturbed, Signaled
  <2> QED
    BY <2>1, <2>2, <2>3, <2>4
<1>4. CASE o.kind = "semaphore"
  <2> DEFINE p == [o EXCEPT !.count = o.count - 1]
  <2>1. Satisfied(o, c) = p
    BY <1>4 DEF Satisfied
  <2>2. o.count - 1 \in Int /\ o.count > 0
    BY <1>1, <1>4 DEF Signaled
  <2>3. p \in ObjectRecord /\ p.kind = "semaphore" /\ p.waiting = o.waiting
    BY <1>4, <2>2 DEF ObjectRecord
  <2> HIDE DEF p
  <2>4. \A t \in Nat : Undisturbed(o, p, t)
    BY <1>4, <2>2, <2>3 DEF Undisturbed, Signaled
  <2> QED
    BY <2>1, <2>3, <2>4
<1> QED
  BY <1>1, <1>2, <1>3, <1>4

\* Objects with their types.
ObjectsFine(os) ==
    /\ os \in Seq(ObjectRecord)
    /\ \A h \in DOMAIN os : os[h].kind = "mutex" => os[h].count >= 0

\* The objects ps are os with no sleeper disturbed.
Calm(os, ps) ==
    /\ ObjectsFine(ps) /\ DOMAIN ps = DOMAIN os
    /\ \A h \in DOMAIN os, t \in Nat : Undisturbed(os[h], ps[h], t)

LEMMA SatisfyWaitFacts ==
    ASSUME NEW os, ObjectsFine(os), NEW h \in DOMAIN os, NEW c \in Nat
    PROVE  Calm(os, SatisfyWait(os, h, c))
<1>1. os \in Seq(ObjectRecord) /\ os[h] \in ObjectRecord /\ (os[h].kind = "mutex" => os[h].count >= 0)
  BY DEF ObjectsFine
<1>2. CASE Signaled(os[h], c)
  <2> DEFINE p == Satisfied(os[h], c)
  <2>1. /\ p \in ObjectRecord /\ (p.kind = "mutex" => p.count >= 0)
        /\ \A t \in Nat : Undisturbed(os[h], p, t)
    BY <1>1, <1>2, SatisfiedFacts
  <2>2. SatisfyWait(os, h, c) = [os EXCEPT ![h] = p]
    BY <1>2 DEF SatisfyWait
  <2> HIDE DEF p
  <2> DEFINE ps == [os EXCEPT ![h] = p]
  <2>3. /\ ps \in Seq(ObjectRecord) /\ DOMAIN ps = DOMAIN os /\ ps[h] = p
        /\ \A g \in DOMAIN os : g # h => ps[g] = os[g]
    BY <1>1, <2>1
  <2> HIDE DEF ps
  <2>4. ObjectsFine(ps)
    BY <2>1, <2>3 DEF ObjectsFine
  <2>5. \A g \in DOMAIN os, t \in Nat : Undisturbed(os[g], ps[g], t)
    BY <2>1, <2>3, SameUndisturbed
  <2> QED
    BY <2>2, <2>3, <2>4, <2>5 DEF Calm, ps
<1>3. CASE ~Signaled(os[h], c)
  BY <1>3, SameUndisturbed DEF SatisfyWait, Calm
<1> QED
  BY <1>2, <1>3

LEMMA CalmTransitive ==
    ASSUME NEW os, NEW ps, NEW qs, Calm(os, ps), Calm(ps, qs)
    PROVE  Calm(os, qs)
<1>1. \A h \in DOMAIN os, t \in Nat : Undisturbed(os[h], qs[h], t)
  BY DEF Calm, Undisturbed
<1> QED
  BY <1>1 DEF Calm

\* A step that satisfies waits and leaves the scheduler alone.
LEMMA ProceedStep ==
    ASSUME KernelInv, UNCHANGED <<threads, ready, current>>, Calm(objects, objects')
    PROVE  Keeps
<1>1. SchedulerStep({})
  BY IdleStep DEF KernelInv
<1>2. Threads \subseteq Nat
  BY DEF KernelInv, SchedulerInv, ThreadsTyped, Threads
<1>3. WakeupInv'
  BY <1>1, <1>2, WakeupStep DEF Calm
<1>4. ObjectsTyped'
  BY DEF Calm, ObjectsFine, ObjectsTyped
<1> QED
  BY <1>1, <1>3, <1>4, StepKeeps

\* A thread that queues for an object is in its waiting list, and signals nothing.
LEMMA AddWaitingFacts ==
    ASSUME NEW o \in ObjectRecord, NEW c \in Nat
    PROVE  LET p == AddWaitingThread(o, c)
           IN  /\ p \in ObjectRecord /\ p.kind = o.kind /\ p.count = o.count /\ p.owner = o.owner
               /\ c \in Range(p.waiting) /\ \A t \in Nat : t \in Range(o.waiting) => t \in Range(p.waiting)
               /\ \A t \in Nat : Signaled(p, t) = Signaled(o, t)
<1>1. CASE c \in Range(o.waiting)
  BY <1>1 DEF AddWaitingThread
<1>2. CASE c \notin Range(o.waiting)
  <2> DEFINE w == Append(o.waiting, c)
             p == [o EXCEPT !.waiting = w]
  <2>1. o.waiting \in Seq(Nat)
    BY DEF ObjectRecord
  <2>2. /\ w \in Seq(Nat) /\ DOMAIN w = DOMAIN o.waiting \cup {Len(o.waiting) + 1}
        /\ w[Len(o.waiting) + 1] = c /\ \A i \in DOMAIN o.waiting : w[i] = o.waiting[i]
    BY <2>1
  <2> HIDE DEF w
  <2>3. c \in Range(w) /\ \A t \in Nat : t \in Range(o.waiting) => t \in Range(w)
    BY <2>2 DEF Range
  <2>4. /\ p \in ObjectRecord /\ p.kind = o.kind /\ p.count = o.count /\ p.owner = o.owner
        /\ p.waiting = w
    BY <2>2, Zenon DEF ObjectRecord
  <2>5. AddWaitingThread(o, c) = p
    BY <1>2 DEF AddWaitingThread, w
  <2> HIDE DEF p
  <2>6. \A t \in Nat : Signaled(p, t) = Signaled(o, t)
    BY <2>4 DEF Signaled
  <2> QED
    BY <2>3, <2>4, <2>5, <2>6
<1> QED
  BY <1>1, <1>2

\* The objects once thread c queues for those of the set hs.
Queued(hs, c) ==
    [h \in DOMAIN objects |-> IF h \in hs THEN AddWaitingThread(objects[h], c) ELSE objects[h]]

LEMMA QueuedFacts ==
    ASSUME KernelInv, NEW hs \in SUBSET DOMAIN objects, NEW c \in Nat
    PROVE  /\ Calm(objects, Queued(hs, c))
           /\ \A h \in hs : /\ c \in Range(Queued(hs, c)[h].waiting)
                            /\ Signaled(Queued(hs, c)[h], c) = Signaled(objects[h], c)
<1> DEFINE ps == Queued(hs, c)
<1>1. objects \in Seq(ObjectRecord) /\ \A h \in DOMAIN objects : objects[h].kind = "mutex" => objects[h].count >= 0
  BY DEF KernelInv, ObjectsTyped
<1>2. /\ DOMAIN ps = DOMAIN objects
      /\ \A h \in DOMAIN objects :
            ps[h] = IF h \in hs THEN AddWaitingThread(objects[h], c) ELSE objects[h]
  BY DEF Queued
<1>3. \A h \in DOMAIN objects : objects[h] \in ObjectRecord
  BY <1>1
<1> HIDE DEF ps
<1>4. ASSUME NEW h \in DOMAIN objects
      PROVE  /\ ps[h] \in ObjectRecord /\ ps[h].kind = objects[h].kind /\ ps[h].count = objects[h].count
             /\ \A t \in Nat : Undisturbed(objects[h], ps[h], t)
             /\ h \in hs => /\ c \in Range(ps[h].waiting)
                            /\ Signaled(ps[h], c) = Signaled(objects[h], c)
  <2>1. CASE h \in hs
    <3>1. ps[h] = AddWaitingThread(objects[h], c) /\ objects[h] \in ObjectRecord
      BY <1>2, <1>3, <2>1
    <3>2. /\ ps[h] \in ObjectRecord /\ ps[h].kind = objects[h].kind /\ ps[h].count = objects[h].count
          /\ c \in Range(ps[h].waiting)
          /\ \A t \in Nat : t \in Range(objects[h].waiting) => t \in Range(ps[h].waiting)
          /\ \A t \in Nat : Signaled(ps[h], t) = Signaled(objects[h], t)
      BY <3>1, AddWaitingFacts
    <3> QED
      BY <3>2 DEF Undisturbed
  <2>2. CASE h \notin hs
    <3>1. ps[h] = objects[h] /\ objects[h] \in ObjectRecord
      BY <1>2, <1>3, <2>2
    <3> QED
      BY <2>2, <3>1, SameUndisturbed
  <2> QED
    BY <2>1, <2>2
<1>5. DOMAIN objects = 1 .. Len(objects) /\ Len(objects) \in Nat
  BY <1>1
<1>6. ps \in Seq(ObjectRecord)
  <2>1. \A h \in 1 .. Len(objects) : ps[h] \in ObjectRecord
    BY <1>4, <1>5
  <2>2. ps = [h \in 1 .. Len(objects) |-> ps[h]]
    BY <1>2, <1>5 DEF ps, Queued
  <2> QED
    BY <1>5, <2>1, <2>2, IsASeq
<1>7. ObjectsFine(ps)
  BY <1>1, <1>2, <1>4, <1>6 DEF ObjectsFine
<1>8. Calm(objects, ps)
  BY <1>2, <1>4, <1>7 DEF Calm
<1> QED
  BY <1>4, <1>8 DEF ps

LEMMA WaitStep ==
    ASSUME KernelInv, NEW e \in {"WaitSingle", "WaitMultiple"}, NEW hs \in Seq(DOMAIN objects),
           hs # << >>, NEW all \in BOOLEAN, all => Len(hs) = 2, NEW timed \in BOOLEAN,
           Wait(e, hs, all, timed)
    PROVE  Keeps
<1> DEFINE signaled == {i \in DOMAIN hs : Signaled(objects[hs[i]], current)}
           first == CHOOSE i \in signaled : \A j \in signaled : i <= j
<1>1. current \in Nat /\ Threads \subseteq Nat /\ current \in {0} \cup Threads
  BY DEF KernelInv, SchedulerInv, ThreadsTyped, Threads
<1>2. /\ DOMAIN hs = 1 .. Len(hs) /\ Len(hs) \in Nat /\ Len(hs) >= 1
      /\ \A i \in DOMAIN hs : hs[i] \in DOMAIN objects
  OBVIOUS
<1>3. ObjectsFine(objects)
  BY DEF KernelInv, ObjectsTyped, ObjectsFine
<1>4. CASE ~all /\ signaled # {}
  <2>1. /\ UNCHANGED <<threads, ready, current>>
        /\ objects' = SatisfyWait(objects, hs[first], current)
    BY <1>4 DEF Wait
  <2>2. signaled \in SUBSET Nat
    BY <1>2
  <2> HIDE DEF signaled
  <2>3. first \in signaled
    BY <1>4, <2>2, LeastElement
  <2> HIDE DEF first
  <2>4. hs[first] \in DOMAIN objects
    BY <1>2, <2>3 DEF signaled
  <2>5. Calm(objects, objects')
    BY <1>1, <1>3, <2>1, <2>4, SatisfyWaitFacts
  <2> QED
    BY <2>1, <2>5, ProceedStep
<1>5. CASE all /\ signaled = DOMAIN hs
  <2> DEFINE os == SatisfyWait(objects, hs[1], current)
  <2>1. /\ UNCHANGED <<threads, ready, current>>
        /\ objects' = SatisfyWait(os, hs[2], current)
    BY <1>5 DEF Wait
  <2>2. hs[1] \in DOMAIN objects /\ hs[2] \in DOMAIN objects
    BY <1>2, <1>5
  <2>3. Calm(objects, os)
    BY <1>1, <1>3, <2>2, SatisfyWaitFacts
  <2> HIDE DEF os
  <2>4. ObjectsFine(os) /\ hs[2] \in DOMAIN os
    BY <2>2, <2>3 DEF Calm
  <2>5. Calm(os, objects')
    BY <1>1, <2>1, <2>4, SatisfyWaitFacts
  <2>6. Calm(objects, objects')
    BY <2>3, <2>5, CalmTransitive
  <2> QED
    BY <2>1, <2>6, ProceedStep
<1>6. CASE ~(~all /\ signaled # {}) /\ ~(all /\ signaled = DOMAIN hs)
  <2>1. objects' = Queued(Range(hs), current) /\ BlockCurrent(e, Range(hs), all, timed)
    BY <1>6 DEF Wait, Queued
  <2>2. Range(hs) \in SUBSET DOMAIN objects
    BY <1>2 DEF Range
  <2>3. /\ Calm(objects, objects')
        /\ \A h \in Range(hs) : /\ current \in Range(objects'[h].waiting)
                                /\ Signaled(objects'[h], current) = Signaled(objects[h], current)
    BY <1>1, <2>1, <2>2, QueuedFacts, Zenon
  <2>4. CASE current = 0
    <3>1. UNCHANGED <<threads, ready, current>>
      BY <2>1, <2>4 DEF BlockCurrent
    <3> QED
      BY <2>3, <3>1, ProceedStep
  <2>5. CASE current # 0
    <3>1. current \in Threads
      BY <1>1, <2>5
    <3>2. Range(hs) \in SUBSET Nat
      <4>1. DOMAIN objects \subseteq Nat
        BY DEF KernelInv, ObjectsTyped
      <4> QED
        BY <2>2, <4>1
    <3>3. ObjectsTyped' /\ DOMAIN objects' = DOMAIN objects
      BY <2>3 DEF Calm, ObjectsFine, ObjectsTyped
    <3>4. \A t \in Threads, h \in DOMAIN objects : Undisturbed(objects[h], objects'[h], t)
      BY <1>1, <2>3 DEF Calm
    <3>5. IF all THEN \E h \in Range(hs) : ~Signaled(objects[h], current)
                 ELSE \A h \in Range(hs) : ~Signaled(objects[h], current)
      BY <1>6, Zenon DEF Range
    <3>6. Asleep(objects', current, Range(hs), all)
      BY <2>2, <2>3, <3>3, <3>5 DEF Asleep
    <3> QED
      BY <2>1, <3>1, <3>2, <3>3, <3>4, <3>6, BlockedStep
  <2> QED
    BY <2>4, <2>5
<1> QED
  BY <1>4, <1>5, <1>6

-----------------------------------------------------------------------------
(* The theorems. *)

\* The current thread, too, keeps what it waits for.
LEMMA CurrentKept ==
    ASSUME KernelInv, SchedulerStep({current}), UNCHANGED objects, current \in Threads,
           threads'[current].state = "Blocked" =>
                 /\ threads[current].state = "Blocked"
                 /\ threads'[current].waits = threads[current].waits
                 /\ threads'[current].all = threads[current].all
    PROVE  Keeps
<1>1. SchedulerStep({})
  BY DEF SchedulerStep
<1> QED
  BY <1>1, ObjectsKept, StepKeeps

LEMMA KernelStepKeeps ==
    ASSUME KernelStep
    PROVE  Keeps
BY StepKeeps DEF KernelStep

\* The scheduler's part of a step, when the objects stay.
LEMMA SchedulerKeeps ==
    ASSUME KernelInv, SchedulerStep({}), UNCHANGED objects
    PROVE  Keeps
BY ObjectsKept, StepKeeps

LEMMA KernelNext ==
    ASSUME KernelInv, [ThreadsNext]_threadVars
    PROVE  Keeps
<1> USE DEF Open, OpenOf
<1>1. SchedulerInv
  BY DEF KernelInv
<1>2. CASE UNCHANGED threadVars
  <2>1. UNCHANGED <<threads, ready, current>> /\ UNCHANGED objects
    BY <1>2 DEF threadVars
  <2> QED
    BY <1>1, <2>1, IdleStep, SchedulerKeeps
<1>3. CASE CreateThread
  BY <1>1, <1>3, CreateThreadStep, SchedulerKeeps DEF CreateThread
<1>4. CASE Yield
  <2>1. UNCHANGED objects
    BY <1>4 DEF Yield
  <2> QED
    BY <1>1, <1>4, <2>1, YieldStep, CurrentKept
<1>5. CASE Delay
  BY <1>5, SleepStep, Zenon DEF Delay
<1>6. CASE ExitCurrent
  <2>1. UNCHANGED objects
    BY <1>6 DEF ExitCurrent
  <2> QED
    BY <1>1, <1>6, <2>1, ExitCurrentStep, CurrentKept
<1>7. ASSUME NEW tid \in Threads, TerminateThread(tid) \/ SuspendThread(tid) \/ ResumeThread(tid)
      PROVE  Keeps
  <2>1. UNCHANGED objects
    BY <1>7 DEF TerminateThread, SuspendThread, ResumeThread
  <2> QED
    BY <1>1, <1>7, <2>1, TerminateThreadStep, SuspendThreadStep, ResumeThreadStep, SchedulerKeeps
<1>8. CASE CreateEvent \/ CreateMutex \/ CreateSemaphore
  BY <1>8, CreateSteps, KernelStepKeeps
<1>9. ASSUME NEW h \in Open, CloseHandle(h)
      PROVE  Keeps
  BY <1>1, <1>9, IdleStep, SchedulerKeeps DEF CloseHandle
<1>10. ASSUME NEW h \in OpenOf("event"), SetEvent(h) \/ ResetEvent(h) \/ PulseEvent(h)
       PROVE  Keeps
  BY <1>10, SetEventStep, ResetEventStep, PulseEventStep, KernelStepKeeps
<1>11. ASSUME NEW h \in OpenOf("mutex"), ReleaseMutex(h)
       PROVE  Keeps
  BY <1>11, ReleaseMutexStep, KernelStepKeeps
<1>12. ASSUME NEW h \in OpenOf("semaphore"), NEW n \in 1 .. MaxRelease, ReleaseSemaphore(h, n)
       PROVE  Keeps
  BY <1>12, ReleaseSemaphoreStep, KernelStepKeeps
<1>13. ASSUME NEW h \in Open, NEW timed \in Timeouts, Wait("WaitSingle", <<h>>, FALSE, timed)
       PROVE  Keeps
  <2>1. <<h>> \in Seq(DOMAIN objects) /\ <<h>> # << >> /\ timed \in BOOLEAN
    BY KernelAssumption
  <2> QED
    BY <1>13, <2>1, WaitStep
<1>14. ASSUME NEW h \in Open, NEW g \in Open, NEW all \in BOOLEAN, NEW timed \in Timeouts,
              Wait("WaitMultiple", <<h, g>>, all, timed)
       PROVE  Keeps
  <2>1. /\ <<h, g>> \in Seq(DOMAIN objects) /\ <<h, g>> # << >> /\ Len(<<h, g>>) = 2
        /\ timed \in BOOLEAN
    BY KernelAssumption
  <2> QED
    BY <1>14, <2>1, WaitStep, Zenon
<1>15. ASSUME NEW timed \in Timeouts, WaitThread(timed)
       PROVE  Keeps
  BY <1>15, SleepStep, KernelAssumption, Zenon DEF WaitThread
<1> QED
  BY <1>2, <1>3, <1>4, <1>5, <1>6, <1>7, <1>8, <1>9, <1>10, <1>11, <1>12, <1>13, <1>14, <1>15
  DEF ThreadsNext

LEMMA KernelStarts ==
    ASSUME ThreadsInit
    PROVE  KernelInv
<1>1. ThreadsTyped
  BY DEF ThreadsInit, ThreadsTyped, Threads
<1>2. QueueOK(threads, ready, current)
  BY DEF ThreadsInit, QueueOK, IsInjective, Range
<1>3. ObjectsTyped
  BY DEF ThreadsInit, ObjectsTyped
<1>4. WakeupInv
  BY DEF ThreadsInit, WakeupInv, Threads
<1> QED
  BY <1>1, <1>2, <1>3, <1>4 DEF KernelInv, SchedulerInv

\* In queues without duplicates, an element that is not overtaken does not move back.
LEMMA PositionFacts ==
    ASSUME NEW q, NEW r, NotOvertaken(q, r), NEW t \in Range(q) \cap Range(r)
    PROVE  Position(r, t) <= Position(q, t)
<1>1. Position(q, t) \in DOMAIN q /\ q[Position(q, t)] = t
  BY DEF Position, Range
<1>2. Position(r, t) \in DOMAIN r /\ r[Position(r, t)] = t
  BY DEF Position, Range
<1> QED
  BY <1>1, <1>2 DEF NotOvertaken

\* A thread blocked on objects is in the waiting list of each and does not sleep on a
\* condition that holds: for any number of threads and objects, whatever signals,
\* releases, waits, suspensions and terminations interleave, no wakeup is lost.
THEOREM WakeupsReachWaiters == ThreadsSpec => []NoLostWakeup
<1>1. ThreadsInit => KernelInv
  BY KernelStarts
<1>2. KernelInv /\ [ThreadsNext]_threadVars => KernelInv'
  BY KernelNext DEF Keeps
<1>3. KernelInv => NoLostWakeup
  BY DEF KernelInv, WakeupInv, Asleep, NoLostWakeup
<1> QED
  BY <1>1, <1>2, <1>3, PTL DEF ThreadsSpec

\* For any number of threads, the ready queue holds every thread that may run exactly
\* once, and one that stays queued is never overtaken.
THEOREM Turns == ThreadsSpec => []QueueHoldsReady /\ ThreadsTakeTurns
<1>1. ThreadsInit => KernelInv
  BY KernelStarts
<1>2. KernelInv /\ [ThreadsNext]_threadVars => KernelInv'
  BY KernelNext DEF Keeps
<1>3. KernelInv => QueueHoldsReady
  BY DEF KernelInv, SchedulerInv, QueueOK, QueueHoldsReady, Threads
<1>4. KernelInv /\ [ThreadsNext]_threadVars => KeepsOrder
  BY KernelNext, PositionFacts DEF Keeps, KeepsOrder
<1> QED
  BY <1>1, <1>2, <1>3, <1>4, PTL DEF ThreadsSpec, ThreadsTakeTurns
=============================================================================
