-------------------------- MODULE EmbedQueueProofs --------------------------
(***************************************************************************)
(* Proofs about the two modules of package bot that pass things on in      *)
(* batches.  EmbedQueue: the inductive invariant IInv, from it the safety  *)
(* invariants, for every set of embeds, every length and every size of the *)
(* queue.  Metrics: the inductive invariant MetricsIInv and the balance of *)
(* the accounts, for every set of counters, any width of them and any      *)
(* number of submissions.                                                  *)
(***************************************************************************)
EXTENDS EmbedQueue, Metrics, FiniteSetTheorems, WellFoundedInduction, TLAPS

-----------------------------------------------------------------------------
\* What append does to a slice.
LEMMA AppendFacts ==
    ASSUME NEW S, NEW s \in Seq(S), NEW x \in S
    PROVE  /\ Append(s, x) \in Seq(S)
           /\ Append(s, x) # <<>>
           /\ Len(Append(s, x)) = Len(s) + 1
           /\ \A e : In(e, Append(s, x)) <=> In(e, s) \/ e = x
           /\ NoDuplicates(s) /\ ~In(x, s) => NoDuplicates(Append(s, x))
<1>1. /\ Append(s, x) \in Seq(S)
      /\ Append(s, x) # <<>>
      /\ Len(s) \in Nat
      /\ Len(Append(s, x)) = Len(s) + 1
      /\ \A i \in 1..Len(s) : Append(s, x)[i] = s[i]
      /\ Append(s, x)[Len(s) + 1] = x
  OBVIOUS
<1>2. \A i : i \in 1..(Len(s) + 1) <=> i \in 1..Len(s) \/ i = Len(s) + 1
  BY <1>1
<1>3. ASSUME NEW e PROVE In(e, Append(s, x)) <=> In(e, s) \/ e = x
  BY <1>1, <1>2 DEF In
<1>4. NoDuplicates(s) /\ ~In(x, s) => NoDuplicates(Append(s, x))
  BY <1>1, <1>2 DEF In, NoDuplicates
<1> QED
  BY <1>1, <1>3, <1>4

\* Nothing is in an empty slice, and only in an empty one.
LEMMA EmptyFacts ==
    /\ \A e : ~In(e, <<>>)
    /\ NoDuplicates(<<>>)
    /\ Len(<<>>) = 0
    /\ \A S : <<>> \in Seq(S)
BY DEF In, NoDuplicates

-----------------------------------------------------------------------------
\* The numbers are well founded, and so a set of them has a least element.
LEMMA Before ==
    ASSUME NEW m \in Nat, NEW n \in Nat, m < n
    PROVE  <<m, n>> \in OpToRel(<, Nat)
BY DEF OpToRel

LEMMA Least ==
    ASSUME NEW T \in SUBSET Nat, T # {}
    PROVE  \E n \in T : \A m \in T : n <= m
<1> DEFINE R == OpToRel(<, Nat)
<1>1. IsWellFoundedOn(R, Nat)
  BY NatLessThanWellFounded
<1>2. \A m, n \in Nat : m < n => <<m, n>> \in R
  BY Before
<1> HIDE DEF R
<1>3. PICK n \in T : \A m \in T : ~(<<m, n>> \in R)
  BY <1>1, WFMin
<1>4. ASSUME NEW m \in T PROVE n <= m
  <2>1. m \in Nat /\ n \in Nat
    OBVIOUS
  <2>2. ~(m < n)
    BY <1>2, <1>3, <2>1, Zenon
  <2> QED
    BY <2>1, <2>2
<1> QED
  BY <1>4

\* Induction over the numbers, for sets.
LEMMA Induction ==
    ASSUME NEW T \in SUBSET Nat, 0 \in T, \A n \in T : n + 1 \in T
    PROVE  T = Nat
<1> SUFFICES ASSUME Nat \ T # {} PROVE FALSE
  OBVIOUS
<1>1. PICK n \in Nat \ T : \A m \in Nat \ T : n <= m
  BY Least
<1> QED
  BY <1>1, n - 1 \in Nat, n - 1 \notin Nat \ T

\* The sum of a sequence, as SequencesExt folds it: Sums(s, g, D) if g has the sums of
\* the parts of s at the subsets of D.
Sums(s, g, D) ==
    g = [t \in SUBSET D |-> IF t = {} THEN 0 ELSE g[t \ {Max(t)}] + Length[s[Max(t)]]]

LEMMA FoldIsSum ==
    ASSUME NEW s
    PROVE  totalLength(s) = (CHOOSE g : Sums(s, g, DOMAIN s))[DOMAIN s]
BY DEF totalLength, FoldLeft, MapThenFoldSet, Sums

\* A set of numbers below a bound has a greatest element.
LEMMA MaxFacts ==
    ASSUME NEW n \in Nat, NEW t \in SUBSET (1..n), t # {}
    PROVE  Max(t) \in t /\ \A x \in t : x <= Max(t)
<1> DEFINE Above == {k \in Nat : \A x \in t : x <= k}
<1>1. n \in Above
  OBVIOUS
<1>2. PICK k \in Above : \A j \in Above : k <= j
  <2> HIDE DEF Above
  <2>1. Above \in SUBSET Nat
    BY DEF Above
  <2> QED
    BY <1>1, <2>1, Least
<1>3. k \in t
  <2> SUFFICES ASSUME k \notin t PROVE FALSE
    OBVIOUS
  <2>1. k \in Nat /\ \A x \in t : x \in Nat /\ x >= 1 /\ x <= k
    BY <1>2
  <2>2. \A x \in t : x < k
    BY <2>1
  <2>4. PICK x \in t : TRUE
    OBVIOUS
  <2>5. k - 1 \in Nat /\ \A y \in t : y <= k - 1
    BY <2>1, <2>2, <2>4
  <2>3. k - 1 \in Above
    BY <2>5
  <2> QED
    BY <1>2, <2>1, <2>3
<1> QED
  BY <1>2, <1>3 DEF Max

\* The recursion of the fold has a solution.
LEMMA SumsExist ==
    ASSUME NEW s, NEW n \in Nat
    PROVE  \E g : Sums(s, g, 1..n)
<1> DEFINE T == {k \in Nat : \E g : Sums(s, g, 1..k)}
<1>1. 0 \in T
  <2>1. Sums(s, [t \in SUBSET (1..0) |-> 0], 1..0)
    BY DEF Sums
  <2> QED
    BY <2>1
<1>2. ASSUME NEW k \in T PROVE k + 1 \in T
  <2>0. k \in Nat /\ k + 1 \in Nat
    OBVIOUS
  <2>1. PICK g : Sums(s, g, 1..k)
    OBVIOUS
  <2> DEFINE h == [t \in SUBSET (1..(k+1)) |->
                      IF t = {} THEN 0 ELSE g[t \ {Max(t)}] + Length[s[Max(t)]]]
  <2>2. ASSUME NEW t \in SUBSET (1..k) PROVE h[t] = g[t]
    <3>1. t \in SUBSET (1..(k+1))
      OBVIOUS
    <3> QED
      BY <2>1, <3>1 DEF Sums
  <2>3. ASSUME NEW t \in SUBSET (1..(k+1)), t # {} PROVE h[t \ {Max(t)}] = g[t \ {Max(t)}]
    <3>1. Max(t) \in t /\ \A x \in t : x <= Max(t)
      BY <2>0, <2>3, MaxFacts
    <3>2. ASSUME NEW x \in t, x # Max(t) PROVE x \in 1..k
      <4>1. x \in 1..(k+1) /\ Max(t) \in 1..(k+1) /\ x <= Max(t)
        BY <3>1
      <4> QED
        BY <2>0, <3>2, <4>1
    <3>3. t \ {Max(t)} \in SUBSET (1..k)
      BY <3>2
    <3> QED
      BY <2>2, <3>3
  <2>4. Sums(s, h, 1..(k+1))
    BY <2>3 DEF Sums
  <2> QED
    BY <2>4
<1> HIDE DEF T
<1>3. T = Nat
  <2>1. T \in SUBSET Nat
    BY DEF T
  <2> QED
    BY <1>1, <1>2, <2>1, Induction
<1> QED
  BY <1>3 DEF T

LEMMA SumStep ==
    ASSUME NEW n \in Nat, NEW s, NEW g, Sums(s, g, 1..n), NEW k \in 1..n
    PROVE  g[1..k] = g[1..(k-1)] + Length[s[k]]
<1>1. /\ k \in Nat /\ k - 1 \in Nat /\ k <= n
      /\ 1..k \in SUBSET (1..n) /\ 1..k # {} /\ k \in 1..k /\ (1..k) \ {k} = 1..(k-1)
  OBVIOUS
<1>2. Max(1..k) = k
  <2>1. Max(1..k) \in 1..k /\ \A x \in 1..k : x <= Max(1..k)
    BY <1>1, MaxFacts
  <2> QED
    BY <1>1, <2>1
<1>3. g[1..k] = g[(1..k) \ {Max(1..k)}] + Length[s[Max(1..k)]]
  <2> DEFINE t == 1..k
  <2>1. t \in SUBSET (1..n) /\ t # {}
    BY <1>1
  <2> HIDE DEF t
  <2>2. g[t] = g[t \ {Max(t)}] + Length[s[Max(t)]]
    BY <2>1 DEF Sums
  <2> QED
    BY <2>2 DEF t
<1> QED
  BY <1>1, <1>2, <1>3, Zenon

\* The total of a sequence grows by the length of what is appended to it.
LEMMA TotalFacts ==
    /\ totalLength(<<>>) = 0
    /\ \A s \in Seq(Embeds) :
          /\ totalLength(s) \in Nat
          /\ \A e \in Embeds : totalLength(Append(s, e)) = totalLength(s) + Length[e]
<1>1. ASSUME NEW s, NEW n \in Nat, DOMAIN s = 1..n
      PROVE  \E g : Sums(s, g, 1..n) /\ totalLength(s) = g[1..n]
  <2>1. totalLength(s) = (CHOOSE g : Sums(s, g, 1..n))[1..n]
    BY <1>1, FoldIsSum
  <2>2. \E g : Sums(s, g, 1..n)
    BY SumsExist
  <2>3. Sums(s, CHOOSE g : Sums(s, g, 1..n), 1..n)
    BY <2>2
  <2> QED
    BY <2>1, <2>3
<1>2. ASSUME NEW s, NEW n \in Nat, NEW g, Sums(s, g, 1..n) PROVE g[1..0] = 0
  <2>1. 1..0 = {} /\ {} \in SUBSET (1..n)
    OBVIOUS
  <2> QED
    BY <1>2, <2>1 DEF Sums
<1>3. totalLength(<<>>) = 0
  <2>1. DOMAIN <<>> = 1..0
    OBVIOUS
  <2> QED
    BY <1>1, <1>2, <2>1
<1>4. ASSUME NEW s \in Seq(Embeds), NEW e \in Embeds
      PROVE  totalLength(s) \in Nat /\ totalLength(Append(s, e)) = totalLength(s) + Length[e]
  <2> DEFINE n == Len(s)
             r == Append(s, e)
  <2>1. /\ n \in Nat /\ DOMAIN s = 1..n /\ DOMAIN r = 1..(n + 1)
        /\ r[n + 1] = e /\ \A k \in 1..n : r[k] = s[k] /\ s[k] \in Embeds
    OBVIOUS
  <2> HIDE DEF n, r
  <2>2. PICK g : Sums(s, g, 1..n) /\ totalLength(s) = g[1..n]
    BY <1>1, <2>1
  <2>3. PICK h : Sums(r, h, 1..(n + 1)) /\ totalLength(r) = h[1..(n + 1)]
    BY <1>1, <2>1
  <2> DEFINE T == {k \in Nat : k <= n => g[1..k] \in Nat /\ h[1..k] = g[1..k]}
  <2>4. 0 \in T
    BY <1>2, <2>1, <2>2, <2>3
  <2>5. ASSUME NEW k \in T PROVE k + 1 \in T
    <3>1. CASE k + 1 <= n
      <4>1. k + 1 \in 1..n /\ k + 1 \in 1..(n + 1) /\ (k + 1) - 1 = k
        BY <2>1, <3>1
      <4>2. /\ g[1..(k + 1)] = g[1..k] + Length[s[k + 1]]
            /\ h[1..(k + 1)] = h[1..k] + Length[r[k + 1]]
        <5> DEFINE j == k + 1
        <5>1. j \in 1..n /\ j \in 1..(n + 1) /\ n + 1 \in Nat
          BY <2>1, <4>1
        <5> HIDE DEF j
        <5>2. g[1..j] = g[1..(j - 1)] + Length[s[j]]
          BY <2>1, <2>2, <5>1, SumStep
        <5>3. h[1..j] = h[1..(j - 1)] + Length[r[j]]
          BY <2>3, <5>1, SumStep
        <5> QED
          BY <4>1, <5>2, <5>3, Zenon DEF j
      <4>3. Length[s[k + 1]] \in Nat /\ r[k + 1] = s[k + 1]
        BY <2>1, <4>1, EmbedQueueAssumption
      <4>4. g[1..k] \in Nat /\ h[1..k] = g[1..k]
        BY <2>1, <3>1
      <4> QED
        BY <4>2, <4>3, <4>4
    <3> QED
      BY <2>1, <3>1
  <2>6. T = Nat
    <3>1. T \in SUBSET Nat
      OBVIOUS
    <3> HIDE DEF T
    <3> QED
      BY <2>4, <2>5, <3>1, Induction
  <2>7. g[1..n] \in Nat /\ h[1..n] = g[1..n]
    BY <2>1, <2>6
  <2>8. h[1..(n + 1)] = h[1..n] + Length[r[n + 1]]
    <3>1. n + 1 \in 1..(n + 1) /\ (n + 1) - 1 = n
      BY <2>1
    <3> QED
      BY <2>1, <2>3, <3>1, SumStep
  <2> QED
    BY <2>1, <2>2, <2>3, <2>7, <2>8 DEF r
<1>5. ASSUME NEW s \in Seq(Embeds) PROVE totalLength(s) \in Nat
  <2>1. CASE Embeds = {}
    <3>1. s = <<>>
      BY <2>1
    <3> QED
      BY <1>3, <3>1
  <2>2. CASE Embeds # {}
    BY <1>4, <2>2
  <2> QED
    BY <2>1, <2>2
<1> QED
  BY <1>3, <1>4, <1>5

-----------------------------------------------------------------------------
\* Init and the part of every step that the types are about.
LEMMA InitInvariant ==
    Init => IInv
<1> USE EmptyFacts
<1> SUFFICES ASSUME Init PROVE IInv
  OBVIOUS
<1>1. TypeOK
  BY DEF Init, TypeOK, CallState, CallbackState, Outcome
<1>2. LockDiscipline
  BY DEF Init, LockDiscipline
<1>3. HeldOnceUntilPosted
  BY DEF Init, HeldOnceUntilPosted, Held
<1>4. BatchesBounded
  BY EmbedQueueAssumption DEF Init, BatchesBounded
<1>5. QueuedMeansTimerPending
  BY DEF Init, QueuedMeansTimerPending
<1>6. LengthsChecked
  BY DEF Init, LengthsChecked
<1> QED
  BY <1>1, <1>2, <1>3, <1>4, <1>5, <1>6 DEF IInv

\* A caller whose embed fits.
LEMMA EnqueueStep ==
    ASSUME IInv, NEW e \in Embeds, Enqueue(e)
    PROVE  IInv'
<1> USE DEF AppendAndArm
<1>1. /\ call[e] = "idle"
      /\ \A d \in Embeds : call[d] # "flushing"
      /\ Len(queue) < MaxEmbeds
      /\ call' = [call EXCEPT ![e] = "returned"]
      /\ queue' = Append(queue, e)
      /\ UNCHANGED <<up, batch, outcome>>
  BY EmbedQueueAssumption DEF Enqueue, Locked, Overflows, IInv, TypeOK
<1>2. /\ timer = NoTimer => timer' = e /\ callback' = [callback EXCEPT ![e] = "armed"]
      /\ timer # NoTimer => timer' = timer /\ callback' = callback
  BY DEF Enqueue
<1>3. TypeOK'
  BY <1>1, <1>2, AppendFacts DEF IInv, TypeOK, CallState, CallbackState
<1>4. LockDiscipline'
  BY <1>1, <1>2 DEF IInv, TypeOK, LockDiscipline
<1>5. ~Held(e)
  BY <1>1 DEF IInv, HeldOnceUntilPosted
<1>6. outcome[e] = "none"
  BY <1>1 DEF IInv, LockDiscipline
<1>7. HeldOnceUntilPosted'
  <2>1. /\ \A d : In(d, queue') <=> In(d, queue) \/ d = e
        /\ NoDuplicates(queue')
    BY <1>1, <1>5, AppendFacts DEF IInv, TypeOK, HeldOnceUntilPosted, Held
  <2> QED
    BY <1>1, <1>5, <1>6, <2>1 DEF IInv, TypeOK, HeldOnceUntilPosted, Held
<1>8. BatchesBounded'
  BY <1>1, AppendFacts, EmbedQueueAssumption DEF IInv, TypeOK, BatchesBounded
<1>9. QueuedMeansTimerPending'
  BY <1>1, <1>2, EmbedQueueAssumption DEF IInv, TypeOK, QueuedMeansTimerPending
<1>10. LengthsChecked'
  <2>1. /\ totalLength(queue) + Length[e] < MaxLength
        /\ queue \in Seq(Embeds)
    <3>1. queue \in Seq(Embeds)
      BY DEF IInv, TypeOK
    <3>2. totalLength(queue) \in Nat /\ Length[e] \in Nat /\ MaxLength \in Nat
      BY <3>1, TotalFacts, EmbedQueueAssumption
    <3>3. ~(totalLength(queue) + Length[e] >= MaxLength)
      BY DEF Enqueue, Overflows
    <3> QED
      BY <3>1, <3>2, <3>3
  <2>2. totalLength(queue') <= MaxLength
    <3>1. totalLength(queue') = totalLength(queue) + Length[e]
      BY <1>1, <2>1, TotalFacts
    <3>2. totalLength(queue) \in Nat /\ Length[e] \in Nat /\ MaxLength \in Nat
      BY <2>1, TotalFacts, EmbedQueueAssumption
    <3> QED
      BY <2>1, <3>1, <3>2
  <2>3. \A p \in Embeds : /\ callback'[p] = "sending" => callback[p] = "sending"
                          /\ call'[p] = "flushing" => call[p] = "flushing"
    BY <1>1, <1>2 DEF IInv, TypeOK
  <2> QED
    BY <1>1, <2>2, <2>3 DEF IInv, LengthsChecked
<1> QED
  BY <1>3, <1>4, <1>7, <1>8, <1>9, <1>10 DEF IInv

\* A caller that takes a full queue.
LEMMA OverflowStep ==
    ASSUME IInv, NEW e \in Embeds, Overflow(e)
    PROVE  IInv'
<1>1. /\ call[e] = "idle"
      /\ \A d \in Embeds : call[d] # "flushing"
      /\ call' = [call EXCEPT ![e] = "flushing"]
      /\ batch' = [batch EXCEPT ![e] = queue]
      /\ queue' = <<>>
      /\ timer' = NoTimer
      /\ UNCHANGED <<up, outcome>>
  BY DEF Overflow, Locked
<1>2. callback' = [c \in Embeds |->
                     IF c = timer /\ callback[c] = "armed" THEN "ended" ELSE callback[c]]
  BY DEF Overflow
<1>3. callback[e] = "unarmed" /\ outcome[e] = "none" /\ batch[e] = <<>>
  BY <1>1 DEF IInv, TypeOK, LockDiscipline
<1>4. TypeOK'
  BY <1>1, <1>2, EmptyFacts DEF IInv, TypeOK, CallState, CallbackState
<1>5. LockDiscipline'
  <2>1. \A c \in Embeds : /\ callback'[c] = "unarmed" <=> callback[c] = "unarmed"
                          /\ callback[c] = "sending" => callback'[c] = "sending"
    BY <1>2
  <2> QED
    BY <1>1, <1>3, <2>1 DEF IInv, TypeOK, LockDiscipline
<1>6. HeldOnceUntilPosted'
  <2>1. \A d : ~In(d, queue') /\ (In(d, batch'[e]) <=> In(d, queue))
    BY <1>1, EmptyFacts DEF IInv, TypeOK
  <2>2. \A p \in Embeds : p # e => batch'[p] = batch[p]
    BY <1>1 DEF IInv, TypeOK
  <2>3. \A d \in Embeds : Held(d)' <=> Held(d)
    BY <1>3, <2>1, <2>2, EmptyFacts DEF Held
  <2>4. \A d \in Embeds : call'[d] = "returned" <=> call[d] = "returned"
    BY <1>1 DEF IInv, TypeOK
  <2>5. NoDuplicates(queue') /\ \A p \in Embeds : NoDuplicates(batch'[p])
    BY <1>1, <2>2, EmptyFacts DEF IInv, TypeOK, HeldOnceUntilPosted
  <2> QED
    BY <1>1, <2>1, <2>2, <2>3, <2>4, <2>5 DEF IInv, HeldOnceUntilPosted
<1>7. BatchesBounded'
  BY <1>1, EmptyFacts, EmbedQueueAssumption DEF IInv, TypeOK, BatchesBounded
<1>8. QueuedMeansTimerPending'
  BY <1>1 DEF QueuedMeansTimerPending
<1>9. LengthsChecked'
  <2>1. queue = <<>> => Length[e] >= MaxLength
    <3>1. queue = <<>> => totalLength(queue) = 0 /\ Len(queue) = 0
      BY TotalFacts, EmptyFacts
    <3>2. \/ totalLength(queue) + Length[e] >= MaxLength
          \/ Len(queue) >= MaxEmbeds
      BY DEF Overflow, Overflows
    <3> QED
      BY <3>1, <3>2, EmbedQueueAssumption
  <2>2. \A p \in Embeds : /\ callback'[p] = "sending" <=> callback[p] = "sending"
                          /\ p # e => batch'[p] = batch[p] /\ call'[p] = call[p]
                          /\ p = e => batch'[p] = queue
    BY <1>1, <1>2 DEF IInv, TypeOK
  <2> QED
    BY <1>1, <1>3, <2>1, <2>2, EmptyFacts DEF IInv, LengthsChecked
<1> QED
  BY <1>4, <1>5, <1>6, <1>7, <1>8, <1>9 DEF IInv

\* What the end of a post leaves: the embeds of p's batch are resolved and held
\* no longer, the others are as before.
LEMMA PostFacts ==
    ASSUME IInv, NEW p \in Embeds, Post(batch[p]), batch' = [batch EXCEPT ![p] = <<>>]
    PROVE  /\ outcome' \in [Embeds -> Outcome]
           /\ \A d \in Embeds : outcome'[d] = "none" <=> outcome[d] = "none" /\ ~In(d, batch[p])
           /\ \A d : ~In(d, batch'[p])
           /\ \A q \in Embeds : q # p => batch'[q] = batch[q]
<1>1. PICK result \in {"delivered", "failed"} :
        outcome' = [d \in Embeds |-> IF In(d, batch[p]) THEN result ELSE outcome[d]]
  BY DEF Post
<1>2. outcome' \in [Embeds -> Outcome]
  BY <1>1 DEF IInv, TypeOK, Outcome
<1>3. \A d \in Embeds : outcome'[d] = "none" <=> outcome[d] = "none" /\ ~In(d, batch[p])
  BY <1>1
<1> QED
  BY <1>2, <1>3, EmptyFacts DEF IInv, TypeOK

\* Posting resolves what was held in one place and leaves the rest in place.
LEMMA PostKeepsPlaces ==
    ASSUME IInv, NEW p \in Embeds, Post(batch[p]), batch' = [batch EXCEPT ![p] = <<>>]
    PROVE  /\ \A q \in Embeds : NoDuplicates(batch'[q])
           /\ \A q, d \in Embeds :
                 In(d, batch'[q]) => /\ ~In(d, queue)
                                     /\ outcome'[d] = "none"
                                     /\ \A r \in Embeds : In(d, batch'[r]) => q = r
           /\ \A d \in Embeds :
                 call[d] = "returned" /\ outcome'[d] = "none" =>
                     In(d, queue) \/ \E q \in Embeds : In(d, batch'[q])
           /\ \A d \in Embeds : In(d, queue) => outcome'[d] = "none"
<1>1. /\ \A d \in Embeds : outcome'[d] = "none" <=> outcome[d] = "none" /\ ~In(d, batch[p])
      /\ \A d : ~In(d, batch'[p])
      /\ \A q \in Embeds : q # p => batch'[q] = batch[q]
      /\ batch'[p] = <<>>
  BY PostFacts DEF IInv, TypeOK
<1>2. \A q \in Embeds : NoDuplicates(batch'[q])
  BY <1>1, EmptyFacts DEF IInv, HeldOnceUntilPosted
<1>3. \A q, d \in Embeds :
        In(d, batch'[q]) => q # p /\ In(d, batch[q]) /\ ~In(d, batch[p])
  BY <1>1 DEF IInv, HeldOnceUntilPosted
<1>4. \A d \in Embeds : In(d, queue) => ~In(d, batch[p])
  BY DEF IInv, HeldOnceUntilPosted
<1>5. \A d \in Embeds : Held(d) => outcome[d] = "none"
  BY DEF IInv, HeldOnceUntilPosted
<1>6. \A d \in Embeds :
        call[d] = "returned" /\ outcome'[d] = "none" =>
            In(d, queue) \/ \E q \in Embeds : q # p /\ In(d, batch[q])
  BY <1>1 DEF IInv, HeldOnceUntilPosted, Held
<1> QED
  BY <1>1, <1>2, <1>3, <1>4, <1>5, <1>6 DEF IInv, HeldOnceUntilPosted, Held

\* The overflowing caller's post returns.
LEMMA FlushReturnsStep ==
    ASSUME IInv, NEW e \in Embeds, FlushReturns(e)
    PROVE  IInv'
<1>1. /\ call[e] = "flushing"
      /\ Post(batch[e])
      /\ batch' = [batch EXCEPT ![e] = <<>>]
      /\ call' = [call EXCEPT ![e] = "returned"]
      /\ queue' = Append(queue, e)
      /\ UNCHANGED up
  BY DEF FlushReturns, AppendAndArm
<1>2. queue = <<>> /\ timer = NoTimer /\ \A d \in Embeds : call[d] = "flushing" => d = e
  BY <1>1 DEF IInv, LockDiscipline
<1>3. timer' = e /\ callback' = [callback EXCEPT ![e] = "armed"]
  BY <1>2 DEF FlushReturns, AppendAndArm
<1>4. callback[e] = "unarmed" /\ outcome[e] = "none" /\ ~Held(e)
  BY <1>1 DEF IInv, TypeOK, LockDiscipline, HeldOnceUntilPosted
<1>5. /\ queue' \in Seq(Embeds)
      /\ Len(queue') = 1
      /\ \A d : In(d, queue') <=> d = e
      /\ NoDuplicates(queue')
  <2>1. queue \in Seq(Embeds) /\ Len(queue) = 0 /\ \A d : ~In(d, queue)
    BY <1>2, EmptyFacts DEF IInv, TypeOK
  <2>2. NoDuplicates(queue)
    BY DEF IInv, HeldOnceUntilPosted
  <2>3. /\ Append(queue, e) \in Seq(Embeds)
        /\ Len(Append(queue, e)) = Len(queue) + 1
        /\ \A d : In(d, Append(queue, e)) <=> In(d, queue) \/ d = e
        /\ NoDuplicates(queue) /\ ~In(e, queue) => NoDuplicates(Append(queue, e))
    BY <2>1, AppendFacts
  <2> QED
    BY <1>1, <2>1, <2>2, <2>3
<1>6. TypeOK'
  BY <1>1, <1>3, <1>5, PostFacts, EmptyFacts DEF IInv, TypeOK, CallState, CallbackState
<1>7. LockDiscipline'
  <2>1. \A d \in Embeds : call'[d] # "flushing"
    BY <1>1, <1>2 DEF IInv, TypeOK
  <2>2. \A p \in Embeds : batch'[p] # <<>> => callback'[p] = "sending"
    BY <1>1, <1>2, <1>3 DEF IInv, TypeOK, LockDiscipline
  <2>3. \A d \in Embeds : In(d, batch[e]) => call[d] = "returned"
    BY DEF IInv, HeldOnceUntilPosted, Held
  <2>4. \A d \in Embeds : outcome'[d] # "none" => call'[d] = "returned"
    BY <1>1, <2>3, PostFacts DEF IInv, TypeOK, LockDiscipline
  <2>5. \A d \in Embeds : callback'[d] # "unarmed" => call'[d] = "returned"
    BY <1>1, <1>3 DEF IInv, TypeOK, LockDiscipline
  <2> QED
    BY <2>1, <2>2, <2>4, <2>5 DEF LockDiscipline
<1>8. HeldOnceUntilPosted'
  <2>1. /\ outcome'[e] = "none"
        /\ \A p \in Embeds : ~In(e, batch'[p])
    BY <1>1, <1>4, PostFacts DEF Held
  <2>2. \A d \in Embeds : call'[d] = "returned" <=> call[d] = "returned" \/ d = e
    BY <1>1 DEF IInv, TypeOK
  <2>3. \A q, d \in Embeds : In(d, batch'[q]) => call[d] = "returned"
    BY <1>1, PostFacts DEF IInv, HeldOnceUntilPosted, Held
  <2>4. \A d : ~In(d, queue)
    BY <1>2, EmptyFacts
  <2>5. /\ \A q \in Embeds : NoDuplicates(batch'[q])
        /\ \A q, d \in Embeds :
              In(d, batch'[q]) => /\ outcome'[d] = "none"
                                  /\ \A r \in Embeds : In(d, batch'[r]) => q = r
        /\ \A d \in Embeds :
              call[d] = "returned" /\ outcome'[d] = "none" =>
                  \E q \in Embeds : In(d, batch'[q])
    BY <1>1, <2>4, PostKeepsPlaces
  <2>6. \A d \in Embeds : Held(d)' <=> call'[d] = "returned" /\ outcome'[d] = "none"
    BY <1>5, <2>1, <2>2, <2>3, <2>5 DEF Held
  <2>7. \A p, d \in Embeds : In(d, batch'[p]) => ~In(d, queue')
    BY <1>5, <2>1
  <2> QED
    BY <1>5, <2>5, <2>6, <2>7 DEF HeldOnceUntilPosted
<1>9. BatchesBounded'
  BY <1>1, <1>5, EmptyFacts, EmbedQueueAssumption DEF IInv, TypeOK, BatchesBounded
<1>10. QueuedMeansTimerPending'
  BY <1>3, EmbedQueueAssumption DEF IInv, TypeOK, QueuedMeansTimerPending
<1>11. LengthsChecked'
  <2>1. \A p \in Embeds : /\ p # e => batch'[p] = batch[p] /\ call'[p] = call[p] /\ callback'[p] = callback[p]
                          /\ p = e => batch'[p] = <<>> /\ call'[p] = "returned" /\ callback'[p] = "armed"
    BY <1>1, <1>3 DEF IInv, TypeOK
  <2> QED
    BY <1>5, <2>1, EmptyFacts DEF IInv, LengthsChecked
<1> QED
  BY <1>6, <1>7, <1>8, <1>9, <1>10, <1>11 DEF IInv

\* A callback takes the slice.
LEMMA CollectStep ==
    ASSUME IInv, NEW e \in Embeds, Collect(e)
    PROVE  IInv'
<1>1. /\ callback[e] = "fired"
      /\ \A d \in Embeds : call[d] # "flushing"
      /\ timer' = NoTimer
      /\ queue' = <<>>
      /\ batch' = [batch EXCEPT ![e] = queue]
      /\ callback' = [callback EXCEPT ![e] = IF queue = <<>> THEN "ended" ELSE "sending"]
      /\ UNCHANGED <<up, call, outcome>>
  BY DEF Collect, Locked
<1>2. call[e] = "returned" /\ batch[e] = <<>>
  BY <1>1 DEF IInv, TypeOK, LockDiscipline
<1>3. TypeOK'
  BY <1>1, EmptyFacts DEF IInv, TypeOK, CallbackState
<1>4. LockDiscipline'
  BY <1>1, <1>2 DEF IInv, TypeOK, LockDiscipline
<1>5. HeldOnceUntilPosted'
  <2>1. \A d : ~In(d, queue') /\ (In(d, batch'[e]) <=> In(d, queue))
    BY <1>1, EmptyFacts DEF IInv, TypeOK
  <2>2. \A p \in Embeds : p # e => batch'[p] = batch[p]
    BY <1>1 DEF IInv, TypeOK
  <2>3. \A d \in Embeds : Held(d)' <=> Held(d)
    BY <1>2, <2>1, <2>2, EmptyFacts DEF Held
  <2>4. NoDuplicates(queue') /\ \A p \in Embeds : NoDuplicates(batch'[p])
    BY <1>1, <2>2, EmptyFacts DEF IInv, TypeOK, HeldOnceUntilPosted
  <2> QED
    BY <1>1, <2>1, <2>2, <2>3, <2>4 DEF IInv, HeldOnceUntilPosted
<1>6. BatchesBounded'
  BY <1>1, EmptyFacts, EmbedQueueAssumption DEF IInv, TypeOK, BatchesBounded
<1>7. QueuedMeansTimerPending'
  BY <1>1 DEF QueuedMeansTimerPending
<1>8. LengthsChecked'
  <2>1. \A p \in Embeds : /\ p # e => batch'[p] = batch[p] /\ callback'[p] = callback[p]
                          /\ p = e => batch'[p] = queue /\ (callback'[p] = "sending" => queue # <<>>)
    BY <1>1 DEF IInv, TypeOK
  <2> QED
    BY <1>1, <1>2, <2>1, EmptyFacts DEF IInv, LengthsChecked
<1> QED
  BY <1>3, <1>4, <1>5, <1>6, <1>7, <1>8 DEF IInv

\* A callback's post returns.
LEMMA CallbackReturnsStep ==
    ASSUME IInv, NEW e \in Embeds, CallbackReturns(e)
    PROVE  IInv'
<1>1. /\ callback[e] = "sending"
      /\ Post(batch[e])
      /\ batch' = [batch EXCEPT ![e] = <<>>]
      /\ callback' = [callback EXCEPT ![e] = "ended"]
      /\ UNCHANGED <<up, call, queue, timer>>
  BY DEF CallbackReturns
<1>2. TypeOK'
  BY <1>1, PostFacts, EmptyFacts DEF IInv, TypeOK, CallbackState
<1>3. LockDiscipline'
  <2>1. \A d \in Embeds : In(d, batch[e]) => call[d] = "returned"
    BY DEF IInv, HeldOnceUntilPosted, Held
  <2>2. \A d \in Embeds : outcome'[d] # "none" => call'[d] = "returned"
    BY <1>1, <2>1, PostFacts DEF IInv, LockDiscipline
  <2>3. \A p \in Embeds :
          batch'[p] # <<>> => call'[p] = "flushing" \/ callback'[p] = "sending"
    BY <1>1 DEF IInv, TypeOK, LockDiscipline
  <2>4. \A d \in Embeds : callback'[d] # "unarmed" => call'[d] = "returned"
    BY <1>1 DEF IInv, TypeOK, LockDiscipline
  <2> QED
    BY <1>1, <2>2, <2>3, <2>4 DEF IInv, LockDiscipline
<1>4. HeldOnceUntilPosted'
  <2>1. \A q, d \in Embeds : In(d, batch'[q]) => call[d] = "returned"
    BY <1>1, PostFacts DEF IInv, HeldOnceUntilPosted, Held
  <2>2. \A d \in Embeds : In(d, queue) => call[d] = "returned"
    BY DEF IInv, HeldOnceUntilPosted, Held
  <2> QED
    BY <1>1, <2>1, <2>2, PostKeepsPlaces DEF IInv, HeldOnceUntilPosted, Held
<1>5. BatchesBounded'
  BY <1>1, EmptyFacts, EmbedQueueAssumption DEF IInv, TypeOK, BatchesBounded
<1>6. QueuedMeansTimerPending'
  BY <1>1, EmbedQueueAssumption DEF IInv, TypeOK, QueuedMeansTimerPending
<1>7. LengthsChecked'
  <2>1. \A p \in Embeds : /\ p # e => batch'[p] = batch[p] /\ callback'[p] = callback[p]
                          /\ p = e => batch'[p] = <<>> /\ callback'[p] = "ended"
    BY <1>1 DEF IInv, TypeOK
  <2>2. call[e] # "flushing"
    BY <1>1 DEF IInv, LockDiscipline
  <2> QED
    BY <1>1, <2>1, <2>2, EmptyFacts DEF IInv, LengthsChecked
<1> QED
  BY <1>2, <1>3, <1>4, <1>5, <1>6, <1>7 DEF IInv

\* A timer fires, the process stops, or nothing happens.
LEMMA OtherSteps ==
    ASSUME IInv,
           (\E e \in Embeds : TimerFires(e)) \/ Shutdown \/ UNCHANGED vars
    PROVE  IInv'
<1>1. CASE UNCHANGED vars
  BY <1>1 DEF IInv, TypeOK, LockDiscipline, HeldOnceUntilPosted, BatchesBounded,
              QueuedMeansTimerPending, LengthsChecked, Held, In, NoDuplicates, vars
<1>2. CASE Shutdown
  <2>1. up' \in BOOLEAN
    BY <1>2 DEF Shutdown
  <2>2. UNCHANGED <<call, queue, timer, callback, batch, outcome>>
    BY <1>2 DEF Shutdown
  <2> QED
    BY <2>1, <2>2 DEF IInv, TypeOK, LockDiscipline, HeldOnceUntilPosted, BatchesBounded,
                      QueuedMeansTimerPending, LengthsChecked, Held, In, NoDuplicates
<1>3. CASE \E e \in Embeds : TimerFires(e)
  <2>1. PICK e \in Embeds : TimerFires(e)
    BY <1>3
  <2>2. TypeOK'
    BY <2>1 DEF IInv, TypeOK, CallbackState, TimerFires
  <2>3. LockDiscipline'
    BY <2>1 DEF IInv, TypeOK, LockDiscipline, TimerFires
  <2>4. HeldOnceUntilPosted' /\ BatchesBounded'
    <3>1. UNCHANGED <<call, queue, batch, outcome>>
      BY <2>1 DEF TimerFires
    <3>2. HeldOnceUntilPosted'
      BY <3>1 DEF IInv, HeldOnceUntilPosted, Held, In, NoDuplicates
    <3>3. BatchesBounded'
      BY <3>1 DEF IInv, BatchesBounded
    <3> QED
      BY <3>2, <3>3
  <2>5. QueuedMeansTimerPending'
    BY <2>1 DEF IInv, TypeOK, QueuedMeansTimerPending, TimerFires
  <2>6. LengthsChecked'
    BY <2>1 DEF IInv, TypeOK, LengthsChecked, TimerFires
  <2> QED
    BY <2>2, <2>3, <2>4, <2>5, <2>6 DEF IInv
<1> QED
  BY <1>1, <1>2, <1>3

-----------------------------------------------------------------------------
\* Every state that bot.queue and its callbacks can reach satisfies IInv.
THEOREM Invariance == Spec => []IInv
<1>1. ASSUME IInv, [Next]_vars PROVE IInv'
  BY <1>1, EnqueueStep, OverflowStep, FlushReturnsStep, CollectStep,
     CallbackReturnsStep, OtherSteps DEF Next
<1> QED
  BY InitInvariant, <1>1, PTL DEF Spec

\* The state of a webhook's queue is always well formed.
THEOREM TypeCorrect == Spec => []TypeOK
<1>1. IInv => TypeOK
  BY DEF IInv
<1> QED
  BY Invariance, <1>1, PTL

\* Whatever the interleaving of callers and callbacks, an embed that bot.queue
\* has taken is held in exactly one place until its post has ended.
THEOREM NothingLostOrDoubled == Spec => []HeldOnceUntilPosted
<1>1. IInv => HeldOnceUntilPosted
  BY DEF IInv
<1> QED
  BY Invariance, <1>1, PTL

\* No post carries more than MaxEmbeds embeds.
THEOREM PostsBounded == Spec => []BatchesBounded
<1>1. IInv => BatchesBounded
  BY DEF IInv
<1> QED
  BY Invariance, <1>1, PTL

\* No embed waits without a timer that will flush it.
THEOREM TimerNeverForgotten == Spec => []QueuedMeansTimerPending
<1>1. IInv => QueuedMeansTimerPending
  BY DEF IInv
<1> QED
  BY Invariance, <1>1, PTL

\* A post is one that Discord takes, unless it carries an embed that is too long on
\* its own, or is the empty one that such an embed's caller makes (queue.go:146).
THEOREM OnlyLongEmbedsRefused == Spec => []OnlyOversizeEmbedsRefused
<1>1. ASSUME IInv, NEW p \in Embeds, call[p] = "flushing" \/ callback[p] = "sending"
      PROVE  \/ Postable(batch[p])
             \/ batch[p] = <<>> /\ Length[p] >= MaxLength
             \/ Len(batch[p]) = 1 /\ Length[batch[p][1]] > MaxLength
  <2>1. batch[p] \in Seq(Embeds) /\ Len(batch[p]) \in Nat
    BY <1>1 DEF IInv, TypeOK
  <2>2. CASE batch[p] = <<>>
    BY <1>1, <2>2 DEF IInv, LengthsChecked
  <2>3. CASE Len(batch[p]) = 1
    <3> DEFINE d == batch[p][1]
    <3>1. d \in Embeds /\ batch[p] = Append(<<>>, d) /\ <<>> \in Seq(Embeds)
      BY <2>1, <2>3
    <3>2. totalLength(batch[p]) = totalLength(<<>>) + Length[d] /\ totalLength(<<>>) = 0
      BY <3>1, TotalFacts
    <3>3. Length[d] \in Nat /\ MaxLength \in Nat /\ batch[p] # <<>>
      BY <2>3, <3>1, EmptyFacts, EmbedQueueAssumption
    <3> HIDE DEF d
    <3>4. totalLength(batch[p]) <= MaxLength \/ Length[d] > MaxLength
      BY <3>2, <3>3
    <3> QED
      BY <2>3, <3>3, <3>4 DEF Postable, d
  <2>4. CASE Len(batch[p]) > 1
    BY <1>1, <2>4, EmptyFacts DEF IInv, LengthsChecked, Postable
  <2>5. Len(batch[p]) = 0 => batch[p] = <<>>
    BY <2>1
  <2>6. Len(batch[p]) = 0 \/ Len(batch[p]) = 1 \/ Len(batch[p]) > 1
    <3>1. \A n \in Nat : n = 0 \/ n = 1 \/ n > 1
      OBVIOUS
    <3> QED
      BY <2>1, <3>1, Zenon
  <2> QED
    BY <2>2, <2>3, <2>4, <2>5, <2>6, Zenon
<1>2. IInv => OnlyOversizeEmbedsRefused
  BY <1>1 DEF OnlyOversizeEmbedsRefused
<1> QED
  BY Invariance, <1>2, PTL

-----------------------------------------------------------------------------
\* The abstract status, as module LogDelivery sees it.
AbsStatus == [e \in Embeds |-> Status(e)]

\* A slice of at most MaxEmbeds embeds holds at most MaxEmbeds different ones.
LEMMA BatchCardinality ==
    ASSUME NEW s \in Seq(Embeds), Len(s) <= MaxEmbeds
    PROVE  Cardinality({d \in Embeds : In(d, s)}) <= MaxEmbeds
<1> DEFINE T == {d \in Embeds : In(d, s)}
<1>1. s \in Surjection(1..Len(s), T)
  BY DEF Surjection, In
<1>2. /\ Len(s) \in Nat
      /\ IsFiniteSet(1..Len(s))
      /\ Cardinality(1..Len(s)) = IF 1 > Len(s) THEN 0 ELSE Len(s) - 1 + 1
  <2>1. Len(s) \in Nat
    OBVIOUS
  <2> QED
    BY <2>1, FS_Interval
<1>3. IsFiniteSet(T) /\ Cardinality(T) <= Cardinality(1..Len(s))
  <2> HIDE DEF T
  <2> QED
    BY <1>1, <1>2, FS_Surjection
<1>4. Cardinality(T) \in Nat
  BY <1>3, FS_CardinalityType
<1> QED
  BY <1>2, <1>3, <1>4, EmbedQueueAssumption

\* A post that ends is one abstract Post, or none when it carried no embed.
LEMMA PostSimulation ==
    ASSUME IInv, NEW p \in Embeds, Post(batch[p]), up, UNCHANGED up,
           \A d \in Embeds : call'[d] = "idle" <=> call[d] = "idle"
    PROVE  [LD!Next]_(LD!vars)
<1> DEFINE B == {d \in Embeds : In(d, batch[p])}
<1>1. PICK result \in {"delivered", "failed"} :
        outcome' = [d \in Embeds |-> IF In(d, batch[p]) THEN result ELSE outcome[d]]
  BY DEF Post
<1>2. \A d \in B : Status(d) = "accepted"
  BY DEF IInv, TypeOK, HeldOnceUntilPosted, Held, Status, Outcome
<1>3. \A d \in Embeds \ B : Status(d)' = Status(d)
  BY <1>1 DEF Status
<1>4. \A d \in B : Status(d)' = IF result = "delivered" THEN "delivered" ELSE "dropped"
  BY <1>1 DEF Status, Resolution
<1>5. CASE B = {}
  BY <1>3, <1>5 DEF LD!vars
<1>6. CASE B # {}
  <2>1. Cardinality(B) <= MaxEmbeds
    BY BatchCardinality DEF IInv, TypeOK, BatchesBounded
  <2>2. AbsStatus' = [d \in Embeds |->
                        IF d \in B THEN IF result = "delivered" THEN "delivered" ELSE "dropped"
                                   ELSE AbsStatus[d]]
    BY <1>3, <1>4 DEF AbsStatus
  <2>3. \E r \in {"delivered", "dropped"} :
          AbsStatus' = [d \in Embeds |-> IF d \in B THEN r ELSE AbsStatus[d]]
    BY <2>2
  <2>4. \A d \in B : AbsStatus[d] = "accepted"
    BY <1>2 DEF AbsStatus
  <2>5. LD!Post(B)
    <3> HIDE DEF B
    <3> QED
      BY <1>6, <2>1, <2>3, <2>4 DEF LD!Post, AbsStatus, Cardinality, LD!Cardinality
  <2> QED
    BY <2>5 DEF LD!Next
<1> QED
  BY <1>5, <1>6

\* A step that leaves every status alone is a stutter of the abstract system.
LEMMA StutterSimulation ==
    ASSUME UNCHANGED <<up, outcome>>,
           \A d \in Embeds : call'[d] = "idle" <=> call[d] = "idle"
    PROVE  UNCHANGED LD!vars
BY DEF LD!vars, Status

\* Taking q.mu with an embed is the abstract Accept.
LEMMA AcceptSimulation ==
    ASSUME IInv, NEW e \in Embeds, NEW progress \in {"flushing", "returned"},
           up, call[e] = "idle", call' = [call EXCEPT ![e] = progress],
           UNCHANGED <<up, outcome>>
    PROVE  LD!Accept(e)
<1>1. outcome[e] = "none"
  BY DEF IInv, LockDiscipline
<1>2. Status(e) = "new" /\ Status(e)' = "accepted"
  BY <1>1 DEF IInv, TypeOK, Status
<1>3. \A d \in Embeds : d # e => Status(d)' = Status(d)
  BY DEF IInv, TypeOK, Status
<1> QED
  BY <1>2, <1>3 DEF LD!Accept

\* Every step of bot.queue and its callbacks is a step of LogDelivery or none.
LEMMA StepSimulation ==
    ASSUME IInv, [Next]_vars
    PROVE  [LD!Next]_(LD!vars)
<1>1. ASSUME NEW e \in Embeds, Enqueue(e) \/ Overflow(e) PROVE LD!Next
  <2>1. /\ up /\ call[e] = "idle"
        /\ UNCHANGED <<up, outcome>>
        /\ \E progress \in {"flushing", "returned"} : call' = [call EXCEPT ![e] = progress]
    BY <1>1 DEF Enqueue, Overflow, AppendAndArm
  <2>2. LD!Accept(e)
    BY <2>1, AcceptSimulation
  <2> QED
    BY <2>2 DEF LD!Next
<1>2. ASSUME NEW e \in Embeds, FlushReturns(e) \/ CallbackReturns(e) PROVE [LD!Next]_(LD!vars)
  <2>1. /\ up /\ UNCHANGED up /\ Post(batch[e])
        /\ \A d \in Embeds : call'[d] = "idle" <=> call[d] = "idle"
    BY <1>2 DEF FlushReturns, CallbackReturns, AppendAndArm, IInv, TypeOK
  <2> QED
    BY <2>1, PostSimulation
<1>3. ASSUME NEW e \in Embeds, TimerFires(e) \/ Collect(e) PROVE UNCHANGED LD!vars
  BY <1>3, StutterSimulation DEF TimerFires, Collect
<1>4. ASSUME Shutdown PROVE LD!Next
  BY <1>4 DEF Shutdown, LD!Next, LD!Stop, Status
<1>5. ASSUME UNCHANGED vars PROVE UNCHANGED LD!vars
  BY <1>5, StutterSimulation DEF vars
<1> QED
  BY <1>1, <1>2, <1>3, <1>4, <1>5 DEF Next

\* The safety part of ImplementsLogDelivery, for every set of embeds: what the
\* queue of a webhook does is what LogDelivery allows (batches, at most once).
THEOREM RefinesLogDelivery == Spec => LD!Init /\ [][LD!Next]_(LD!vars)
<1>1. Init => LD!Init
  BY DEF Init, LD!Init, Status
<1> QED
  BY <1>1, StepSimulation, Invariance, PTL DEF Spec

-----------------------------------------------------------------------------
(* Metrics: sums over sets, counters that wrap, and the counts on their way. *)

\* Some set of a collection of finite sets has no part in it that is one element smaller.
LEMMA Smallest ==
    ASSUME NEW S, IsFiniteSet(S), NEW Bad \in SUBSET (SUBSET S), Bad # {}
    PROVE  \E T \in Bad : \A x \in T : T \ {x} \notin Bad
<1> DEFINE Sizes == {Cardinality(T) : T \in Bad}
<1>1. \A T \in SUBSET S : IsFiniteSet(T) /\ Cardinality(T) \in Nat
  BY FS_Subset, FS_CardinalityType
<1>2. Sizes \in SUBSET Nat /\ Sizes # {}
  BY <1>1
<1>3. PICK n \in Sizes : \A m \in Sizes : n <= m
  <2> HIDE DEF Sizes
  <2> QED
    BY <1>2, Least
<1>4. PICK T \in Bad : Cardinality(T) = n
  OBVIOUS
<1>5. ASSUME NEW x \in T PROVE T \ {x} \notin Bad
  <2>1. Cardinality(T \ {x}) = Cardinality(T) - 1
    BY <1>1, <1>4, FS_RemoveElement
  <2>2. T \ {x} \in Bad => Cardinality(T \ {x}) \in Sizes
    OBVIOUS
  <2> QED
    BY <1>1, <1>3, <1>4, <2>1, <2>2
<1> QED
  BY <1>5

\* A collection of subsets of a finite set that holds the empty one, and with each of its
\* sets those that have one element more, holds the set itself.
LEMMA FiniteInduction ==
    ASSUME NEW S, IsFiniteSet(S), NEW Good \in SUBSET (SUBSET S), {} \in Good,
           \A T \in Good : \A x \in S \ T : T \cup {x} \in Good
    PROVE  S \in Good
<1> SUFFICES ASSUME S \notin Good PROVE FALSE
  OBVIOUS
<1> DEFINE Bad == (SUBSET S) \ Good
<1>1. PICK T \in Bad : \A x \in T : T \ {x} \notin Bad
  <2>1. Bad \in SUBSET (SUBSET S) /\ Bad # {}
    OBVIOUS
  <2> HIDE DEF Bad
  <2> QED
    BY <2>1, Smallest
<1>2. PICK x \in T : TRUE
  BY <1>1
<1>3. T \ {x} \in Good
  BY <1>1
<1>4. (T \ {x}) \cup {x} = T /\ x \in S \ (T \ {x})
  BY <1>1
<1> QED
  BY <1>1, <1>3, <1>4

\* g has the sums of f over the subsets of S, whichever element is added last.
Adds(f, S, g) ==
    /\ g \in [SUBSET S -> Nat]
    /\ g[{}] = 0
    /\ \A T \in SUBSET S : \A x \in T : g[T] = f[x] + g[T \ {x}]

LEMMA AddsExists ==
    ASSUME NEW S, IsFiniteSet(S), NEW f, \A x \in S : f[x] \in Nat
    PROVE  \E g : Adds(f, S, g)
<1> DEFINE Good == {T \in SUBSET S : \E g : Adds(f, T, g)}
<1>1. {} \in Good
  <2>1. Adds(f, {}, [T \in SUBSET {} |-> 0])
    BY DEF Adds
  <2> QED
    BY <2>1
<1>2. ASSUME NEW T \in Good, NEW x \in S \ T PROVE T \cup {x} \in Good
  <2>1. PICK g : Adds(f, T, g)
    OBVIOUS
  <2> DEFINE h == [U \in SUBSET (T \cup {x}) |-> IF x \in U THEN f[x] + g[U \ {x}] ELSE g[U]]
  <2>2. \A U \in SUBSET (T \cup {x}) : U \ {x} \in SUBSET T /\ (x \notin U => U \in SUBSET T)
    OBVIOUS
  <2>3. \A U \in SUBSET T : g[U] \in Nat
    BY <2>1 DEF Adds
  <2>4. \A y \in T \cup {x} : f[y] \in Nat
    OBVIOUS
  <2>5. h \in [SUBSET (T \cup {x}) -> Nat]
    BY <2>2, <2>3, <2>4
  <2>6. h[{}] = 0
    BY <2>1 DEF Adds
  <2>7. ASSUME NEW U \in SUBSET (T \cup {x}), NEW y \in U PROVE h[U] = f[y] + h[U \ {y}]
    <3>0. U \ {y} \in SUBSET (T \cup {x})
      OBVIOUS
    <3>1. CASE y = x
      BY <3>0, <3>1
    <3>2. CASE y # x /\ x \in U
      <4>1. h[U] = f[x] + g[U \ {x}] /\ h[U \ {y}] = f[x] + g[(U \ {y}) \ {x}]
        BY <3>0, <3>2
      <4>2. U \ {x} \in SUBSET T /\ y \in U \ {x} /\ (U \ {y}) \ {x} = (U \ {x}) \ {y}
        BY <3>2
      <4>3. g[U \ {x}] = f[y] + g[(U \ {x}) \ {y}]
        BY <2>1, <4>2 DEF Adds
      <4>4. f[x] \in Nat /\ f[y] \in Nat /\ g[(U \ {x}) \ {y}] \in Nat
        BY <2>3, <2>4, <4>2
      <4>5. g[(U \ {y}) \ {x}] = g[(U \ {x}) \ {y}]
        BY <4>2
      <4> HIDE DEF h
      <4> QED
        BY <4>1, <4>3, <4>4, <4>5
    <3>3. CASE x \notin U
      <4>1. h[U] = g[U] /\ h[U \ {y}] = g[U \ {y}] /\ U \in SUBSET T
        BY <3>0, <3>3
      <4> HIDE DEF h
      <4> QED
        BY <2>1, <4>1 DEF Adds
    <3> QED
      BY <3>1, <3>2, <3>3
  <2>8. Adds(f, T \cup {x}, h)
    BY <2>5, <2>6, <2>7 DEF Adds
  <2> QED
    BY <2>8
<1>3. S \in Good
  <2>1. Good \in SUBSET (SUBSET S)
    OBVIOUS
  <2> HIDE DEF Good
  <2> QED
    BY <1>1, <1>2, <2>1, FiniteInduction
<1> QED
  BY <1>3

\* The recursion by which FiniteSetsExt folds f over S.
Pick(T) == CHOOSE x \in T : TRUE

FoldsTo(f, S, g) ==
    g = [T \in SUBSET S |-> IF T = {} THEN 0 ELSE f[Pick(T)] + g[T \ {Pick(T)}]]

LEMMA TotalIsFold ==
    ASSUME NEW f, NEW S
    PROVE  Total(f, S) = (CHOOSE g : FoldsTo(f, S, g))[S]
BY DEF Total, MapThenSumSet, MapThenFoldSet, FoldsTo, Pick

LEMMA PickFacts ==
    ASSUME NEW T, T # {}
    PROVE  Pick(T) \in T
BY DEF Pick

LEMMA AddsFolds ==
    ASSUME NEW S, NEW f, NEW g, Adds(f, S, g)
    PROVE  FoldsTo(f, S, g)
<1>1. ASSUME NEW T \in SUBSET S
      PROVE  g[T] = IF T = {} THEN 0 ELSE f[Pick(T)] + g[T \ {Pick(T)}]
  BY PickFacts DEF Adds
<1>2. g = [T \in SUBSET S |-> g[T]]
  BY DEF Adds
<1> QED
  BY <1>1, <1>2 DEF FoldsTo

LEMMA FoldUnique ==
    ASSUME NEW S, IsFiniteSet(S), NEW f, NEW g, NEW h, Adds(f, S, g), FoldsTo(f, S, h)
    PROVE  g[S] = h[S]
<1> SUFFICES ASSUME g[S] # h[S] PROVE FALSE
  OBVIOUS
<1> DEFINE Bad == {T \in SUBSET S : g[T] # h[T]}
<1>1. PICK T \in Bad : \A x \in T : T \ {x} \notin Bad
  <2>1. Bad \in SUBSET (SUBSET S) /\ Bad # {}
    OBVIOUS
  <2> HIDE DEF Bad
  <2> QED
    BY <2>1, Smallest
<1>2. /\ g[T] = IF T = {} THEN 0 ELSE f[Pick(T)] + g[T \ {Pick(T)}]
      /\ h[T] = IF T = {} THEN 0 ELSE f[Pick(T)] + h[T \ {Pick(T)}]
  <2>1. FoldsTo(f, S, g)
    BY AddsFolds
  <2>2. T \in SUBSET S
    OBVIOUS
  <2>3. \A k : FoldsTo(f, S, k) =>
            k[T] = IF T = {} THEN 0 ELSE f[Pick(T)] + k[T \ {Pick(T)}]
    BY <2>2 DEF FoldsTo
  <2> QED
    BY <2>1, <2>3
<1>3. T # {} => g[T \ {Pick(T)}] = h[T \ {Pick(T)}]
  BY <1>1, PickFacts
<1> QED
  BY <1>1, <1>2, <1>3

\* What the sums of this module rest on.
LEMMA TotalOverSet ==
    ASSUME NEW S, IsFiniteSet(S), NEW f, \A x \in S : f[x] \in Nat
    PROVE  /\ Total(f, S) \in Nat
           /\ Total(f, {}) = 0
           /\ \A T \in SUBSET S : Total(f, T) \in Nat
           /\ \A T \in SUBSET S : \A x \in T : Total(f, T) = f[x] + Total(f, T \ {x})
<1>1. PICK g : Adds(f, S, g)
  BY AddsExists
<1>2. ASSUME NEW T \in SUBSET S PROVE Total(f, T) = g[T]
  <2> DEFINE k == [U \in SUBSET T |-> g[U]]
  <2>1. Adds(f, T, k)
    <3>1. k \in [SUBSET T -> Nat] /\ k[{}] = 0
      BY <1>1 DEF Adds
    <3>2. ASSUME NEW U \in SUBSET T, NEW x \in U PROVE k[U] = f[x] + k[U \ {x}]
      BY <1>1 DEF Adds
    <3> QED
      BY <3>1, <3>2 DEF Adds
  <2>2. k[T] = g[T]
    OBVIOUS
  <2> HIDE DEF k
  <2>3. \E h : FoldsTo(f, T, h)
    BY <2>1, AddsFolds
  <2>4. FoldsTo(f, T, CHOOSE h : FoldsTo(f, T, h))
    BY <2>3
  <2>5. IsFiniteSet(T)
    BY FS_Subset
  <2>6. k[T] = (CHOOSE h : FoldsTo(f, T, h))[T]
    BY <2>1, <2>4, <2>5, FoldUnique
  <2> QED
    BY <2>2, <2>6, TotalIsFold
<1> QED
  BY <1>1, <1>2 DEF Adds

\* Only the values matter.
LEMMA TotalEqual ==
    ASSUME NEW S, IsFiniteSet(S), NEW f, NEW g,
           \A x \in S : f[x] \in Nat /\ g[x] = f[x]
    PROVE  Total(g, S) = Total(f, S)
<1> DEFINE Good == {T \in SUBSET S : Total(g, T) = Total(f, T)}
<1>0. /\ \A x \in S : f[x] \in Nat
      /\ \A x \in S : g[x] \in Nat
  OBVIOUS
<1>1. {} \in Good
  BY <1>0, TotalOverSet
<1>2. ASSUME NEW T \in Good, NEW x \in S \ T PROVE T \cup {x} \in Good
  <2>1. T \cup {x} \in SUBSET S /\ x \in T \cup {x} /\ (T \cup {x}) \ {x} = T
    OBVIOUS
  <2>2. Total(f, T \cup {x}) = f[x] + Total(f, T)
    BY <1>0, <2>1, TotalOverSet
  <2>3. Total(g, T \cup {x}) = g[x] + Total(g, T)
    BY <1>0, <2>1, TotalOverSet
  <2> QED
    BY <2>1, <2>2, <2>3
<1>3. Good \in SUBSET (SUBSET S)
  OBVIOUS
<1>4. S \in Good
  <2> HIDE DEF Good
  <2> QED
    BY <1>1, <1>2, <1>3, FiniteInduction
<1> QED
  BY <1>4

LEMMA TotalZero ==
    ASSUME NEW S, IsFiniteSet(S), NEW f, \A x \in S : f[x] = 0
    PROVE  Total(f, S) = 0
<1> DEFINE Good == {T \in SUBSET S : Total(f, T) = 0}
<1>0. \A x \in S : f[x] \in Nat
  OBVIOUS
<1>1. {} \in Good
  BY <1>0, TotalOverSet
<1>2. ASSUME NEW T \in Good, NEW x \in S \ T PROVE T \cup {x} \in Good
  <2>1. T \cup {x} \in SUBSET S /\ x \in T \cup {x} /\ (T \cup {x}) \ {x} = T
    OBVIOUS
  <2>2. Total(f, T \cup {x}) = f[x] + Total(f, T)
    BY <1>0, <2>1, TotalOverSet
  <2> QED
    BY <2>1, <2>2
<1>3. Good \in SUBSET (SUBSET S)
  OBVIOUS
<1>4. S \in Good
  <2> HIDE DEF Good
  <2> QED
    BY <1>1, <1>2, <1>3, FiniteInduction
<1> QED
  BY <1>4

\* One value changes.
LEMMA TotalChange ==
    ASSUME NEW S, IsFiniteSet(S), NEW f, NEW g, NEW y \in S,
           \A x \in S : f[x] \in Nat /\ g[x] \in Nat,
           \A x \in S \ {y} : g[x] = f[x]
    PROVE  /\ Total(f, S) \in Nat /\ Total(g, S) \in Nat
           /\ Total(g, S) + f[y] = Total(f, S) + g[y]
<1>1. /\ \A x \in S : f[x] \in Nat
      /\ \A x \in S : g[x] \in Nat
      /\ \A x \in S \ {y} : f[x] \in Nat /\ g[x] = f[x]
      /\ S \in SUBSET S /\ S \ {y} \in SUBSET S
      /\ IsFiniteSet(S \ {y})
  BY FS_Subset
<1>2. Total(g, S \ {y}) = Total(f, S \ {y})
  BY <1>1, TotalEqual
<1>3. Total(f, S) = f[y] + Total(f, S \ {y}) /\ Total(f, S) \in Nat /\ Total(f, S \ {y}) \in Nat
  BY <1>1, TotalOverSet
<1>4. Total(g, S) = g[y] + Total(g, S \ {y}) /\ Total(g, S) \in Nat
  <2>1. (\A x \in S : g[x] \in Nat) /\ S \in SUBSET S
    BY <1>1
  <2> QED
    BY <2>1, TotalOverSet
<1> QED
  BY <1>1, <1>2, <1>3, <1>4

LEMMA TotalBound ==
    ASSUME NEW S, IsFiniteSet(S), NEW f, NEW x \in S, \A y \in S : f[y] \in Nat
    PROVE  f[x] <= Total(f, S)
<1>1. S \in SUBSET S /\ S \ {x} \in SUBSET S
  OBVIOUS
<1>2. Total(f, S) = f[x] + Total(f, S \ {x}) /\ Total(f, S \ {x}) \in Nat
  BY <1>1, TotalOverSet
<1> QED
  BY <1>2

-----------------------------------------------------------------------------
\* Numbers that a counter cannot tell apart.
Same(a, b) == \E k \in Int : a = (k * Wrap) + b

LEMMA SameRefl == ASSUME NEW a \in Int PROVE Same(a, a)
<1>1. Wrap \in Int /\ 0 \in Int
  BY MetricsAssumption
<1>2. a = (0 * Wrap) + a
  BY <1>1
<1> QED
  BY <1>1, <1>2 DEF Same

LEMMA SameSym ==
    ASSUME NEW a \in Int, NEW b \in Int, Same(a, b)
    PROVE  Same(b, a)
<1>1. PICK k \in Int : a = (k * Wrap) + b
  BY DEF Same
<1>2. Wrap \in Int /\ -k \in Int
  BY MetricsAssumption
<1>3. b = ((-k) * Wrap) + a
  BY <1>1, <1>2
<1> QED
  BY <1>2, <1>3 DEF Same

LEMMA SamePlus ==
    ASSUME NEW a \in Int, NEW b \in Int, NEW c \in Int, NEW d \in Int, Same(a, b), Same(c, d)
    PROVE  Same(a + c, b + d)
<1>1. PICK k \in Int : a = (k * Wrap) + b
  BY DEF Same
<1>2. PICK j \in Int : c = (j * Wrap) + d
  BY DEF Same
<1>3. Wrap \in Int /\ k + j \in Int
  BY MetricsAssumption
<1>4. a + c = ((k + j) * Wrap) + (b + d)
  BY <1>1, <1>2, <1>3
<1> QED
  BY <1>3, <1>4 DEF Same

LEMMA SameMinus ==
    ASSUME NEW a \in Int, NEW b \in Int, NEW c \in Int, NEW d \in Int, Same(a, b), Same(c, d)
    PROVE  Same(a - c, b - d)
<1>1. PICK k \in Int : a = (k * Wrap) + b
  BY DEF Same
<1>2. PICK j \in Int : c = (j * Wrap) + d
  BY DEF Same
<1>3. Wrap \in Int /\ k - j \in Int
  BY MetricsAssumption
<1>4. a - c = ((k - j) * Wrap) + (b - d)
  BY <1>1, <1>2, <1>3
<1> QED
  BY <1>3, <1>4 DEF Same

LEMMA SameTrans ==
    ASSUME NEW a \in Int, NEW b \in Int, NEW c \in Int, Same(a, b), Same(b, c)
    PROVE  Same(a, c)
<1>1. PICK k \in Int : a = (k * Wrap) + b
  BY DEF Same
<1>2. PICK j \in Int : b = (j * Wrap) + c
  BY DEF Same
<1>3. Wrap \in Int /\ k + j \in Int
  BY MetricsAssumption
<1>4. a = ((k + j) * Wrap) + c
  BY <1>1, <1>2, <1>3
<1> QED
  BY <1>3, <1>4 DEF Same

\* A counter holds a number it cannot tell from n, and tells those it can hold apart.
LEMMA WrappedFacts ==
    ASSUME NEW n \in Nat
    PROVE  Wrapped(n) \in 0..(Wrap - 1) /\ Same(Wrapped(n), n)
<1>1. Wrap \in Nat \ {0}
  BY MetricsAssumption
<1>2. n % Wrap \in Int /\ 0 <= n % Wrap /\ n % Wrap < Wrap
  BY <1>1
<1>3. n \div Wrap \in Int /\ n = ((n \div Wrap) * Wrap) + (n % Wrap)
  BY <1>1, Z3
<1>4. Same(Wrapped(n), n)
  <2> DEFINE r == Wrapped(n)
             q == n \div Wrap
  <2>1. r \in Int /\ q \in Int /\ n = (q * Wrap) + r
    BY <1>2, <1>3 DEF Wrapped
  <2> HIDE DEF r, q
  <2>2. r = ((-q) * Wrap) + n /\ -q \in Int
    BY <1>1, <2>1
  <2> QED
    BY <2>2 DEF Same, r
<1> QED
  BY <1>1, <1>2, <1>4 DEF Wrapped

LEMMA SameInRange ==
    ASSUME NEW a \in 0..(Wrap - 1), NEW b \in 0..(Wrap - 1), Same(a, b)
    PROVE  a = b
<1>1. Wrap \in Nat \ {0}
  BY MetricsAssumption
<1>2. PICK k \in Int : a = (k * Wrap) + b
  BY DEF Same
<1>3. ~(k >= 1)
  <2> SUFFICES ASSUME k >= 1 PROVE FALSE
    OBVIOUS
  <2>1. k * Wrap \in Int /\ k * Wrap >= Wrap
    BY <1>1
  <2> QED
    BY <1>1, <1>2, <2>1
<1>4. ~(k <= -1)
  <2> SUFFICES ASSUME k <= -1 PROVE FALSE
    OBVIOUS
  <2>1. k * Wrap \in Int /\ k * Wrap <= -Wrap
    BY <1>1
  <2> QED
    BY <1>1, <1>2, <2>1
<1>5. k = 0
  BY <1>3, <1>4
<1> QED
  BY <1>1, <1>2, <1>5

LEMMA WrappedSame ==
    ASSUME NEW m \in Nat, NEW n \in Nat
    PROVE  Wrapped(m) = Wrapped(n) <=> Same(m, n)
<1>0. /\ Wrap \in Nat
      /\ Wrapped(m) \in 0..(Wrap - 1) /\ Same(Wrapped(m), m)
      /\ Wrapped(n) \in 0..(Wrap - 1) /\ Same(Wrapped(n), n)
  BY WrappedFacts, MetricsAssumption
<1>1. Wrapped(m) \in Int /\ Wrapped(n) \in Int
  BY <1>0
<1>2. Same(m, Wrapped(m)) /\ Same(n, Wrapped(n))
  BY <1>0, <1>1, SameSym
<1>3. ASSUME Wrapped(m) = Wrapped(n) PROVE Same(m, n)
  BY <1>0, <1>1, <1>2, <1>3, SameTrans
<1>4. ASSUME Same(m, n) PROVE Wrapped(m) = Wrapped(n)
  <2>1. Same(Wrapped(m), n)
    BY <1>0, <1>1, <1>4, SameTrans
  <2>2. Same(Wrapped(m), Wrapped(n))
    BY <1>1, <1>2, <2>1, SameTrans
  <2> QED
    BY <1>0, <2>2, SameInRange
<1> QED
  BY <1>3, <1>4

\* Sums of values that a counter cannot tell apart.
LEMMA TotalPlus ==
    ASSUME NEW S, IsFiniteSet(S), NEW f, NEW g, NEW h,
           \A x \in S : f[x] \in Nat /\ g[x] \in Nat /\ h[x] \in Nat /\ Same(h[x], f[x] + g[x])
    PROVE  Same(Total(h, S), Total(f, S) + Total(g, S))
<1> DEFINE Good == {T \in SUBSET S : Same(Total(h, T), Total(f, T) + Total(g, T))}
<1>a. \A x \in S : f[x] \in Nat
  OBVIOUS
<1>b. \A x \in S : g[x] \in Nat
  OBVIOUS
<1>c. \A x \in S : h[x] \in Nat
  OBVIOUS
<1>f. /\ Total(f, {}) = 0
      /\ \A T \in SUBSET S : Total(f, T) \in Nat
      /\ \A T \in SUBSET S : \A x \in T : Total(f, T) = f[x] + Total(f, T \ {x})
  BY ONLY <1>a, IsFiniteSet(S), TotalOverSet
<1>g. /\ Total(g, {}) = 0
      /\ \A T \in SUBSET S : Total(g, T) \in Nat
      /\ \A T \in SUBSET S : \A x \in T : Total(g, T) = g[x] + Total(g, T \ {x})
  BY ONLY <1>b, IsFiniteSet(S), TotalOverSet
<1>h. /\ Total(h, {}) = 0
      /\ \A T \in SUBSET S : Total(h, T) \in Nat
      /\ \A T \in SUBSET S : \A x \in T : Total(h, T) = h[x] + Total(h, T \ {x})
  BY ONLY <1>c, IsFiniteSet(S), TotalOverSet
<1>1. {} \in Good
  BY <1>f, <1>g, <1>h, SameRefl
<1>2. ASSUME NEW T \in Good, NEW x \in S \ T PROVE T \cup {x} \in Good
  <2>1. T \cup {x} \in SUBSET S /\ x \in T \cup {x} /\ (T \cup {x}) \ {x} = T /\ T \in SUBSET S
    OBVIOUS
  <2>2. /\ Total(f, T \cup {x}) = f[x] + Total(f, T)
        /\ Total(g, T \cup {x}) = g[x] + Total(g, T)
        /\ Total(h, T \cup {x}) = h[x] + Total(h, T)
    BY <1>f, <1>g, <1>h, <2>1
  <2>3. /\ f[x] \in Nat /\ g[x] \in Nat /\ h[x] \in Nat
        /\ Total(f, T) \in Nat /\ Total(g, T) \in Nat /\ Total(h, T) \in Nat
    BY <1>a, <1>b, <1>c, <1>f, <1>g, <1>h, <2>1
  <2>4. Same(h[x], f[x] + g[x]) /\ Same(Total(h, T), Total(f, T) + Total(g, T))
    OBVIOUS
  <2>5. Same(h[x] + Total(h, T), (f[x] + g[x]) + (Total(f, T) + Total(g, T)))
    BY <2>3, <2>4, SamePlus
  <2>6. (f[x] + g[x]) + (Total(f, T) + Total(g, T)) = (f[x] + Total(f, T)) + (g[x] + Total(g, T))
    BY <2>3
  <2> QED
    BY <2>1, <2>2, <2>5, <2>6
<1>3. Good \in SUBSET (SUBSET S)
  OBVIOUS
<1>4. S \in Good
  <2> HIDE DEF Good
  <2> QED
    BY <1>1, <1>2, <1>3, FiniteInduction
<1> QED
  BY <1>4

LEMMA SameShift ==
    ASSUME NEW a \in Int, NEW b \in Int, NEW c \in Int, NEW d \in Int, Same(a, b), c - a = d - b
    PROVE  Same(c, d)
<1>1. PICK k \in Int : a = (k * Wrap) + b
  BY DEF Same
<1>2. k * Wrap \in Int
  BY MetricsAssumption
<1>3. c = (k * Wrap) + d
  BY <1>1, <1>2
<1> QED
  BY <1>3 DEF Same

-----------------------------------------------------------------------------
\* What Plus, Only and WrappedTotal do to the counts that are moved.
LEMMA ValueFacts ==
    /\ Wrap \in Nat \ {0} /\ 0 \in 0..(Wrap - 1)
    /\ IsFiniteSet(Counters) /\ IsFiniteSet(Submissions) /\ IsFiniteSet(Names)
    /\ Names \subseteq Counters
    /\ \A f \in Values, c \in Counters : f[c] \in 0..(Wrap - 1) /\ f[c] \in Nat
    /\ None \in Values
<1>1. Wrap \in Nat \ {0} /\ 0 \in 0..(Wrap - 1)
  BY MetricsAssumption
<1>2. IsFiniteSet(Counters) /\ IsFiniteSet(Submissions) /\ Names \subseteq Counters
  BY MetricsAssumption DEF Counters
<1> QED
  BY <1>1, <1>2, FS_Subset DEF Values, None

LEMMA PlusFacts ==
    ASSUME NEW f \in Values, NEW g \in Values
    PROVE  /\ Plus(f, g) \in Values
           /\ \A c \in Counters : Same(Plus(f, g)[c], f[c] + g[c])
<1>1. ASSUME NEW c \in Counters
      PROVE  Plus(f, g)[c] \in 0..(Wrap - 1) /\ Same(Plus(f, g)[c], f[c] + g[c])
  <2>1. f[c] + g[c] \in Nat
    BY ValueFacts
  <2> QED
    BY <2>1, WrappedFacts DEF Plus
<1> QED
  BY <1>1 DEF Plus, Values

LEMMA OnlyFacts ==
    ASSUME NEW f \in Values, NEW C
    PROVE  /\ Only(f, C) \in Values
           /\ \A c \in Counters : Only(f, C)[c] = IF c \in C THEN f[c] ELSE 0
BY ValueFacts DEF Only, Values

LEMMA SumFacts ==
    ASSUME NEW f \in Values
    PROVE  /\ Total(f, Names) \in Nat
           /\ WrappedTotal(f, Names) \in 0..(Wrap - 1) /\ WrappedTotal(f, Names) \in Nat
           /\ Same(WrappedTotal(f, Names), Total(f, Names)) /\ Same(Total(f, Names), WrappedTotal(f, Names))
<1>1. \A c \in Names : f[c] \in Nat
  BY ValueFacts
<1>2. Total(f, Names) \in Nat
  BY <1>1, ValueFacts, TotalOverSet
<1>3. WrappedTotal(f, Names) \in 0..(Wrap - 1) /\ Same(WrappedTotal(f, Names), Total(f, Names))
  BY <1>2, WrappedFacts DEF WrappedTotal
<1>4. WrappedTotal(f, Names) \in Nat
  BY <1>3, ValueFacts
<1> QED
  BY <1>2, <1>3, <1>4, SameSym

LEMMA SumPlus ==
    ASSUME NEW f \in Values, NEW g \in Values
    PROVE  Same(WrappedTotal(Plus(f, g), Names), WrappedTotal(f, Names) + WrappedTotal(g, Names))
<1> DEFINE h == Plus(f, g)
<1>1. h \in Values /\ \A c \in Names : Same(h[c], f[c] + g[c])
  BY PlusFacts, ValueFacts
<1> HIDE DEF h
<1>2. \A c \in Names : f[c] \in Nat /\ g[c] \in Nat /\ h[c] \in Nat /\ Same(h[c], f[c] + g[c])
  BY <1>1, ValueFacts
<1>3. Same(Total(h, Names), Total(f, Names) + Total(g, Names))
  BY <1>2, ValueFacts, TotalPlus
<1>4. /\ Total(f, Names) \in Int /\ Total(g, Names) \in Int /\ Total(h, Names) \in Int
      /\ WrappedTotal(f, Names) \in Int /\ WrappedTotal(g, Names) \in Int /\ WrappedTotal(h, Names) \in Int
  BY <1>1, SumFacts
<1>5. Same(Total(f, Names) + Total(g, Names), WrappedTotal(f, Names) + WrappedTotal(g, Names))
  BY <1>4, SumFacts, SamePlus
<1>6. Same(WrappedTotal(h, Names), Total(h, Names))
  BY <1>1, SumFacts
<1>7. Same(WrappedTotal(h, Names), Total(f, Names) + Total(g, Names))
  BY <1>3, <1>4, <1>6, SameTrans
<1>8. Same(WrappedTotal(h, Names), WrappedTotal(f, Names) + WrappedTotal(g, Names))
  BY <1>4, <1>5, <1>7, SameTrans
<1> QED
  BY <1>8 DEF h

LEMMA SumOnly ==
    ASSUME NEW f \in Values, NEW C
    PROVE  /\ Names \subseteq C => WrappedTotal(Only(f, C), Names) = WrappedTotal(f, Names)
           /\ Names \cap C = {} => WrappedTotal(Only(f, C), Names) = 0
<1> DEFINE g == Only(f, C)
<1>1. \A c \in Names : f[c] \in Nat /\ g[c] = IF c \in C THEN f[c] ELSE 0
  BY OnlyFacts, ValueFacts
<1> HIDE DEF g
<1>2. ASSUME Names \subseteq C PROVE Total(g, Names) = Total(f, Names)
  <2>1. \A c \in Names : f[c] \in Nat /\ g[c] = f[c]
    BY <1>1, <1>2
  <2> QED
    BY <2>1, ValueFacts, TotalEqual
<1>3. ASSUME Names \cap C = {} PROVE WrappedTotal(g, Names) = 0
  <2>1. \A c \in Names : g[c] = 0
    BY <1>1, <1>3
  <2>2. Total(g, Names) = 0
    BY <2>1, ValueFacts, TotalZero
  <2>3. Wrapped(0) \in 0..(Wrap - 1) /\ Same(Wrapped(0), 0)
    BY WrappedFacts
  <2>4. Wrapped(0) = 0
    BY <2>3, ValueFacts, SameInRange
  <2> QED
    BY <2>2, <2>4 DEF WrappedTotal
<1> QED
  BY <1>2, <1>3 DEF WrappedTotal, g

LEMMA SumNone == WrappedTotal(None, Names) = 0
<1>1. None = Only(None, {})
  BY DEF None, Only
<1> QED
  BY <1>1, SumOnly, ValueFacts

-----------------------------------------------------------------------------
\* What the submissions hold of a counter, and of the events.
InHand(h, c) == Total([s \in Submissions |-> h[s][c]], Submissions)
EventsInHand(h) == Total([s \in Submissions |-> WrappedTotal(h[s], Names)], Submissions)

LEMMA HandChange ==
    ASSUME NEW h \in [Submissions -> Values], NEW k \in [Submissions -> Values], NEW s \in Submissions,
           \A t \in Submissions \ {s} : k[t] = h[t]
    PROVE  /\ \A c \in Counters : /\ InHand(h, c) \in Nat /\ InHand(k, c) \in Nat
                                  /\ InHand(k, c) + h[s][c] = InHand(h, c) + k[s][c]
           /\ EventsInHand(h) \in Nat /\ EventsInHand(k) \in Nat
           /\ EventsInHand(k) + WrappedTotal(h[s], Names) = EventsInHand(h) + WrappedTotal(k[s], Names)
<1>1. /\ \A t \in Submissions \ {s} : k[t] = h[t]
      /\ \A t \in Submissions : h[t] \in Values /\ k[t] \in Values
      /\ IsFiniteSet(Submissions)
  BY ValueFacts
<1>2. ASSUME NEW c \in Counters
      PROVE  /\ InHand(h, c) \in Nat /\ InHand(k, c) \in Nat
             /\ InHand(k, c) + h[s][c] = InHand(h, c) + k[s][c]
  <2> DEFINE p == [t \in Submissions |-> h[t][c]]
             q == [t \in Submissions |-> k[t][c]]
  <2>1. \A t \in Submissions : p[t] \in Nat /\ q[t] \in Nat
    BY <1>1, ValueFacts
  <2>2. \A t \in Submissions \ {s} : q[t] = p[t]
    BY <1>1
  <2>3. p[s] = h[s][c] /\ q[s] = k[s][c]
    BY <1>1
  <2>4. InHand(h, c) = Total(p, Submissions) /\ InHand(k, c) = Total(q, Submissions)
    BY DEF InHand
  <2> HIDE DEF p, q
  <2>5. IsFiniteSet(Submissions)
    BY <1>1
  <2>6. /\ Total(p, Submissions) \in Nat /\ Total(q, Submissions) \in Nat
        /\ Total(q, Submissions) + p[s] = Total(p, Submissions) + q[s]
    BY ONLY <2>1, <2>2, <2>5, s \in Submissions, TotalChange
  <2> QED
    BY <2>3, <2>4, <2>6
<1>3. /\ EventsInHand(h) \in Nat /\ EventsInHand(k) \in Nat
      /\ EventsInHand(k) + WrappedTotal(h[s], Names) = EventsInHand(h) + WrappedTotal(k[s], Names)
  <2> DEFINE p == [t \in Submissions |-> WrappedTotal(h[t], Names)]
             q == [t \in Submissions |-> WrappedTotal(k[t], Names)]
  <2>1. \A t \in Submissions : p[t] \in Nat /\ q[t] \in Nat
    BY <1>1, SumFacts
  <2>2. \A t \in Submissions \ {s} : q[t] = p[t]
    BY <1>1
  <2>3. p[s] = WrappedTotal(h[s], Names) /\ q[s] = WrappedTotal(k[s], Names)
    BY <1>1
  <2>4. EventsInHand(h) = Total(p, Submissions) /\ EventsInHand(k) = Total(q, Submissions)
    BY DEF EventsInHand
  <2> HIDE DEF p, q
  <2>5. IsFiniteSet(Submissions)
    BY <1>1
  <2>6. /\ Total(p, Submissions) \in Nat /\ Total(q, Submissions) \in Nat
        /\ Total(q, Submissions) + p[s] = Total(p, Submissions) + q[s]
    BY ONLY <2>1, <2>2, <2>5, s \in Submissions, TotalChange
  <2> QED
    BY <2>3, <2>4, <2>6
<1> QED
  BY <1>2, <1>3

-----------------------------------------------------------------------------
\* The two accounts, as sums that a step changes by the same amount on both sides: of the
\* counts n, those in hands h, in the buffer b and sent o; and of the totals st and t.
Account(n, h, b, o, c) == n[c] + InHand(h, c) + b[c] + o[c]
Told(st, t) == st + Total(t, Submissions)
Shown(h, b, o) == WrappedTotal(b, Names) + WrappedTotal(o, Names) + EventsInHand(h)

LEMMA HandFacts ==
    ASSUME NEW h \in [Submissions -> Values]
    PROVE  EventsInHand(h) \in Nat /\ \A c \in Counters : InHand(h, c) \in Nat
<1>1. ASSUME NEW c \in Counters PROVE InHand(h, c) \in Nat
  <2> DEFINE p == [t \in Submissions |-> h[t][c]]
  <2>1. \A t \in Submissions : p[t] \in Nat
    BY ValueFacts
  <2> HIDE DEF p
  <2>2. Total(p, Submissions) \in Nat
    BY <2>1, ValueFacts, TotalOverSet
  <2> QED
    BY <2>2 DEF p, InHand
<1>2. EventsInHand(h) \in Nat
  <2> DEFINE p == [t \in Submissions |-> WrappedTotal(h[t], Names)]
  <2>1. \A t \in Submissions : p[t] \in Nat
    BY SumFacts
  <2> HIDE DEF p
  <2>2. Total(p, Submissions) \in Nat
    BY <2>1, ValueFacts, TotalOverSet
  <2> QED
    BY <2>2 DEF p, EventsInHand
<1> QED
  BY <1>1, <1>2

LEMMA AccountType ==
    ASSUME NEW n \in Values, NEW h \in [Submissions -> Values], NEW b \in Values, NEW o \in Values
    PROVE  Shown(h, b, o) \in Nat /\ \A c \in Counters : Account(n, h, b, o, c) \in Nat
<1>1. ASSUME NEW c \in Counters PROVE Account(n, h, b, o, c) \in Nat
  <2>1. n[c] \in Nat /\ InHand(h, c) \in Nat /\ b[c] \in Nat /\ o[c] \in Nat
    BY HandFacts, ValueFacts
  <2> QED
    BY <2>1 DEF Account
<1>2. Shown(h, b, o) \in Nat
  <2>1. WrappedTotal(b, Names) \in Nat /\ WrappedTotal(o, Names) \in Nat /\ EventsInHand(h) \in Nat
    BY SumFacts, HandFacts
  <2> QED
    BY <2>1 DEF Shown
<1> QED
  BY <1>1, <1>2

LEMMA ToldType ==
    ASSUME NEW st \in Nat, NEW t \in [Submissions -> Nat]
    PROVE  Told(st, t) \in Nat
<1>1. Total(t, Submissions) \in Nat
  BY ValueFacts, TotalOverSet
<1> QED
  BY <1>1 DEF Told

\* AccountsBalance in these terms, before a step and after it.
Balanced(n, h, b, o, k, st, t) ==
    /\ \A c \in Counters : Same(Account(n, h, b, o, c), k[c])
    /\ Same(Told(st, t), Shown(h, b, o))

LEMMA BalancedFacts ==
    ASSUME NEW n \in Values, NEW h \in [Submissions -> Values], NEW b \in Values, NEW o \in Values,
           NEW k \in [Counters -> Nat], NEW st \in Nat, NEW t \in [Submissions -> Nat]
    PROVE  Balanced(n, h, b, o, k, st, t) <=>
              /\ \A c \in Counters : Wrapped(Account(n, h, b, o, c)) = Wrapped(k[c])
              /\ Wrapped(Told(st, t)) = Wrapped(Shown(h, b, o))
<1>1. ASSUME NEW c \in Counters
      PROVE  Wrapped(Account(n, h, b, o, c)) = Wrapped(k[c]) <=> Same(Account(n, h, b, o, c), k[c])
  <2>1. Account(n, h, b, o, c) \in Nat /\ k[c] \in Nat
    BY AccountType
  <2> QED
    BY <2>1, WrappedSame
<1>2. Wrapped(Told(st, t)) = Wrapped(Shown(h, b, o)) <=> Same(Told(st, t), Shown(h, b, o))
  BY AccountType, ToldType, WrappedSame
<1> QED
  BY <1>1, <1>2 DEF Balanced

LEMMA TypeFacts ==
    ASSUME MetricsTypeOK
    PROVE  /\ count \in Values /\ hand \in [Submissions -> Values] /\ buffer \in Values /\ sent \in Values
           /\ counted \in [Counters -> Nat] /\ statistics \in Nat
           /\ totalEvents \in [Submissions -> Nat]
<1>1. MaxCounts \in Nat /\ Wrap \in Nat
  BY MetricsAssumption
<1>2. 0..MaxCounts \subseteq Nat /\ 0..(Wrap - 1) \subseteq Nat
  BY <1>1
<1> QED
  BY <1>2 DEF MetricsTypeOK

LEMMA TypeFactsNext ==
    ASSUME MetricsTypeOK'
    PROVE  /\ count' \in Values /\ hand' \in [Submissions -> Values] /\ buffer' \in Values /\ sent' \in Values
           /\ counted' \in [Counters -> Nat] /\ statistics' \in Nat
           /\ totalEvents' \in [Submissions -> Nat]
<1>1. MaxCounts \in Nat /\ Wrap \in Nat
  BY MetricsAssumption
<1>2. 0..MaxCounts \subseteq Nat /\ 0..(Wrap - 1) \subseteq Nat
  BY <1>1
<1> QED
  BY <1>2 DEF MetricsTypeOK

LEMMA BalanceBefore ==
    ASSUME MetricsTypeOK
    PROVE  AccountsBalance <=> Balanced(count, hand, buffer, sent, counted, statistics, totalEvents)
<1>1. Balanced(count, hand, buffer, sent, counted, statistics, totalEvents) <=>
          /\ \A c \in Counters : Wrapped(Account(count, hand, buffer, sent, c)) = Wrapped(counted[c])
          /\ Wrapped(Told(statistics, totalEvents)) = Wrapped(Shown(hand, buffer, sent))
  BY TypeFacts, BalancedFacts
<1> QED
  BY <1>1 DEF AccountsBalance, CountedOnce, TotalsAgree, Account, Told, Shown, InHand, EventsInHand

LEMMA BalanceAfter ==
    ASSUME MetricsTypeOK'
    PROVE  AccountsBalance' <=> Balanced(count', hand', buffer', sent', counted', statistics', totalEvents')
<1>1. Balanced(count', hand', buffer', sent', counted', statistics', totalEvents') <=>
          /\ \A c \in Counters : Wrapped(Account(count', hand', buffer', sent', c)) = Wrapped(counted'[c])
          /\ Wrapped(Told(statistics', totalEvents')) = Wrapped(Shown(hand', buffer', sent'))
  BY TypeFactsNext, BalancedFacts
<1> QED
  BY <1>1 DEF AccountsBalance, CountedOnce, TotalsAgree, Account, Told, Shown, InHand, EventsInHand

-----------------------------------------------------------------------------
\* The counters of C go from the handlers to a submission.
Taken(n, h, s, C) == [h EXCEPT ![s] = Plus(@, Only(n, C))]
Left(n, C) == Only(n, Counters \ C)

LEMMA TakeBalance ==
    ASSUME NEW n \in Values, NEW h \in [Submissions -> Values], NEW b \in Values, NEW o \in Values,
           NEW s \in Submissions, NEW C
    PROVE  /\ Left(n, C) \in Values /\ Taken(n, h, s, C) \in [Submissions -> Values]
           /\ \A c \in Counters :
                 Same(Account(Left(n, C), Taken(n, h, s, C), b, o, c), Account(n, h, b, o, c))
           /\ Names \subseteq C =>
                 Same(Shown(Taken(n, h, s, C), b, o), Shown(h, b, o) + WrappedTotal(n, Names))
           /\ Names \cap C = {} => Same(Shown(Taken(n, h, s, C), b, o), Shown(h, b, o))
<1> DEFINE taken == Only(n, C)
           held  == Plus(h[s], taken)
           n2    == Left(n, C)
           h2    == Taken(n, h, s, C)
<1>1. h[s] \in Values /\ n2 \in Values /\ taken \in Values
  BY OnlyFacts DEF Left
<1>2. held \in Values /\ \A c \in Counters : Same(held[c], h[s][c] + taken[c])
  BY <1>1, PlusFacts
<1>3. /\ h2 \in [Submissions -> Values] /\ h2[s] = held
      /\ \A t \in Submissions \ {s} : h2[t] = h[t]
  BY <1>2 DEF Taken
<1>4. Same(WrappedTotal(held, Names), WrappedTotal(h[s], Names) + WrappedTotal(taken, Names))
  BY <1>1, SumPlus
<1>5. /\ Names \subseteq C => WrappedTotal(taken, Names) = WrappedTotal(n, Names)
      /\ Names \cap C = {} => WrappedTotal(taken, Names) = 0
  BY SumOnly
<1>6. \A c \in Counters : n2[c] + taken[c] = n[c]
  BY OnlyFacts, ValueFacts DEF Left
<1> HIDE DEF taken, held, n2, h2
<1>7. /\ \A c \in Counters : /\ InHand(h, c) \in Nat /\ InHand(h2, c) \in Nat
                             /\ InHand(h2, c) + h[s][c] = InHand(h, c) + held[c]
      /\ EventsInHand(h) \in Nat /\ EventsInHand(h2) \in Nat
      /\ EventsInHand(h2) + WrappedTotal(h[s], Names) = EventsInHand(h) + WrappedTotal(held, Names)
  <2>1. h2 \in [Submissions -> Values] /\ \A t \in Submissions \ {s} : h2[t] = h[t]
    BY <1>3
  <2>2. /\ \A c \in Counters : /\ InHand(h, c) \in Nat /\ InHand(h2, c) \in Nat
                               /\ InHand(h2, c) + h[s][c] = InHand(h, c) + h2[s][c]
        /\ EventsInHand(h) \in Nat /\ EventsInHand(h2) \in Nat
        /\ EventsInHand(h2) + WrappedTotal(h[s], Names) = EventsInHand(h) + WrappedTotal(h2[s], Names)
    BY ONLY <2>1, h \in [Submissions -> Values], s \in Submissions, HandChange, Zenon
  <2> QED
    BY <1>3, <2>2
<1>8. ASSUME NEW c \in Counters
      PROVE  Same(Account(n2, h2, b, o, c), Account(n, h, b, o, c))
  <2>1. /\ n[c] \in Nat /\ n2[c] \in Nat /\ h[s][c] \in Nat /\ taken[c] \in Nat /\ held[c] \in Nat
        /\ b[c] \in Nat /\ o[c] \in Nat
    BY <1>1, <1>2, ValueFacts
  <2>2. Same(held[c], h[s][c] + taken[c])
    BY <1>2
  <2>5. /\ InHand(h, c) \in Nat /\ InHand(h2, c) \in Nat
        /\ InHand(h2, c) + h[s][c] = InHand(h, c) + held[c]
        /\ n2[c] + taken[c] = n[c]
    BY <1>6, <1>7
  <2>3. Account(n2, h2, b, o, c) - held[c] = Account(n, h, b, o, c) - (h[s][c] + taken[c])
    BY ONLY <2>1, <2>5 DEF Account
  <2>4. Account(n2, h2, b, o, c) \in Int /\ Account(n, h, b, o, c) \in Int
    BY ONLY <2>1, <2>5 DEF Account
  <2> QED
    BY <2>1, <2>2, <2>3, <2>4, SameShift
<1>9. ASSUME NEW x \in Nat, WrappedTotal(taken, Names) = x
      PROVE  Same(Shown(h2, b, o), Shown(h, b, o) + x)
  <2>1. /\ WrappedTotal(held, Names) \in Nat /\ WrappedTotal(h[s], Names) \in Nat
        /\ WrappedTotal(b, Names) \in Nat /\ WrappedTotal(o, Names) \in Nat
    BY <1>1, <1>2, SumFacts
  <2>2. Shown(h2, b, o) - WrappedTotal(held, Names) =
            (Shown(h, b, o) + x) - (WrappedTotal(h[s], Names) + x)
    BY <1>7, <2>1 DEF Shown
  <2>3. Shown(h2, b, o) \in Int /\ Shown(h, b, o) + x \in Int
    BY <1>7, <2>1 DEF Shown
  <2>4. Same(WrappedTotal(held, Names), WrappedTotal(h[s], Names) + x)
    BY <1>4, <1>9
  <2> QED
    BY <2>1, <2>2, <2>3, <2>4, SameShift
<1>10. WrappedTotal(n, Names) \in Nat /\ Shown(h, b, o) + 0 = Shown(h, b, o)
  <2>1. /\ WrappedTotal(b, Names) \in Nat /\ WrappedTotal(o, Names) \in Nat /\ WrappedTotal(n, Names) \in Nat
    BY SumFacts
  <2> QED
    BY <1>7, <2>1 DEF Shown
<1>11. ASSUME Names \cap C = {} PROVE Same(Shown(h2, b, o), Shown(h, b, o))
  BY <1>5, <1>9, <1>10, <1>11
<1>12. ASSUME Names \subseteq C
       PROVE  Same(Shown(h2, b, o), Shown(h, b, o) + WrappedTotal(n, Names))
  BY <1>5, <1>9, <1>10, <1>12
<1> QED
  BY <1>1, <1>3, <1>8, <1>11, <1>12 DEF n2, h2

\* They go from a submission to the buffer.
Kept(h, s, C) == [h EXCEPT ![s] = Only(@, Counters \ C)]
Written(b, h, s, C) == Plus(b, Only(h[s], C))

LEMMA WriteBalance ==
    ASSUME NEW n \in Values, NEW h \in [Submissions -> Values], NEW b \in Values, NEW o \in Values,
           NEW s \in Submissions, NEW C, C = Names \/ Names \cap C = {}
    PROVE  /\ Written(b, h, s, C) \in Values /\ Kept(h, s, C) \in [Submissions -> Values]
           /\ \A c \in Counters :
                 Same(Account(n, Kept(h, s, C), Written(b, h, s, C), o, c), Account(n, h, b, o, c))
           /\ Same(Shown(Kept(h, s, C), Written(b, h, s, C), o), Shown(h, b, o))
<1> DEFINE written == Only(h[s], C)
           kept    == Only(h[s], Counters \ C)
           h2      == Kept(h, s, C)
           b2      == Written(b, h, s, C)
<1>1. h[s] \in Values /\ written \in Values /\ kept \in Values
  BY OnlyFacts
<1>2. b2 \in Values /\ \A c \in Counters : Same(b2[c], b[c] + written[c])
  BY <1>1, PlusFacts DEF Written
<1>3. /\ h2 \in [Submissions -> Values] /\ h2[s] = kept
      /\ \A t \in Submissions \ {s} : h2[t] = h[t]
  BY <1>1 DEF Kept
<1>4. Same(WrappedTotal(b2, Names), WrappedTotal(b, Names) + WrappedTotal(written, Names))
  BY <1>1, SumPlus DEF Written
<1>5. WrappedTotal(written, Names) + WrappedTotal(kept, Names) = WrappedTotal(h[s], Names)
  <2>0. Names \subseteq Counters
    BY ValueFacts
  <2>1. CASE C = Names
    <3>1. Names \subseteq C /\ Names \cap (Counters \ C) = {}
      BY <2>1
    <3>2. WrappedTotal(written, Names) = WrappedTotal(h[s], Names) /\ WrappedTotal(kept, Names) = 0
      BY <1>1, <3>1, SumOnly
    <3> QED
      BY <1>1, <3>2, SumFacts
  <2>2. CASE Names \cap C = {}
    <3>1. Names \subseteq Counters \ C
      BY <2>0, <2>2
    <3>2. WrappedTotal(kept, Names) = WrappedTotal(h[s], Names) /\ WrappedTotal(written, Names) = 0
      BY <1>1, <2>2, <3>1, SumOnly
    <3> QED
      BY <1>1, <3>2, SumFacts
  <2> QED
    BY <2>1, <2>2
<1>6. \A c \in Counters : written[c] + kept[c] = h[s][c]
  BY <1>1, OnlyFacts, ValueFacts
<1> HIDE DEF written, kept, h2, b2
<1>7. /\ \A c \in Counters : /\ InHand(h, c) \in Nat /\ InHand(h2, c) \in Nat
                             /\ InHand(h2, c) + h[s][c] = InHand(h, c) + kept[c]
      /\ EventsInHand(h) \in Nat /\ EventsInHand(h2) \in Nat
      /\ EventsInHand(h2) + WrappedTotal(h[s], Names) = EventsInHand(h) + WrappedTotal(kept, Names)
  <2>1. h2 \in [Submissions -> Values] /\ \A t \in Submissions \ {s} : h2[t] = h[t]
    BY <1>3
  <2>2. /\ \A c \in Counters : /\ InHand(h, c) \in Nat /\ InHand(h2, c) \in Nat
                               /\ InHand(h2, c) + h[s][c] = InHand(h, c) + h2[s][c]
        /\ EventsInHand(h) \in Nat /\ EventsInHand(h2) \in Nat
        /\ EventsInHand(h2) + WrappedTotal(h[s], Names) = EventsInHand(h) + WrappedTotal(h2[s], Names)
    BY ONLY <2>1, h \in [Submissions -> Values], s \in Submissions, HandChange, Zenon
  <2> QED
    BY <1>3, <2>2
<1>8. ASSUME NEW c \in Counters
      PROVE  Same(Account(n, h2, b2, o, c), Account(n, h, b, o, c))
  <2>1. /\ n[c] \in Nat /\ h[s][c] \in Nat /\ written[c] \in Nat /\ kept[c] \in Nat
        /\ b[c] \in Nat /\ b2[c] \in Nat /\ o[c] \in Nat
    BY <1>1, <1>2, ValueFacts
  <2>2. Same(b2[c], b[c] + written[c])
    BY <1>2
  <2>5. /\ InHand(h, c) \in Nat /\ InHand(h2, c) \in Nat
        /\ InHand(h2, c) + h[s][c] = InHand(h, c) + kept[c]
        /\ written[c] + kept[c] = h[s][c]
    BY <1>6, <1>7
  <2>3. Account(n, h2, b2, o, c) - b2[c] = Account(n, h, b, o, c) - (b[c] + written[c])
    BY ONLY <2>1, <2>5 DEF Account
  <2>4. Account(n, h2, b2, o, c) \in Int /\ Account(n, h, b, o, c) \in Int
    BY ONLY <2>1, <2>5 DEF Account
  <2> QED
    BY <2>1, <2>2, <2>3, <2>4, SameShift
<1>9. Same(Shown(h2, b2, o), Shown(h, b, o))
  <2>1. /\ WrappedTotal(b2, Names) \in Nat /\ WrappedTotal(b, Names) \in Nat
        /\ WrappedTotal(o, Names) \in Nat /\ WrappedTotal(h[s], Names) \in Nat
        /\ WrappedTotal(written, Names) \in Nat /\ WrappedTotal(kept, Names) \in Nat
    BY <1>1, <1>2, SumFacts
  <2>2. Shown(h2, b2, o) - WrappedTotal(b2, Names) =
            Shown(h, b, o) - (WrappedTotal(b, Names) + WrappedTotal(written, Names))
    BY <1>5, <1>7, <2>1 DEF Shown
  <2>3. Shown(h2, b2, o) \in Int /\ Shown(h, b, o) \in Int
    BY <1>7, <2>1 DEF Shown
  <2> QED
    BY <1>4, <2>1, <2>2, <2>3, SameShift
<1> QED
  BY <1>2, <1>3, <1>8, <1>9 DEF h2, b2

\* And from the buffer to the server.
LEMMA SendBalance ==
    ASSUME NEW n \in Values, NEW h \in [Submissions -> Values], NEW b \in Values, NEW o \in Values,
           NEW o2, o2 = Plus(o, b)
    PROVE  /\ o2 \in Values
           /\ \A c \in Counters : Same(Account(n, h, None, o2, c), Account(n, h, b, o, c))
           /\ Same(Shown(h, None, o2), Shown(h, b, o))
<1>1. o2 \in Values /\ None \in Values /\ (\A c \in Counters : Same(o2[c], o[c] + b[c]))
      /\ \A c \in Counters : None[c] = 0
  BY PlusFacts, ValueFacts DEF None
<1>2. ASSUME NEW c \in Counters
      PROVE  Same(Account(n, h, None, o2, c), Account(n, h, b, o, c))
  <2>1. /\ n[c] \in Nat /\ InHand(h, c) \in Nat /\ b[c] \in Nat /\ o[c] \in Nat /\ o2[c] \in Nat
        /\ None[c] = 0
    BY <1>1, ValueFacts, HandFacts
  <2>2. Same(o2[c], o[c] + b[c])
    BY <1>1
  <2>3. Account(n, h, None, o2, c) - o2[c] = Account(n, h, b, o, c) - (o[c] + b[c])
    BY <2>1 DEF Account
  <2>4. Account(n, h, None, o2, c) \in Int /\ Account(n, h, b, o, c) \in Int
    BY <2>1 DEF Account
  <2> QED
    BY <2>1, <2>2, <2>3, <2>4, SameShift
<1>3. Same(Shown(h, None, o2), Shown(h, b, o))
  <2>1. /\ WrappedTotal(b, Names) \in Nat /\ WrappedTotal(o, Names) \in Nat
        /\ WrappedTotal(o2, Names) \in Nat /\ EventsInHand(h) \in Nat
        /\ WrappedTotal(None, Names) = 0
    BY <1>1, SumFacts, SumNone, HandFacts
  <2>2. Same(WrappedTotal(o2, Names), WrappedTotal(o, Names) + WrappedTotal(b, Names))
    BY SumPlus
  <2>3. Shown(h, None, o2) - WrappedTotal(o2, Names) =
            Shown(h, b, o) - (WrappedTotal(o, Names) + WrappedTotal(b, Names))
    BY <2>1 DEF Shown
  <2>4. Shown(h, None, o2) \in Int /\ Shown(h, b, o) \in Int
    BY <2>1 DEF Shown
  <2> QED
    BY <2>1, <2>2, <2>3, <2>4, SameShift
<1> QED
  BY <1>1, <1>2, <1>3

-----------------------------------------------------------------------------
\* A step that moves counts, and adds the same to both totals, keeps the balance.
LEMMA BalanceKept ==
    ASSUME NEW n \in Values, NEW h \in [Submissions -> Values], NEW b \in Values, NEW o \in Values,
           NEW n2 \in Values, NEW h2 \in [Submissions -> Values], NEW b2 \in Values, NEW o2 \in Values,
           NEW k \in [Counters -> Nat], NEW st \in Nat, NEW t \in [Submissions -> Nat],
           NEW st2 \in Nat, NEW t2 \in [Submissions -> Nat], NEW x \in Nat,
           Balanced(n, h, b, o, k, st, t),
           \A c \in Counters : Same(Account(n2, h2, b2, o2, c), Account(n, h, b, o, c)),
           Same(Told(st2, t2), Told(st, t) + x),
           Same(Shown(h2, b2, o2), Shown(h, b, o) + x)
    PROVE  Balanced(n2, h2, b2, o2, k, st2, t2)
<1>1. /\ \A c \in Counters : Account(n, h, b, o, c) \in Nat
      /\ Told(st, t) \in Nat /\ Shown(h, b, o) \in Nat
  BY AccountType, ToldType
<1>2. /\ \A c \in Counters : Account(n2, h2, b2, o2, c) \in Nat
      /\ Told(st2, t2) \in Nat /\ Shown(h2, b2, o2) \in Nat
  BY AccountType, ToldType
<1>3. ASSUME NEW c \in Counters PROVE Same(Account(n2, h2, b2, o2, c), k[c])
  <2>1. Same(Account(n, h, b, o, c), k[c]) /\ k[c] \in Nat
    BY DEF Balanced
  <2>2. Same(Account(n2, h2, b2, o2, c), Account(n, h, b, o, c))
    OBVIOUS
  <2>3. Account(n, h, b, o, c) \in Int /\ Account(n2, h2, b2, o2, c) \in Int /\ k[c] \in Int
    BY <1>1, <1>2, <2>1
  <2> QED
    BY ONLY <2>1, <2>2, <2>3, SameTrans
<1>4. Same(Told(st2, t2), Shown(h2, b2, o2))
  <2> DEFINE told   == Told(st, t)
             shown  == Shown(h, b, o)
             told2  == Told(st2, t2)
             shown2 == Shown(h2, b2, o2)
  <2>1. Same(told, shown) /\ Same(told2, told + x) /\ Same(shown2, shown + x)
    BY DEF Balanced
  <2>2. told \in Nat /\ shown \in Nat /\ told2 \in Nat /\ shown2 \in Nat
    BY <1>1, <1>2
  <2> HIDE DEF told, shown, told2, shown2
  <2>3. Same(x, x)
    BY SameRefl
  <2>4. Same(told + x, shown + x)
    BY <2>1, <2>2, <2>3, SamePlus
  <2>5. Same(told2, shown + x)
    BY <2>1, <2>2, <2>4, SameTrans
  <2>6. Same(shown + x, shown2)
    BY <2>1, <2>2, SameSym
  <2>7. Same(told2, shown2)
    BY <2>2, <2>5, <2>6, SameTrans
  <2> QED
    BY <2>7 DEF told2, shown2
<1> QED
  BY <1>3, <1>4 DEF Balanced

\* The totals of a submission, when one of them changes.
LEMMA ToldChange ==
    ASSUME NEW t \in [Submissions -> Nat], NEW u \in [Submissions -> Nat], NEW s \in Submissions,
           \A r \in Submissions \ {s} : u[r] = t[r]
    PROVE  /\ Total(t, Submissions) \in Nat /\ Total(u, Submissions) \in Nat
           /\ Total(u, Submissions) + t[s] = Total(t, Submissions) + u[s]
<1>1. IsFiniteSet(Submissions) /\ \A r \in Submissions : t[r] \in Nat /\ u[r] \in Nat
  BY ValueFacts
<1> QED
  BY <1>1, TotalChange

-----------------------------------------------------------------------------
\* The steps, one by one.
LEMMA MetricsInitInvariant == MetricsInit => MetricsIInv
<1> SUFFICES ASSUME MetricsInit PROVE MetricsIInv
  OBVIOUS
<1>1. MetricsTypeOK
  <2>1. None \in Values /\ 0 \in 0..(Wrap - 1)
    BY ValueFacts
  <2>2. None \in [Counters -> 0..MaxCounts]
    BY MetricsAssumption DEF None
  <2> QED
    BY <2>1, <2>2 DEF MetricsInit, MetricsTypeOK
<1>2. TotalsTaken
  BY DEF MetricsInit, TotalsTaken
<1>3. Balanced(count, hand, buffer, sent, counted, statistics, totalEvents)
  <2>1. /\ count = None /\ buffer = None /\ sent = None /\ counted = None /\ statistics = 0
        /\ \A s \in Submissions : hand[s] = None /\ totalEvents[s] = 0
    BY DEF MetricsInit
  <2>2. \A c \in Counters : None[c] = 0
    BY DEF None
  <2>3. Total(totalEvents, Submissions) = 0
    BY <2>1, ValueFacts, TotalZero
  <2>4. ASSUME NEW c \in Counters PROVE InHand(hand, c) = 0
    <3> DEFINE p == [t \in Submissions |-> hand[t][c]]
    <3>1. \A t \in Submissions : p[t] = 0
      BY <2>1, <2>2
    <3> HIDE DEF p
    <3>2. Total(p, Submissions) = 0
      BY <3>1, ValueFacts, TotalZero
    <3> QED
      BY <3>2 DEF p, InHand
  <2>5. EventsInHand(hand) = 0
    <3> DEFINE p == [t \in Submissions |-> WrappedTotal(hand[t], Names)]
    <3>1. \A t \in Submissions : p[t] = 0
      BY <2>1, SumNone
    <3> HIDE DEF p
    <3>2. Total(p, Submissions) = 0
      BY <3>1, ValueFacts, TotalZero
    <3> QED
      BY <3>2 DEF p, EventsInHand
  <2>6. \A c \in Counters : Account(count, hand, buffer, sent, c) = 0 /\ counted[c] = 0
    BY <2>1, <2>2, <2>4 DEF Account
  <2>7. Told(statistics, totalEvents) = 0 /\ Shown(hand, buffer, sent) = 0
    BY <2>1, <2>3, <2>5, SumNone DEF Told, Shown
  <2>8. Same(0, 0)
    BY SameRefl
  <2> QED
    BY <2>6, <2>7, <2>8 DEF Balanced
<1> QED
  BY <1>1, <1>2, <1>3, BalanceBefore DEF MetricsIInv

LEMMA IncrementStep ==
    ASSUME MetricsIInv, NEW c \in Counters, Increment(c)
    PROVE  MetricsIInv'
<1>0. /\ MetricsTypeOK /\ TotalsTaken
      /\ Balanced(count, hand, buffer, sent, counted, statistics, totalEvents)
  BY BalanceBefore DEF MetricsIInv
<1>1. /\ count' = [count EXCEPT ![c] = Wrapped(@ + 1)]
      /\ counted' = [counted EXCEPT ![c] = @ + 1]
      /\ Total(counted, Counters) < MaxCounts
      /\ UNCHANGED <<step, hand, totalEvents, buffer, sent, statistics, signals, ticking, exited>>
  BY DEF Increment, submissions, points, process
<1>2. /\ count \in Values /\ counted \in [Counters -> Nat] /\ count[c] \in Nat /\ counted[c] \in Nat
      /\ MaxCounts \in Nat
  BY <1>0, TypeFacts, ValueFacts, MetricsAssumption
<1>3. Wrapped(count[c] + 1) \in 0..(Wrap - 1) /\ Same(Wrapped(count[c] + 1), count[c] + 1)
  BY <1>2, WrappedFacts
<1>4. counted[c] + 1 \in 0..MaxCounts
  <2>1. \A d \in Counters : counted[d] \in Nat
    BY <1>2
  <2>2. counted[c] <= Total(counted, Counters) /\ Total(counted, Counters) \in Nat
    BY <2>1, ValueFacts, TotalBound, TotalOverSet
  <2> QED
    BY <1>1, <1>2, <2>2
<1>5. MetricsTypeOK'
  <2>1. count' \in Values
    BY <1>1, <1>2, <1>3 DEF Values
  <2>2. counted' \in [Counters -> 0..MaxCounts]
    BY <1>0, <1>1, <1>4 DEF MetricsTypeOK
  <2> QED
    BY <1>0, <1>1, <2>1, <2>2 DEF MetricsTypeOK
<1>6. TotalsTaken'
  BY <1>0, <1>1 DEF TotalsTaken
<1>7. ASSUME NEW d \in Counters PROVE Same(Account(count', hand, buffer, sent, d), counted'[d])
  <2>1. Same(Account(count, hand, buffer, sent, d), counted[d])
    BY <1>0 DEF Balanced
  <2>2. /\ count[d] \in Nat /\ InHand(hand, d) \in Nat /\ buffer[d] \in Nat /\ sent[d] \in Nat
        /\ counted[d] \in Nat
    BY <1>0, TypeFacts, ValueFacts, HandFacts
  <2>3. CASE d # c
    <3>1. count'[d] = count[d] /\ counted'[d] = counted[d]
      BY <1>1, <1>2, <2>3 DEF Values
    <3> QED
      BY <2>1, <3>1 DEF Account
  <2>4. CASE d = c
    <3> DEFINE n == Wrapped(count[c] + 1)
    <3>1. count'[c] = n /\ counted'[c] = counted[c] + 1
      BY <1>1, <1>2 DEF Values
    <3>2. n \in Nat /\ Same(n, count[c] + 1)
      BY <1>3, ValueFacts
    <3> HIDE DEF n
    <3>3. Account(count', hand, buffer, sent, c) - n
            = (Account(count, hand, buffer, sent, c) + 1) - (count[c] + 1)
      BY <2>2, <2>4, <3>1, <3>2 DEF Account
    <3>4. /\ Account(count', hand, buffer, sent, c) \in Int
          /\ Account(count, hand, buffer, sent, c) \in Int
          /\ Account(count, hand, buffer, sent, c) + 1 \in Int
          /\ count[c] + 1 \in Int /\ n \in Int /\ counted[c] \in Int /\ counted[c] + 1 \in Int
      BY <2>2, <2>4, <3>1, <3>2 DEF Account
    <3>5. Same(Account(count', hand, buffer, sent, c), Account(count, hand, buffer, sent, c) + 1)
      BY <3>2, <3>3, <3>4, SameShift
    <3>6. Same(Account(count, hand, buffer, sent, c) + 1, counted[c] + 1)
      <4>1. Same(1, 1) /\ 1 \in Int
        BY SameRefl
      <4>2. Same(Account(count, hand, buffer, sent, c), counted[c])
        BY <2>1, <2>4
      <4> QED
        BY <3>4, <4>1, <4>2, SamePlus
    <3>7. Same(Account(count', hand, buffer, sent, c), counted[c] + 1)
      BY <3>4, <3>5, <3>6, SameTrans
    <3> QED
      BY <2>4, <3>1, <3>7
  <2> QED
    BY <2>3, <2>4
<1>8. Balanced(count', hand', buffer', sent', counted', statistics', totalEvents')
  BY <1>0, <1>1, <1>7 DEF Balanced
<1> QED
  BY <1>5, <1>6, <1>8, BalanceAfter DEF MetricsIInv

\* The steps that move nothing: a submission starts; signals, and the end of the process.
LEMMA IdleStep ==
    ASSUME MetricsIInv, MetricsTypeOK', TotalsTaken',
           UNCHANGED <<count, hand, totalEvents, buffer, sent, statistics, counted>>
    PROVE  MetricsIInv'
<1>1. Balanced(count, hand, buffer, sent, counted, statistics, totalEvents)
  BY BalanceBefore DEF MetricsIInv
<1>2. Balanced(count', hand', buffer', sent', counted', statistics', totalEvents')
  BY <1>1
<1> QED
  BY <1>2, BalanceAfter DEF MetricsIInv

LEMMA TickStep ==
    ASSUME MetricsIInv, NEW s \in Submissions, Tick(s)
    PROVE  MetricsIInv'
<1>1. /\ step[s] = "idle"
      /\ step' = [step EXCEPT ![s] = "queries"]
      /\ UNCHANGED <<count, hand, totalEvents, buffer, sent, statistics, signals, ticking, exited, counted>>
  BY DEF Tick, GoesOn, process
<1>2. MetricsTypeOK'
  BY <1>1 DEF MetricsIInv, MetricsTypeOK
<1>3. TotalsTaken'
  BY <1>1 DEF MetricsIInv, MetricsTypeOK, TotalsTaken
<1> QED
  BY <1>1, <1>2, <1>3, IdleStep

LEMMA ProcessStep ==
    ASSUME MetricsIInv, Interrupt \/ Terminate \/ Exit \/ UNCHANGED metricsVars
    PROVE  MetricsIInv'
<1>1. UNCHANGED <<count, step, hand, totalEvents, buffer, sent, statistics, counted, ticking>>
  BY DEF Interrupt, Terminate, Exit, metricsVars, submissions, points, process
<1>2. /\ signals' \subseteq {"SIGINT", "SIGTERM"}
      /\ exited' \in BOOLEAN
      /\ signals' = {} => ticking
  BY DEF Interrupt, Terminate, Exit, metricsVars, process, MetricsIInv, MetricsTypeOK
<1>3. MetricsTypeOK'
  BY <1>1, <1>2 DEF MetricsIInv, MetricsTypeOK
<1>4. TotalsTaken'
  BY <1>1 DEF MetricsIInv, TotalsTaken
<1> QED
  BY <1>1, <1>3, <1>4, IdleStep

LEMMA SendStep ==
    ASSUME MetricsIInv, Send \/ Flush
    PROVE  MetricsIInv'
<1>1. /\ sent' = Plus(sent, buffer) /\ buffer' = None
      /\ UNCHANGED <<count, step, hand, totalEvents, statistics, signals, exited, counted>>
      /\ ticking' \in {ticking, FALSE} /\ (signals = {} => ticking' = ticking)
  BY DEF Send, Flush, SendBuffer, submissions, process
<1>2. /\ MetricsTypeOK /\ TotalsTaken
      /\ Balanced(count, hand, buffer, sent, counted, statistics, totalEvents)
  BY BalanceBefore DEF MetricsIInv
<1>3. /\ count \in Values /\ hand \in [Submissions -> Values] /\ buffer \in Values /\ sent \in Values
      /\ counted \in [Counters -> Nat] /\ statistics \in Nat
      /\ totalEvents \in [Submissions -> Nat]
  BY <1>2, TypeFacts
<1>4. /\ sent' \in Values /\ None \in Values
      /\ \A c \in Counters : Same(Account(count, hand, None, sent', c), Account(count, hand, buffer, sent, c))
      /\ Same(Shown(hand, None, sent'), Shown(hand, buffer, sent))
  BY <1>1, <1>3, SendBalance, ValueFacts
<1>5. MetricsTypeOK'
  BY <1>1, <1>2, <1>4 DEF MetricsTypeOK
<1>6. TotalsTaken'
  BY <1>1, <1>2 DEF TotalsTaken
<1>7. Balanced(count, hand, None, sent', counted, statistics, totalEvents)
  <2> DEFINE told  == Told(statistics, totalEvents)
             shown == Shown(hand, buffer, sent)
  <2>1. told \in Nat /\ shown \in Nat
    BY <1>3, AccountType, ToldType
  <2>2. told + 0 = told /\ shown + 0 = shown /\ Same(told, told + 0)
    <3> HIDE DEF told, shown
    <3>1. told + 0 = told /\ shown + 0 = shown
      BY <2>1
    <3>2. Same(told, told)
      BY <2>1, SameRefl
    <3> QED
      BY <3>1, <3>2
  <2>3. Same(Shown(hand, None, sent'), shown + 0)
    BY <1>4, <2>2
  <2> QED
    BY <1>2, <1>3, <1>4, <2>2, <2>3, BalanceKept
<1> QED
  BY <1>1, <1>5, <1>6, <1>7, BalanceAfter DEF MetricsIInv

\* A submission takes the counters of C: the queries, the commands or the requests.
LEMMA TakeStep ==
    ASSUME MetricsIInv, NEW s \in Submissions, NEW C, Names \cap C = {}, Take(s, C),
           UNCHANGED <<totalEvents, buffer, sent, statistics, signals, ticking, exited, counted>>,
           NEW to, step' = [step EXCEPT ![s] = to],
           step[s] \in {"queries", "commands", "requests"}, to \in {"commands", "events", "writing requests"},
           step[s] = "requests" => to = "writing requests"
    PROVE  MetricsIInv'
<1>1. /\ MetricsTypeOK /\ TotalsTaken
      /\ Balanced(count, hand, buffer, sent, counted, statistics, totalEvents)
  BY BalanceBefore DEF MetricsIInv
<1>2. /\ count \in Values /\ hand \in [Submissions -> Values] /\ buffer \in Values /\ sent \in Values
      /\ counted \in [Counters -> Nat] /\ statistics \in Nat
      /\ totalEvents \in [Submissions -> Nat]
  BY <1>1, TypeFacts
<1>3. hand' = Taken(count, hand, s, C) /\ count' = Left(count, C)
  BY DEF Take, Taken, Left
<1>4. /\ count' \in Values /\ hand' \in [Submissions -> Values]
      /\ \A c \in Counters : Same(Account(count', hand', buffer, sent, c),
                                  Account(count, hand, buffer, sent, c))
      /\ Same(Shown(hand', buffer, sent), Shown(hand, buffer, sent))
  BY <1>2, <1>3, TakeBalance
<1>5. MetricsTypeOK'
  BY <1>1, <1>4 DEF MetricsTypeOK
<1>6. TotalsTaken'
  BY <1>1 DEF TotalsTaken, MetricsTypeOK
<1>7. Balanced(count', hand', buffer, sent, counted, statistics, totalEvents)
  <2> DEFINE told  == Told(statistics, totalEvents)
             shown == Shown(hand, buffer, sent)
  <2>1. told \in Nat /\ shown \in Nat
    BY <1>2, AccountType, ToldType
  <2>2. told + 0 = told /\ shown + 0 = shown /\ Same(told, told + 0)
    <3> HIDE DEF told, shown
    <3>1. told + 0 = told /\ shown + 0 = shown
      BY ONLY <2>1
    <3>2. Same(told, told)
      BY ONLY <2>1, SameRefl
    <3> QED
      BY <3>1, <3>2
  <2>3. Same(Shown(hand', buffer, sent), shown + 0)
    BY <1>4, <2>2
  <2> QED
    BY <1>1, <1>2, <1>4, <2>2, <2>3, BalanceKept
<1> QED
  BY <1>5, <1>6, <1>7, BalanceAfter DEF MetricsIInv

\* It takes the events, and their total.
LEMMA TakeEventsStep ==
    ASSUME MetricsIInv, NEW s \in Submissions, TakeEvents(s)
    PROVE  MetricsIInv'
<1>1. /\ MetricsTypeOK /\ TotalsTaken
      /\ Balanced(count, hand, buffer, sent, counted, statistics, totalEvents)
  BY BalanceBefore DEF MetricsIInv
<1>2. /\ count \in Values /\ hand \in [Submissions -> Values] /\ buffer \in Values /\ sent \in Values
      /\ counted \in [Counters -> Nat] /\ statistics \in Nat
      /\ totalEvents \in [Submissions -> Nat]
  BY <1>1, TypeFacts
<1>3. /\ hand' = Taken(count, hand, s, Names) /\ count' = Left(count, Names)
      /\ totalEvents' = [totalEvents EXCEPT ![s] = WrappedTotal(count, Names)]
      /\ step[s] = "events" /\ step' = [step EXCEPT ![s] = "writing events"]
      /\ UNCHANGED <<buffer, sent, statistics, signals, ticking, exited, counted>>
  BY DEF TakeEvents, Take, GoesOn, process, Taken, Left
<1>4. /\ count' \in Values /\ hand' \in [Submissions -> Values]
      /\ \A c \in Counters : Same(Account(count', hand', buffer, sent, c),
                                  Account(count, hand, buffer, sent, c))
      /\ Same(Shown(hand', buffer, sent), Shown(hand, buffer, sent) + WrappedTotal(count, Names))
  BY <1>2, <1>3, TakeBalance
<1>5. WrappedTotal(count, Names) \in 0..(Wrap - 1) /\ WrappedTotal(count, Names) \in Nat
  BY <1>2, SumFacts
<1>6. MetricsTypeOK'
  <2>1. totalEvents' \in [Submissions -> 0..(Wrap - 1)]
    BY <1>1, <1>3, <1>5 DEF MetricsTypeOK
  <2>2. step' \in [Submissions -> {"idle", "queries", "commands", "events", "writing events",
                                   "requests", "writing requests", "measuring"}]
    BY <1>1, <1>3 DEF MetricsTypeOK
  <2> QED
    BY <1>1, <1>3, <1>4, <2>1, <2>2 DEF MetricsTypeOK
<1>7. TotalsTaken'
  BY <1>1, <1>3 DEF TotalsTaken, MetricsTypeOK
<1>8. Told(statistics, totalEvents') = Told(statistics, totalEvents) + WrappedTotal(count, Names)
  <2>1. totalEvents[s] = 0
    BY <1>1, <1>3 DEF TotalsTaken
  <2>2. /\ totalEvents' \in [Submissions -> Nat] /\ totalEvents'[s] = WrappedTotal(count, Names)
        /\ \A r \in Submissions \ {s} : totalEvents'[r] = totalEvents[r]
    BY <1>2, <1>3, <1>5
  <2>3. /\ Total(totalEvents, Submissions) \in Nat /\ Total(totalEvents', Submissions) \in Nat
        /\ Total(totalEvents', Submissions) + totalEvents[s]
             = Total(totalEvents, Submissions) + totalEvents'[s]
    BY <1>2, <2>2, ToldChange
  <2> QED
    BY <1>2, <1>5, <2>1, <2>2, <2>3 DEF Told
<1>9. Balanced(count', hand', buffer, sent, counted, statistics, totalEvents')
  <2>1. totalEvents' \in [Submissions -> Nat]
    BY <1>2, <1>3, <1>5
  <2>2. Told(statistics, totalEvents') \in Nat
    BY <1>2, <2>1, AccountType, ToldType
  <2>3. Same(Told(statistics, totalEvents'), Told(statistics, totalEvents) + WrappedTotal(count, Names))
    BY <1>8, <2>2, SameRefl
  <2> QED
    BY <1>1, <1>2, <1>4, <1>5, <2>1, <2>3, BalanceKept
<1> QED
  BY <1>3, <1>6, <1>7, <1>9, BalanceAfter DEF MetricsIInv

\* It writes the counters of C to the buffer: the events or the requests.
LEMMA WriteStep ==
    ASSUME MetricsIInv, NEW s \in Submissions, NEW C, C = Names \/ Names \cap C = {}, Write(s, C),
           UNCHANGED <<count, totalEvents, sent, statistics, signals, ticking, exited, counted>>,
           NEW to, to \in {"requests", "measuring"}, step' = [step EXCEPT ![s] = to]
    PROVE  MetricsIInv'
<1>1. /\ MetricsTypeOK /\ TotalsTaken
      /\ Balanced(count, hand, buffer, sent, counted, statistics, totalEvents)
  BY BalanceBefore DEF MetricsIInv
<1>2. /\ count \in Values /\ hand \in [Submissions -> Values] /\ buffer \in Values /\ sent \in Values
      /\ counted \in [Counters -> Nat] /\ statistics \in Nat
      /\ totalEvents \in [Submissions -> Nat]
  BY <1>1, TypeFacts
<1>3. buffer' = Written(buffer, hand, s, C) /\ hand' = Kept(hand, s, C)
  BY DEF Write, Written, Kept
<1>4. /\ buffer' \in Values /\ hand' \in [Submissions -> Values]
      /\ \A c \in Counters : Same(Account(count, hand', buffer', sent, c),
                                  Account(count, hand, buffer, sent, c))
      /\ Same(Shown(hand', buffer', sent), Shown(hand, buffer, sent))
  BY <1>2, <1>3, WriteBalance
<1>5. MetricsTypeOK'
  BY <1>1, <1>4 DEF MetricsTypeOK
<1>6. TotalsTaken'
  BY <1>1 DEF TotalsTaken, MetricsTypeOK
<1>7. Balanced(count, hand', buffer', sent, counted, statistics, totalEvents)
  <2> DEFINE told  == Told(statistics, totalEvents)
             shown == Shown(hand, buffer, sent)
  <2>1. told \in Nat /\ shown \in Nat
    BY <1>2, AccountType, ToldType
  <2>2. told + 0 = told /\ shown + 0 = shown /\ Same(told, told + 0)
    <3> HIDE DEF told, shown
    <3>1. told + 0 = told /\ shown + 0 = shown
      BY ONLY <2>1
    <3>2. Same(told, told)
      BY ONLY <2>1, SameRefl
    <3> QED
      BY <3>1, <3>2
  <2>3. Same(Shown(hand', buffer', sent), shown + 0)
    BY <1>4, <2>2
  <2> QED
    BY <1>1, <1>2, <1>4, <2>2, <2>3, BalanceKept
<1> QED
  BY <1>5, <1>6, <1>7, BalanceAfter DEF MetricsIInv

\* It writes the statistics, with the total of the events it took.
LEMMA WriteStatisticsStep ==
    ASSUME MetricsIInv, NEW s \in Submissions, WriteStatistics(s)
    PROVE  MetricsIInv'
<1>1. /\ MetricsTypeOK /\ TotalsTaken
      /\ Balanced(count, hand, buffer, sent, counted, statistics, totalEvents)
  BY BalanceBefore DEF MetricsIInv
<1>2. /\ count \in Values /\ hand \in [Submissions -> Values] /\ buffer \in Values /\ sent \in Values
      /\ counted \in [Counters -> Nat] /\ statistics \in Nat
      /\ totalEvents \in [Submissions -> Nat]
  BY <1>1, TypeFacts
<1> DEFINE C == {Queries, Commands}
<1>3. /\ buffer' = Written(buffer, hand, s, C) /\ hand' = Kept(hand, s, C)
      /\ statistics' = Wrapped(statistics + totalEvents[s])
      /\ totalEvents' = [totalEvents EXCEPT ![s] = 0]
      /\ step' = [step EXCEPT ![s] = "idle"]
      /\ UNCHANGED <<count, sent, signals, ticking, exited, counted>>
  BY DEF WriteStatistics, Write, GoesOn, process, Written, Kept
<1>4. Names \cap C = {}
  BY MetricsAssumption
<1> HIDE DEF C
<1>5. /\ buffer' \in Values /\ hand' \in [Submissions -> Values]
      /\ \A c \in Counters : Same(Account(count, hand', buffer', sent, c),
                                  Account(count, hand, buffer, sent, c))
      /\ Same(Shown(hand', buffer', sent), Shown(hand, buffer, sent))
  BY <1>2, <1>3, <1>4, WriteBalance
<1>6. /\ totalEvents[s] \in Nat /\ statistics + totalEvents[s] \in Nat
      /\ statistics' \in 0..(Wrap - 1) /\ statistics' \in Nat
      /\ Same(statistics', statistics + totalEvents[s])
  <2>1. totalEvents[s] \in Nat /\ statistics + totalEvents[s] \in Nat
    BY <1>2
  <2> QED
    BY <1>3, <2>1, WrappedFacts, ValueFacts
<1>7. MetricsTypeOK'
  <2>1. totalEvents' \in [Submissions -> 0..(Wrap - 1)]
    BY <1>1, <1>3, ValueFacts DEF MetricsTypeOK
  <2>2. step' \in [Submissions -> {"idle", "queries", "commands", "events", "writing events",
                                   "requests", "writing requests", "measuring"}]
    BY <1>1, <1>3 DEF MetricsTypeOK
  <2> QED
    BY <1>1, <1>3, <1>5, <1>6, <2>1, <2>2 DEF MetricsTypeOK
<1>8. TotalsTaken'
  BY <1>1, <1>3 DEF TotalsTaken, MetricsTypeOK
<1>9. totalEvents' \in [Submissions -> Nat]
  BY <1>2, <1>3
<1>10. Same(Told(statistics', totalEvents'), Told(statistics, totalEvents) + 0)
  <2>1. totalEvents'[s] = 0 /\ \A r \in Submissions \ {s} : totalEvents'[r] = totalEvents[r]
    BY <1>2, <1>3
  <2>2. /\ Total(totalEvents, Submissions) \in Nat /\ Total(totalEvents', Submissions) \in Nat
        /\ Total(totalEvents', Submissions) + totalEvents[s]
             = Total(totalEvents, Submissions) + totalEvents'[s]
    BY <1>2, <1>9, <2>1, ToldChange
  <2>3. Told(statistics', totalEvents') - statistics' =
            (Told(statistics, totalEvents) + 0) - (statistics + totalEvents[s])
    BY <1>2, <1>6, <2>1, <2>2 DEF Told
  <2>4. Told(statistics', totalEvents') \in Int /\ Told(statistics, totalEvents) + 0 \in Int
    BY <1>2, <1>6, <2>2 DEF Told
  <2>5. statistics' \in Int /\ statistics + totalEvents[s] \in Int
    BY <1>6
  <2> QED
    BY <1>6, <2>3, <2>4, <2>5, SameShift
<1>11. Balanced(count, hand', buffer', sent, counted, statistics', totalEvents')
  <2>1. Shown(hand, buffer, sent) \in Nat
    BY <1>2, AccountType, ToldType
  <2>2. Same(Shown(hand', buffer', sent), Shown(hand, buffer, sent) + 0)
    BY <1>5, <2>1
  <2> QED
    BY <1>1, <1>2, <1>5, <1>6, <1>9, <1>10, <2>2, BalanceKept
<1> QED
  BY <1>3, <1>7, <1>8, <1>11, BalanceAfter DEF MetricsIInv

LEMMA MetricsStep ==
    ASSUME MetricsIInv, [MetricsNext]_metricsVars
    PROVE  MetricsIInv'
<1>1. CASE \E c \in Counters : Increment(c)
  BY <1>1, IncrementStep
<1>2. ASSUME NEW s \in Submissions, Submit(s) PROVE MetricsIInv'
  <2>0. Names \cap {Queries} = {} /\ Names \cap {Commands} = {} /\ Names \cap Endpoints = {}
    BY MetricsAssumption
  <2>1. CASE Tick(s)
    BY <2>1, TickStep
  <2>2. CASE TakeQueries(s)
    BY <2>0, <2>2, TakeStep DEF TakeQueries, GoesOn, process
  <2>3. CASE TakeCommands(s)
    BY <2>0, <2>3, TakeStep DEF TakeCommands, GoesOn, process
  <2>4. CASE TakeEvents(s)
    BY <2>4, TakeEventsStep
  <2>5. CASE WriteEvents(s)
    BY <2>5, WriteStep DEF WriteEvents, GoesOn, process
  <2>6. CASE TakeRequests(s)
    BY <2>0, <2>6, TakeStep DEF TakeRequests, GoesOn, process
  <2>7. CASE WriteRequests(s)
    BY <2>0, <2>7, WriteStep DEF WriteRequests, GoesOn, process
  <2>8. CASE WriteStatistics(s)
    BY <2>8, WriteStatisticsStep
  <2> QED
    BY <1>2, <2>1, <2>2, <2>3, <2>4, <2>5, <2>6, <2>7, <2>8 DEF Submit
<1>3. CASE Send \/ Flush
  BY <1>3, SendStep
<1>4. CASE Interrupt \/ Terminate \/ Exit \/ UNCHANGED metricsVars
  BY <1>4, ProcessStep
<1> QED
  BY <1>1, <1>2, <1>3, <1>4 DEF MetricsNext

\* Each part of the inductive invariant of Metrics holds throughout, for any counters,
\* any width of them and any number of submissions that overlap.
THEOREM MetricsInvariance == MetricsSpec => []MetricsIInv
<1>1. MetricsIInv /\ [MetricsNext]_metricsVars => MetricsIInv'
  BY MetricsStep
<1> QED
  BY MetricsInitInvariant, <1>1, PTL DEF MetricsSpec

\* Whatever is counted is reported once, and once in the statistics too: nothing is lost or
\* doubled between the mutexes of submitInner, between the points or at the end of the
\* process.
THEOREM CountsReportedOnce == MetricsSpec => []AccountsBalance
<1>1. MetricsIInv => AccountsBalance
  BY DEF MetricsIInv
<1> QED
  BY MetricsInvariance, <1>1, PTL
=============================================================================
