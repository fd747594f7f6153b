------------------------- MODULE WebhookCacheProofs -------------------------
(***************************************************************************)
(* Proofs about WebhookCache: the inductive invariant IInv, from it that   *)
(* embeds only get lost by faults and reach the channel they are meant     *)
(* for, and the bound on the webhooks of a channel, for any number of      *)
(* calls, channels, webhooks and faults.                                   *)
(***************************************************************************)
EXTENDS WebhookCache, FiniteSetTheorems, SequenceTheorems, WellFoundedInduction, TLAPS

-----------------------------------------------------------------------------
\* A set of indices has a least one.
LEMMA LeastIndex ==
    ASSUME NEW S, S \subseteq Nat, S # {}
    PROVE  \E i \in S : \A j \in S : i <= j
<1>1. PICK i \in S : \A j \in S : <<j, i>> \notin OpToRel(<, Nat)
  BY WFMin, NatLessThanWellFounded, Zenon
<1>2. \A j \in S : j \in Nat /\ i \in Nat /\ ~(j < i)
  BY <1>1 DEF OpToRel
<1> QED
  BY <1>2

\* A list has finitely many webhooks of the bot's, and FirstOwn finds one.
LEMMA OwnFacts ==
    ASSUME NEW list \in Seq(Hooks)
    PROVE  /\ IsFiniteSet(Own(list)) /\ Own(list) \subseteq Sends
           /\ Cardinality(Own(list)) \in Nat
           /\ FirstOwn(list) \in Own(list) \cup {NoHook}
           /\ ready /\ FirstOwn(list) = NoHook => Own(list) = {}
<1>1. list \in Surjection(1..Len(list), ToSet(list))
  BY DEF Surjection, ToSet
<1>2. IsFiniteSet(ToSet(list))
  BY <1>1, FS_Interval, FS_Surjection
<1>3. IsFiniteSet(Own(list)) /\ Cardinality(Own(list)) \in Nat
  BY <1>2, FS_Subset, FS_CardinalityType DEF Own
<1> DEFINE own == {i \in DOMAIN list : list[i] \in Sends}
<1>4. own \subseteq Nat /\ (own = {} <=> Own(list) = {})
  BY DEF Own, ToSet
<1>5. own # {} => list[CHOOSE i \in own : \A j \in own : i <= j] \in Own(list)
  <2>1. own # {} => (CHOOSE i \in own : \A j \in own : i <= j) \in own
    BY <1>4, LeastIndex
  <2> QED
    BY <2>1 DEF Own, ToSet
<1>6. FirstOwn(list) = IF ready /\ own # {}
                       THEN list[CHOOSE i \in own : \A j \in own : i <= j]
                       ELSE NoHook
  BY DEF FirstOwn
<1>7. NoHook \notin Own(list)
  BY WebhookCacheAssumption DEF Own, Hooks
<1> HIDE DEF own
<1> QED
  BY <1>3, <1>4, <1>5, <1>6, <1>7 DEF Own

\* What Create and DeleteHook make of a list.
LEMMA AppendOwn ==
    ASSUME NEW list \in Seq(Hooks), NEW s \in Sends
    PROVE  Append(list, s) \in Seq(Hooks) /\ Own(Append(list, s)) = Own(list) \cup {s}
<1>1. /\ Append(list, s) \in Seq(Hooks) /\ Len(list) \in Nat
      /\ DOMAIN list = 1..Len(list) /\ DOMAIN Append(list, s) = 1..(Len(list) + 1)
      /\ \A i \in 1..Len(list) : Append(list, s)[i] = list[i]
      /\ Append(list, s)[Len(list) + 1] = s
  BY DEF Hooks
<1>2. ToSet(Append(list, s)) = ToSet(list) \cup {s}
  <2>1. ASSUME NEW k \in ToSet(Append(list, s)) PROVE k \in ToSet(list) \cup {s}
    <3>1. PICK i \in 1..(Len(list) + 1) : k = Append(list, s)[i]
      BY <1>1 DEF ToSet
    <3>2. i \in 1..Len(list) \/ i = Len(list) + 1
      BY <1>1
    <3> QED
      BY <1>1, <3>1, <3>2 DEF ToSet
  <2>2. ASSUME NEW k \in ToSet(list) PROVE k \in ToSet(Append(list, s))
    <3>1. PICK i \in 1..Len(list) : k = list[i]
      BY <1>1 DEF ToSet
    <3>2. i \in 1..(Len(list) + 1)
      BY <1>1
    <3> QED
      BY <1>1, <3>1, <3>2 DEF ToSet
  <2>3. s \in ToSet(Append(list, s))
    <3>1. Len(list) + 1 \in 1..(Len(list) + 1)
      BY <1>1
    <3> QED
      BY <1>1, <3>1 DEF ToSet
  <2> QED
    BY <2>1, <2>2, <2>3
<1> QED
  BY <1>1, <1>2 DEF Own

LEMMA RemoveOwn ==
    ASSUME NEW list \in Seq(Hooks), NEW i \in DOMAIN list
    PROVE  RemoveAt(list, i) \in Seq(Hooks) /\ Own(RemoveAt(list, i)) \subseteq Own(list)
<1> DEFINE a == SubSeq(list, 1, i - 1)
           b == SubSeq(list, i + 1, Len(list))
<1>0. ASSUME NEW n \in Nat, NEW m \in 1..n, NEW la \in Nat, NEW lb \in Nat, NEW j \in 1..la + lb,
             la = m - 1, lb = n - m, ~(j <= la)
      PROVE  j - la \in 1..lb /\ m + (j - la) \in 1..n
  BY <1>0
<1>1. i \in 1..Len(list) /\ Len(list) \in Nat
  OBVIOUS
<1>2. /\ a \in Seq(Hooks) /\ Len(a) = i - 1
      /\ \A j \in 1..Len(a) : a[j] = list[j]
  BY <1>1
<1>3. /\ b \in Seq(Hooks) /\ Len(b) = Len(list) - i
      /\ \A j \in 1..Len(b) : b[j] = list[i + j]
  BY <1>1
<1>4. RemoveAt(list, i) = a \o b
  BY DEF RemoveAt
<1> HIDE DEF a, b
<1>5. /\ a \o b \in Seq(Hooks) /\ Len(a \o b) = Len(a) + Len(b)
      /\ \A j \in 1..Len(a) + Len(b) :
            (a \o b)[j] = IF j <= Len(a) THEN a[j] ELSE b[j - Len(a)]
  BY <1>2, <1>3, ConcatProperties
<1>6. ASSUME NEW j \in DOMAIN (a \o b) PROVE \E l \in DOMAIN list : (a \o b)[j] = list[l]
  <2>0. j \in 1..Len(a) + Len(b) /\ Len(a) \in Nat /\ Len(b) \in Nat
    BY <1>2, <1>3, <1>5
  <2>1. CASE j <= Len(a)
    <3>1. j \in 1..Len(a) /\ j \in 1..Len(list)
      BY <1>1, <1>2, <2>0, <2>1
    <3>2. (a \o b)[j] = list[j]
      BY <1>2, <1>5, <2>0, <2>1, <3>1
    <3>3. j \in DOMAIN list
      BY <3>1
    <3> QED
      BY <3>2, <3>3
  <2>2. CASE ~(j <= Len(a))
    <3>1. j - Len(a) \in 1..Len(b) /\ i + (j - Len(a)) \in 1..Len(list)
      <4>1. /\ j \in 1..Len(a) + Len(b) /\ Len(a) \in Nat /\ Len(b) \in Nat /\ ~(j <= Len(a))
            /\ Len(a) = i - 1 /\ Len(b) = Len(list) - i /\ i \in 1..Len(list) /\ Len(list) \in Nat
        BY <1>1, <1>2, <1>3, <2>0, <2>2
      <4> QED
        BY <4>1, <1>0
    <3>2. (a \o b)[j] = list[i + (j - Len(a))]
      BY <1>3, <1>5, <2>0, <2>2, <3>1
    <3> QED
      BY <3>1, <3>2
  <2> QED
    BY <2>1, <2>2
<1>7. ToSet(a \o b) \subseteq ToSet(list)
  BY <1>6 DEF ToSet
<1> QED
  BY <1>4, <1>5, <1>7 DEF Own

-----------------------------------------------------------------------------
LEMMA InitInvariant == Init => IInv
<1> SUFFICES ASSUME Init PROVE IInv
  OBVIOUS
<1> USE WebhookCacheAssumption
<1>1. \A c \in Channels : Own(webhooks[c]) = {}
  <2>1. ASSUME NEW c \in Channels PROVE ToSet(webhooks[c]) \subseteq ForeignHooks
    BY DEF Init, ForeignHooks
  <2> QED
    BY <2>1 DEF Own
<1>2. TypeOK
  <2>1. webhooks \in [Channels -> Seq(Hooks)]
    <3>1. \A c \in Channels : Foreign[c] \in Seq(ForeignHooks)
      OBVIOUS
    <3>2. \A c \in Channels : Foreign[c] \in Seq(Hooks)
      BY <3>1 DEF Hooks
    <3>3. Foreign = [c \in Channels |-> Foreign[c]]
      OBVIOUS
    <3> QED
      BY <3>2, <3>3 DEF Init
  <2>2. NoHook \in Hooks \cup {NoHook}
    OBVIOUS
  <2> HIDE WebhookCacheAssumption
  <2>3. /\ step \in [Sends -> Step]
        /\ hook \in [Sends -> Hooks \cup {NoHook}]
        /\ outcome \in [Sends -> Channels \cup {"none", "dropped", "lost"}]
        /\ stored \in [Channels -> Hooks \cup {NoHook}]
        /\ \A s \in Sends : step[s] \in {"storing", "posting"} <=> hook[s] # NoHook
    BY <2>2 DEF Init, Step
  <2>4. faults \in 0..MaxFaults /\ deletions \in 0..MaxDeletions /\ restarts \in 0..MaxRestarts
    BY WebhookCacheAssumption DEF Init
  <2> QED
    BY <2>1, <2>3, <2>4 DEF Init, TypeOK
<1>3. Underway = {} /\ \A c \in Channels : Creating(c) = {}
  BY DEF Init, Underway, Creating
<1>4. OverlapBounded
  <2>1. MaxOverlap * 0 = 0 /\ 0 <= MaxOverlap /\ 0 <= 0
    OBVIOUS
  <2>2. IsFiniteSet({}) /\ Cardinality({}) = 0
    BY FS_EmptySet
  <2>3. \A c \in Channels : Cardinality(Own(webhooks[c])) <= MaxOverlap * restarts
    BY <1>1, <2>1, <2>2 DEF Init
  <2> QED
    BY <1>3, <2>1, <2>2, <2>3 DEF OverlapBounded
<1>5. OwnInPlace
  BY <1>1 DEF OwnInPlace
<1>6. HooksUsable /\ CallsProceed
  BY DEF Init, HooksUsable, CallsProceed
<1>7. LostOnlyByFaults
  BY DEF Init, LostOnlyByFaults, ArrivesAsMeant
<1>8. HooksBounded
  <2>1. MaxOverlap * (0 + 1) = MaxOverlap /\ 0 + 0 <= MaxOverlap
    OBVIOUS
  <2> QED
    BY <1>1, <1>3, <2>1, FS_EmptySet DEF Init, HooksBounded
<1> QED
  BY <1>2, <1>4, <1>5, <1>6, <1>7, <1>8 DEF IInv

\* The bounded counters only grow.
LEMMA FaultFacts ==
    ASSUME TypeOK, UNCHANGED counters \/ Fault
    PROVE  /\ faults' \in 0..MaxFaults /\ (Fault => faults' # 0)
           /\ deletions' = deletions /\ restarts' = restarts
BY WebhookCacheAssumption DEF TypeOK, Fault, counters

\* A call that ends or goes on without a webhook.
LEMMA HooklessFacts ==
    ASSUME TypeOK, NEW s \in Sends, step[s] \notin {"storing", "posting"},
           NEW next \in Step \ {"storing", "posting"}, Go(s, next), UNCHANGED hook
    PROVE  /\ step' \in [Sends -> Step]
           /\ \A r \in Sends : step'[r] \in {"storing", "posting"} <=> hook'[r] # NoHook
BY DEF TypeOK, Go

\* No step leaves the types.
LEMMA TypeStep == IInv /\ [Next]_vars => TypeOK'
<1> SUFFICES ASSUME IInv, [Next]_vars PROVE TypeOK'
  OBVIOUS
<1> USE WebhookCacheAssumption DEF counters, world, Go, Drop, Step
<1>0. TypeOK /\ CallsProceed /\ \A s \in Sends : s \in Hooks /\ s # NoHook
  BY DEF IInv, Hooks
<1>1. CASE UNCHANGED vars
  BY <1>0, <1>1 DEF TypeOK, vars
<1>2. CASE Ready
  BY <1>0, <1>2 DEF TypeOK, Ready
<1>3. CASE Restart
  <2>1. /\ step' \in [Sends -> Step]
        /\ \A s \in Sends : step'[s] \in {"idle", "done"}
    BY <1>0, <1>3 DEF TypeOK, Restart, Underway
  <2>2. /\ outcome' \in [Sends -> Channels \cup {"none", "dropped", "lost"}]
        /\ hook' \in [Sends -> Hooks \cup {NoHook}]
        /\ \A s \in Sends : hook'[s] = NoHook
    BY <1>0, <1>3 DEF TypeOK, Restart
  <2>3. restarts' \in 0..MaxRestarts
    BY <1>0, <1>3 DEF TypeOK, Restart
  <2> QED
    BY <1>0, <1>3, <2>1, <2>2, <2>3 DEF TypeOK, Restart
<1>4. ASSUME NEW s \in Sends, Call(s) \/ Resolve(s) PROVE TypeOK'
  BY <1>0, <1>4 DEF TypeOK, Call, Resolve
<1>5. ASSUME NEW s \in Sends,
             ResolvesNothing(s) \/ FindNothing(s) \/ CreateRefused(s) \/ RequestFails(s)
      PROVE  TypeOK'
  <2>1. /\ step' \in [Sends -> Step]
        /\ \A r \in Sends : step'[r] \in {"storing", "posting"} <=> hook'[r] # NoHook
    BY <1>0, <1>5, HooklessFacts DEF ResolvesNothing, FindNothing, CreateRefused, RequestFails
  <2>2. outcome' \in [Sends -> Channels \cup {"none", "dropped", "lost"}]
    BY <1>0, <1>5 DEF TypeOK, ResolvesNothing, FindNothing, CreateRefused, RequestFails
  <2>3. UNCHANGED <<hook, webhooks, stored, ready, early>>
    BY <1>5 DEF ResolvesNothing, FindNothing, CreateRefused, RequestFails
  <2>4. UNCHANGED counters \/ Fault
    BY <1>5 DEF ResolvesNothing, FindNothing, CreateRefused, RequestFails
  <2>5. faults' \in 0..MaxFaults /\ deletions' = deletions /\ restarts' = restarts
    BY <1>0, <2>4, FaultFacts
  <2> QED
    BY <1>0, <2>1, <2>2, <2>3, <2>5 DEF TypeOK
<1>6. ASSUME NEW s \in Sends, FindCached(s) PROVE TypeOK'
  <2>1. Target[s] \in Channels /\ stored[Target[s]] \in Hooks
    BY <1>0, <1>6 DEF TypeOK, CallsProceed, FindCached
  <2> QED
    BY <1>0, <1>6, <2>1 DEF TypeOK, FindCached
<1>7. ASSUME NEW s \in Sends, List(s) PROVE TypeOK'
  <2> DEFINE own == FirstOwn(webhooks[Target[s]])
  <2>1. Target[s] \in Channels /\ webhooks[Target[s]] \in Seq(Hooks)
    BY <1>0, <1>7 DEF TypeOK, CallsProceed, List
  <2>2. own \in Sends \cup {NoHook}
    BY <2>1, OwnFacts
  <2>3. CASE own = NoHook
    <3>1. Go(s, "creating") /\ UNCHANGED <<hook, outcome, world>> /\ step[s] = "listing"
      BY <1>7, <2>3 DEF List
    <3>2. /\ step' \in [Sends -> Step]
          /\ \A r \in Sends : step'[r] \in {"storing", "posting"} <=> hook'[r] # NoHook
      BY <1>0, <3>1, HooklessFacts
    <3> QED
      BY <1>0, <3>1, <3>2 DEF TypeOK
  <2>4. CASE own # NoHook
    <3>1. Go(s, "storing") /\ hook' = [hook EXCEPT ![s] = own] /\ UNCHANGED <<outcome, world>>
      BY <1>7, <2>4 DEF List
    <3> HIDE DEF own
    <3> QED
      BY <1>0, <2>2, <2>4, <3>1 DEF TypeOK
  <2> QED
    BY <2>3, <2>4
<1>8. ASSUME NEW s \in Sends, Create(s) PROVE TypeOK'
  <2>1. Target[s] \in Channels /\ webhooks[Target[s]] \in Seq(Hooks)
    BY <1>0, <1>8 DEF TypeOK, CallsProceed, Create
  <2> QED
    BY <1>0, <1>8, <2>1, AppendOwn DEF TypeOK, Create
<1>9. ASSUME NEW s \in Sends, Store(s) PROVE TypeOK'
  BY <1>0, <1>9, FaultFacts DEF TypeOK, Store
<1>10. ASSUME NEW s \in Sends, Post(s) PROVE TypeOK'
  <2>1. PICK o \in Channels \cup {"none", "dropped", "lost"} : outcome' = [outcome EXCEPT ![s] = o]
    BY <1>10 DEF Post
  <2>2. outcome' \in [Sends -> Channels \cup {"none", "dropped", "lost"}]
    BY <1>0, <2>1 DEF TypeOK
  <2>3. faults' \in 0..MaxFaults /\ deletions' = deletions /\ restarts' = restarts
    BY <1>0, <1>10, FaultFacts DEF Post
  <2> QED
    BY <1>0, <1>10, <2>2, <2>3 DEF TypeOK, Post
<1>11. ASSUME NEW c \in Channels, DeleteHook(c) PROVE TypeOK'
  <2>1. webhooks' \in [Channels -> Seq(Hooks)]
    BY <1>0, <1>11, RemoveOwn DEF TypeOK, DeleteHook
  <2> QED
    BY <1>0, <1>11, <2>1 DEF TypeOK, DeleteHook
<1> QED
  BY <1>1, <1>2, <1>3, <1>4, <1>5, <1>6, <1>7, <1>8, <1>9, <1>10, <1>11 DEF Next

-----------------------------------------------------------------------------
\* The bot gains a webhook only by a creation, and loses one only by a deletion.
LEMMA WebhooksChange ==
    ASSUME IInv, [Next]_vars, NEW c \in Channels
    PROVE  /\ webhooks[c] \in Seq(Hooks) /\ webhooks'[c] \in Seq(Hooks)
           /\ \A k \in Own(webhooks'[c]) \ Own(webhooks[c]) : Create(k) /\ Target[k] = c
           /\ deletions' = 0 => deletions = 0 /\ Own(webhooks[c]) \subseteq Own(webhooks'[c])
<1>0. TypeOK /\ TypeOK' /\ CallsProceed
  BY TypeStep DEF IInv
<1>1. /\ webhooks[c] \in Seq(Hooks) /\ webhooks'[c] \in Seq(Hooks)
      /\ deletions \in Nat /\ deletions' \in Nat
  BY <1>0, WebhookCacheAssumption DEF TypeOK
<1>2. ASSUME NEW s \in Sends, Create(s)
      PROVE  /\ Own(webhooks'[c]) \ Own(webhooks[c]) \subseteq {s}
             /\ Own(webhooks'[c]) # Own(webhooks[c]) => Target[s] = c
             /\ deletions' = deletions /\ Own(webhooks[c]) \subseteq Own(webhooks'[c])
  <2>1. CASE Target[s] = c
    <3>1. webhooks'[c] = Append(webhooks[c], s) /\ deletions' = deletions
      BY <1>0, <1>2, <2>1 DEF Create, TypeOK, counters
    <3> QED
      BY <1>1, <2>1, <3>1, AppendOwn
  <2>2. CASE Target[s] # c
    BY <1>0, <1>2, <2>2 DEF Create, TypeOK, counters
  <2> QED
    BY <2>1, <2>2
<1>3. ASSUME NEW d \in Channels, DeleteHook(d)
      PROVE  deletions' # 0 /\ Own(webhooks'[c]) \subseteq Own(webhooks[c])
  <2>1. deletions' # 0
    BY <1>1, <1>3 DEF DeleteHook
  <2>2. PICK i \in DOMAIN webhooks[d] : webhooks' = [webhooks EXCEPT ![d] = RemoveAt(@, i)]
    BY <1>3 DEF DeleteHook
  <2>3. CASE d = c
    <3>1. webhooks'[c] = RemoveAt(webhooks[c], i)
      BY <1>0, <2>2, <2>3 DEF TypeOK
    <3> QED
      BY <1>1, <2>1, <2>2, <2>3, <3>1, RemoveOwn
  <2>4. CASE d # c
    BY <1>0, <2>1, <2>2, <2>4 DEF TypeOK
  <2> QED
    BY <2>3, <2>4
<1>4. CASE webhooks' = webhooks /\ deletions' = deletions
  BY <1>1, <1>4
<1>5. CASE \E s \in Sends : Create(s)
  BY <1>1, <1>2, <1>5
<1>6. CASE \E d \in Channels : DeleteHook(d)
  BY <1>1, <1>3, <1>6
<1> QED
  BY <1>4, <1>5, <1>6
     DEF Next, vars, world, counters, Fault, Call, Resolve, ResolvesNothing, FindCached,
         FindNothing, List, CreateRefused, RequestFails, Store, Post, Ready, Restart

\* A call's steps: those past the creation stay past it, and a call that goes on
\* has a channel.
LEMMA StepsChange ==
    ASSUME IInv, [Next]_vars, NEW s \in Sends
    PROVE  /\ step[s] \in {"storing", "posting", "done"} =>
                 step'[s] \in {"storing", "posting", "done"}
           /\ step[s] = "done" => step'[s] = "done" /\ outcome'[s] = outcome[s]
           /\ step[s] # "idle" /\ s \notin early => step'[s] # "idle" /\ s \notin early'
           /\ step'[s] \notin {"idle", "resolving", "done"} => Target[s] # NoChannel
<1>0. TypeOK /\ (step[s] \notin {"idle", "resolving", "done"} => Target[s] # NoChannel)
  BY DEF IInv, CallsProceed
<1> USE DEF Go, Drop, world, counters
<1>1. CASE Restart
  BY <1>0, <1>1 DEF Restart, Underway, TypeOK
<1>2. CASE Ready \/ UNCHANGED vars \/ \E c \in Channels : DeleteHook(c)
  BY <1>0, <1>2 DEF Ready, vars, DeleteHook
<1>3. ASSUME NEW r \in Sends, Call(r) \/ Resolve(r) \/ ResolvesNothing(r)
      PROVE  /\ s # r => step'[s] = step[s] /\ outcome'[s] = outcome[s]
             /\ step[r] \in {"idle", "resolving"}
             /\ step'[r] \in {"resolving", "looking", "done"}
             /\ step'[r] = "looking" => Target[r] # NoChannel
             /\ early' \subseteq early \cup {r} /\ (step[r] # "idle" => early' = early)
  BY <1>0, <1>3, WebhookCacheAssumption DEF Call, Resolve, ResolvesNothing, TypeOK
<1>4. ASSUME NEW r \in Sends, FindCached(r) \/ FindNothing(r) \/ List(r) \/ Create(r)
      PROVE  /\ s # r => step'[s] = step[s] /\ outcome'[s] = outcome[s]
             /\ step[r] \in {"looking", "listing", "creating"}
             /\ step'[r] \in {"listing", "creating", "storing", "posting"}
             /\ early' = early
  BY <1>0, <1>4 DEF FindCached, FindNothing, List, Create, TypeOK
<1>5. ASSUME NEW r \in Sends, CreateRefused(r) \/ RequestFails(r) \/ Store(r) \/ Post(r)
      PROVE  /\ s # r => step'[s] = step[s] /\ outcome'[s] = outcome[s]
             /\ step[r] \in {"listing", "creating", "storing", "posting"}
             /\ step'[r] \in {"posting", "done"}
             /\ early' = early
  BY <1>0, <1>5 DEF CreateRefused, RequestFails, Store, Post, TypeOK
<1>6. CASE \E r \in Sends : Call(r) \/ Resolve(r) \/ ResolvesNothing(r)
  BY <1>0, <1>3, <1>6
<1>7. CASE \E r \in Sends : FindCached(r) \/ FindNothing(r) \/ List(r) \/ Create(r)
  BY <1>0, <1>4, <1>7
<1>8. CASE \E r \in Sends : CreateRefused(r) \/ RequestFails(r) \/ Store(r) \/ Post(r)
  BY <1>0, <1>5, <1>8
<1> QED
  BY <1>1, <1>2, <1>6, <1>7, <1>8 DEF Next

\* A created webhook stays where it was created.
LEMMA OwnInPlaceStep == IInv /\ [Next]_vars => OwnInPlace'
<1> SUFFICES ASSUME IInv, [Next]_vars, NEW c \in Channels, NEW k \in Own(webhooks'[c])
             PROVE  Target[k] = c /\ step'[k] \in {"storing", "posting", "done"}
  BY DEF OwnInPlace
<1>0. k \in Sends /\ TypeOK
  BY WebhooksChange, OwnFacts DEF IInv, Own
<1>1. CASE k \in Own(webhooks[c])
  <2>1. Target[k] = c /\ step[k] \in {"storing", "posting", "done"}
    BY <1>1 DEF IInv, OwnInPlace
  <2> QED
    BY <1>0, <2>1, StepsChange
<1>2. CASE k \notin Own(webhooks[c])
  <2>1. Create(k) /\ Target[k] = c
    BY <1>2, WebhooksChange
  <2> QED
    BY <1>0, <2>1 DEF Create, Go, TypeOK
<1> QED
  BY <1>1, <1>2

LEMMA CallsProceedStep == IInv /\ [Next]_vars => CallsProceed'
<1> SUFFICES ASSUME IInv, [Next]_vars, NEW s \in Sends
             PROVE  /\ step'[s] \notin {"idle", "resolving", "done"} => Target[s] # NoChannel
                    /\ restarts' = 0 /\ step'[s] # "idle" /\ s \notin early' => ready'
  BY DEF CallsProceed
<1>0. TypeOK /\ (restarts = 0 /\ step[s] # "idle" /\ s \notin early => ready)
  BY DEF IInv, CallsProceed
<1>1. step'[s] \notin {"idle", "resolving", "done"} => Target[s] # NoChannel
  BY StepsChange
<1> USE DEF Go, Drop, world, counters
<1>2. CASE Restart
  BY <1>0, <1>1, <1>2 DEF Restart, TypeOK
<1>3. ASSUME NEW r \in Sends, Call(r)
      PROVE  restarts' = 0 /\ step'[s] # "idle" /\ s \notin early' => ready'
  BY <1>0, <1>3 DEF Call, TypeOK
<1>4. CASE Ready
  BY <1>1, <1>4 DEF Ready
<1>5. ASSUME NEW r \in Sends, UNCHANGED <<ready, early, restarts>>, step[r] # "idle",
             \A q \in Sends : q # r => step'[q] = step[q]
      PROVE  restarts' = 0 /\ step'[s] # "idle" /\ s \notin early' => ready'
  BY <1>0, <1>5
<1>6. ASSUME NEW r \in Sends, Resolve(r) \/ ResolvesNothing(r) \/ FindCached(r) \/ FindNothing(r)
                 \/ List(r) \/ Create(r) \/ CreateRefused(r) \/ RequestFails(r) \/ Store(r) \/ Post(r)
      PROVE  restarts' = 0 /\ step'[s] # "idle" /\ s \notin early' => ready'
  <2>1. UNCHANGED <<ready, early, restarts>>
    BY <1>6 DEF Resolve, ResolvesNothing, FindCached, FindNothing, List, Create, CreateRefused,
                RequestFails, Store, Post, Fault
  <2>2. step[r] # "idle" /\ \A q \in Sends : q # r => step'[q] = step[q]
    BY <1>0, <1>6 DEF Resolve, ResolvesNothing, FindCached, FindNothing, List, Create,
                      CreateRefused, RequestFails, Store, Post, TypeOK
  <2> QED
    BY <1>5, <2>1, <2>2
<1>7. CASE UNCHANGED vars \/ \E c \in Channels : DeleteHook(c)
  BY <1>0, <1>1, <1>7 DEF vars, DeleteHook
<1> QED
  BY <1>1, <1>2, <1>3, <1>4, <1>6, <1>7 DEF Next

\* k is a webhook of c's also after the step.
StaysUsableIn(k, c) ==
    k \in Sends /\ Target[k] = c /\ (deletions' = 0 => k \in Own(webhooks'[c]))

\* A webhook of the right channel stays one until webhooks are deleted.
LEMMA UsableKept ==
    ASSUME IInv, [Next]_vars
    PROVE  \A c \in Channels : \A k : UsableIn(k, c) => StaysUsableIn(k, c)
BY WebhooksChange DEF UsableIn, StaysUsableIn

\* Listed or created by one call, stored by another and found by a third, a
\* webhook is one of the channel it is used for.
LEMMA HooksUsableStep == IInv /\ [Next]_vars => HooksUsable'
<1> SUFFICES ASSUME IInv, [Next]_vars
             PROVE  /\ \A c \in Channels : stored'[c] # NoHook => StaysUsableIn(stored'[c], c)
                    /\ \A s \in Sends : hook'[s] # NoHook => StaysUsableIn(hook'[s], Target[s])
  BY DEF HooksUsable, UsableIn, StaysUsableIn
<1>0. /\ TypeOK /\ TypeOK'
      /\ \A s \in Sends : step[s] \notin {"idle", "resolving", "done"} => Target[s] \in Channels
  BY TypeStep, WebhookCacheAssumption DEF IInv, CallsProceed
<1>1. \A c \in Channels : stored[c] # NoHook => StaysUsableIn(stored[c], c)
  BY UsableKept DEF IInv, HooksUsable
<1>2. \A s \in Sends : hook[s] # NoHook => Target[s] \in Channels /\ StaysUsableIn(hook[s], Target[s])
  <2>1. \A s \in Sends : hook[s] # NoHook => Target[s] \in Channels
    BY <1>0 DEF TypeOK
  <2> QED
    BY <2>1, UsableKept DEF IInv, HooksUsable
<1> USE DEF Go, Drop, world, counters
<1>3. CASE UNCHANGED <<stored, hook>>
  BY <1>1, <1>2, <1>3
<1>4. CASE Restart
  BY <1>1, <1>4 DEF Restart
<1>5. ASSUME NEW s \in Sends, NEW k, UNCHANGED stored, hook' = [hook EXCEPT ![s] = k],
             k # NoHook => StaysUsableIn(k, Target[s])
      PROVE  \A r \in Sends : hook'[r] # NoHook => StaysUsableIn(hook'[r], Target[r])
  BY <1>0, <1>2, <1>5 DEF TypeOK
<1>6. ASSUME NEW s \in Sends, FindCached(s)
      PROVE  \A r \in Sends : hook'[r] # NoHook => StaysUsableIn(hook'[r], Target[r])
  <2>1. StaysUsableIn(stored[Target[s]], Target[s])
    BY <1>0, <1>1, <1>6 DEF FindCached
  <2> QED
    BY <1>5, <1>6, <2>1 DEF FindCached
<1>7. ASSUME NEW s \in Sends, List(s)
      PROVE  \A r \in Sends : hook'[r] # NoHook => StaysUsableIn(hook'[r], Target[r])
  <2> DEFINE own == FirstOwn(webhooks[Target[s]])
  <2>1. Target[s] \in Channels /\ webhooks[Target[s]] \in Seq(Hooks)
    BY <1>0, <1>7, WebhooksChange DEF List
  <2>2. own # NoHook => UsableIn(own, Target[s])
    BY <2>1, OwnFacts DEF IInv, OwnInPlace, UsableIn, Own
  <2>3. own # NoHook => StaysUsableIn(own, Target[s])
    BY <2>1, <2>2, UsableKept
  <2>4. UNCHANGED hook \/ (own # NoHook /\ hook' = [hook EXCEPT ![s] = own])
    BY <1>7 DEF List
  <2> HIDE DEF own
  <2> QED
    BY <1>2, <1>5, <1>7, <2>3, <2>4 DEF List
<1>8. ASSUME NEW s \in Sends, Create(s)
      PROVE  \A r \in Sends : hook'[r] # NoHook => StaysUsableIn(hook'[r], Target[r])
  <2>1. Target[s] \in Channels /\ webhooks[Target[s]] \in Seq(Hooks)
    BY <1>0, <1>8, WebhooksChange DEF Create
  <2>2. webhooks'[Target[s]] = Append(webhooks[Target[s]], s)
    BY <1>0, <1>8, <2>1 DEF Create, TypeOK
  <2>3. StaysUsableIn(s, Target[s])
    BY <2>1, <2>2, AppendOwn DEF StaysUsableIn
  <2> QED
    BY <1>5, <1>8, <2>3 DEF Create
<1>9. ASSUME NEW s \in Sends, Store(s)
      PROVE  \A c \in Channels : stored'[c] # NoHook => StaysUsableIn(stored'[c], c)
  <2>1. Target[s] \in Channels /\ StaysUsableIn(hook[s], Target[s])
    BY <1>0, <1>2, <1>9 DEF Store, TypeOK
  <2>2. stored' = [stored EXCEPT ![Target[s]] = hook[s]] \/ stored' = stored
    BY <1>9 DEF Store
  <2> QED
    BY <1>0, <1>1, <2>1, <2>2 DEF TypeOK
<1>10. ASSUME NEW s \in Sends, Post(s)
       PROVE  \A r \in Sends : hook'[r] # NoHook => StaysUsableIn(hook'[r], Target[r])
  BY <1>5, <1>10 DEF Post
<1>11. CASE UNCHANGED stored /\ \A r \in Sends : hook'[r] # NoHook => StaysUsableIn(hook'[r], Target[r])
  BY <1>1, <1>11
<1>12. CASE UNCHANGED hook /\ \A c \in Channels : stored'[c] # NoHook => StaysUsableIn(stored'[c], c)
  BY <1>2, <1>12
<1> QED
  <2>1. \/ UNCHANGED <<stored, hook>> \/ Restart
        \/ \E s \in Sends : FindCached(s) \/ List(s) \/ Create(s) \/ Store(s) \/ Post(s)
    BY DEF Next, vars, Call, Resolve, ResolvesNothing, FindNothing, CreateRefused, RequestFails,
           Ready, DeleteHook
  <2>2. ASSUME NEW s \in Sends
        PROVE  /\ FindCached(s) \/ List(s) \/ Create(s) \/ Post(s) => UNCHANGED stored
               /\ Store(s) => UNCHANGED hook
    BY DEF FindCached, List, Create, Post, Store
  <2> QED
    BY <1>3, <1>4, <1>6, <1>7, <1>8, <1>9, <1>10, <1>11, <1>12, <2>1, <2>2

-----------------------------------------------------------------------------
\* An embed arrives in the channel it is for; only a fault, a deletion, a restart
\* or a start before Ready keeps it from there.
LEMMA LostOnlyByFaultsStep == IInv /\ [Next]_vars => LostOnlyByFaults'
<1> SUFFICES ASSUME IInv, [Next]_vars, NEW s \in Sends
             PROVE  /\ outcome'[s] \in Channels => outcome'[s] = Target[s]
                    /\ faults' + deletions' + restarts' = 0 /\ s \notin early' /\ step'[s] = "done" =>
                          outcome'[s] = Target[s] \/ Target[s] = NoChannel
  BY DEF LostOnlyByFaults, ArrivesAsMeant
<1>0. /\ TypeOK /\ TypeOK' /\ CallsProceed /\ HooksUsable /\ OwnInPlace
      /\ outcome[s] \in Channels => outcome[s] = Target[s]
      /\ faults + deletions + restarts = 0 /\ s \notin early /\ step[s] = "done" =>
            outcome[s] = Target[s] \/ Target[s] = NoChannel
  BY TypeStep DEF IInv, LostOnlyByFaults, ArrivesAsMeant
<1>1. /\ faults \in Nat /\ deletions \in Nat /\ restarts \in Nat
      /\ faults' \in Nat /\ deletions' \in Nat /\ restarts' \in Nat
      /\ faults <= faults' /\ deletions <= deletions' /\ restarts <= restarts'
      /\ early \subseteq early'
  <2>1. UNCHANGED counters \/ Fault
           \/ (deletions' = deletions + 1 /\ UNCHANGED <<faults, restarts>>)
           \/ (restarts' = restarts + 1 /\ UNCHANGED <<faults, deletions>>)
    BY DEF Next, vars, world, counters, Call, Resolve, ResolvesNothing, FindCached, FindNothing,
           List, Create, CreateRefused, RequestFails, Store, Post, Ready, DeleteHook, Restart
  <2>2. early \subseteq early'
    BY DEF Next, vars, world, counters, Call, Resolve, ResolvesNothing, FindCached, FindNothing,
           List, Create, CreateRefused, RequestFails, Store, Post, Ready, DeleteHook, Restart
  <2> QED
    BY <1>0, <2>1, <2>2, WebhookCacheAssumption DEF TypeOK, counters, Fault
<1>2. faults' + deletions' + restarts' = 0 =>
          faults = 0 /\ deletions = 0 /\ restarts = 0 /\ faults' = 0 /\ deletions' = 0 /\ restarts' = 0
  <2> DEFINE a == faults'  b == deletions'  c == restarts'
  <2>1. /\ a \in Nat /\ b \in Nat /\ c \in Nat
        /\ faults \in Nat /\ deletions \in Nat /\ restarts \in Nat
        /\ faults <= a /\ deletions <= b /\ restarts <= c
    BY <1>1
  <2> HIDE DEF a, b, c
  <2>2. a + b + c = 0 => faults = 0 /\ deletions = 0 /\ restarts = 0 /\ a = 0 /\ b = 0 /\ c = 0
    BY <2>1
  <2> QED
    BY <2>2 DEF a, b, c
<1> USE DEF Go, Drop, world, counters
<1>3. CASE step[s] = "done"
  <2>1. step'[s] = "done" /\ outcome'[s] = outcome[s]
    BY <1>3, StepsChange
  <2> QED
    BY <1>0, <1>1, <1>2, <1>3, <2>1
<1>4. CASE outcome'[s] = outcome[s] /\ step'[s] # "done"
  BY <1>0, <1>4
<1>5. CASE step[s] # "done" /\ (outcome'[s] # outcome[s] \/ step'[s] = "done")
  <2>1. Restart \/ ResolvesNothing(s) \/ CreateRefused(s) \/ RequestFails(s) \/ Post(s)
    BY <1>0, <1>5 DEF Next, vars, Call, Resolve, ResolvesNothing, FindCached, FindNothing, List,
         Create, CreateRefused, RequestFails, Store, Post, Ready, DeleteHook, TypeOK
  <2>2. CASE Restart
    <3>1. restarts' # 0
      BY <1>0, <1>1, <2>2 DEF Restart
    <3>2. outcome'[s] \in Channels => outcome'[s] = outcome[s]
      BY <2>2, WebhookCacheAssumption DEF Restart
    <3> QED
      BY <1>0, <1>1, <1>2, <3>1, <3>2
  <2>3. CASE ResolvesNothing(s) \/ CreateRefused(s) \/ RequestFails(s)
    <3>1. outcome'[s] \notin Channels
      BY <1>0, <2>3, WebhookCacheAssumption DEF ResolvesNothing, CreateRefused, RequestFails, TypeOK
    <3>2. Fault => faults' # 0
      BY <1>0, FaultFacts
    <3>3. CreateRefused(s) => ~(restarts = 0 /\ s \notin early')
      BY <1>0 DEF CreateRefused, CallsProceed
    <3>4. ResolvesNothing(s) => Target[s] = NoChannel \/ Fault
      BY DEF ResolvesNothing
    <3>5. RequestFails(s) => Fault
      BY DEF RequestFails
    <3> QED
      BY <1>2, <2>3, <3>1, <3>2, <3>3, <3>4, <3>5
  <2>4. CASE Post(s)
    <3>1. hook[s] # NoHook /\ Target[s] \in Channels
      <4>1. step[s] = "posting" /\ Target[s] \in Channels \cup {NoChannel}
        BY <2>4, WebhookCacheAssumption DEF Post
      <4> QED
        BY <1>0, <4>1 DEF TypeOK, CallsProceed
    <3>2. UsableIn(hook[s], Target[s])
      BY <1>0, <3>1 DEF HooksUsable
    <3>3. \A c \in Channels : hook[s] \in Own(webhooks[c]) => c = Target[s]
      BY <1>0, <3>2 DEF OwnInPlace, UsableIn
    <3>4. outcome'[s] = "lost" \/ outcome'[s] = Target[s]
      BY <1>0, <2>4, <3>3 DEF Post, TypeOK
    <3>5. deletions = 0 /\ ~Fault => outcome'[s] = Target[s]
      <4>1. deletions = 0 => hook[s] \in Own(webhooks[Target[s]])
        BY <3>2 DEF UsableIn
      <4> QED
        BY <1>0, <2>4, <3>1, <3>3, <4>1 DEF Post, TypeOK
    <3>6. Fault => faults' # 0
      BY <1>0, FaultFacts
    <3> QED
      BY <1>2, <3>4, <3>5, <3>6, WebhookCacheAssumption
  <2> QED
    BY <2>1, <2>2, <2>3, <2>4
<1> QED
  BY <1>3, <1>4, <1>5

-----------------------------------------------------------------------------
LEMMA Products ==
    \A m \in Nat, r \in Nat : /\ m * r \in Nat /\ m * (r + 1) \in Nat
                              /\ m * (r + 1) = m * r + m
                              /\ m * (r + 1) <= m * ((r + 1) + 1)
OBVIOUS

\* Part of a finite set, counted.
LEMMA SmallerCount ==
    ASSUME NEW S, IsFiniteSet(S), NEW T, T \subseteq S
    PROVE  /\ IsFiniteSet(T) /\ Cardinality(T) \in Nat /\ Cardinality(S) \in Nat
           /\ Cardinality(T) <= Cardinality(S)
BY FS_Subset, FS_CardinalityType

\* The calls under way, and the life of the process in which they are.
LEMMA OverlapStep == IInv /\ [Next]_vars => OverlapBounded'
<1> SUFFICES ASSUME IInv, [Next]_vars PROVE OverlapBounded'
  OBVIOUS
<1>0. /\ TypeOK /\ MaxOverlap \in Nat /\ restarts \in Nat
      /\ IsFiniteSet(Underway) /\ Cardinality(Underway) \in Nat /\ Cardinality(Underway) <= MaxOverlap
      /\ ~ready => \A c \in Channels : Cardinality(Own(webhooks[c])) <= MaxOverlap * restarts
  BY WebhookCacheAssumption, FS_CardinalityType DEF IInv, OverlapBounded, TypeOK
<1>1. IsFiniteSet(Underway') /\ Cardinality(Underway') <= MaxOverlap
  <2>1. CASE Underway' \subseteq Underway
    <3>1. /\ IsFiniteSet(Underway') /\ Cardinality(Underway') \in Nat
          /\ Cardinality(Underway') <= Cardinality(Underway)
      BY <1>0, <2>1, SmallerCount
    <3> QED
      BY <1>0, <3>1
  <2>2. ASSUME NEW s \in Sends, Call(s)
        PROVE  IsFiniteSet(Underway') /\ Cardinality(Underway') <= MaxOverlap
    <3>1. /\ IsFiniteSet(Underway \cup {s}) /\ Cardinality(Underway \cup {s}) \in Nat
          /\ Cardinality(Underway \cup {s}) <= Cardinality(Underway) + 1
      <4>1. /\ IsFiniteSet(Underway \cup {s})
            /\ Cardinality(Underway \cup {s}) =
                  IF s \in Underway THEN Cardinality(Underway) ELSE Cardinality(Underway) + 1
        BY <1>0, FS_AddElement
      <4> QED
        BY <1>0, <4>1
    <3>2. Underway' \subseteq Underway \cup {s}
      BY <1>0, <2>2 DEF Underway, Call, Go, TypeOK
    <3>3. /\ IsFiniteSet(Underway') /\ Cardinality(Underway') \in Nat
          /\ Cardinality(Underway') <= Cardinality(Underway \cup {s})
      BY <3>1, <3>2, SmallerCount
    <3>4. Cardinality(Underway) < MaxOverlap
      BY <2>2 DEF Call
    <3> QED
      BY <1>0, <3>1, <3>3, <3>4
  <2>3. \/ Underway' \subseteq Underway
        \/ \E s \in Sends : Call(s)
    <3>1. ASSUME NEW r \in Sends, step[r] \notin {"idle", "done"}, \E x : Go(r, x)
          PROVE  Underway' \subseteq Underway
      <4>1. \A s \in Sends : s # r => step'[s] = step[s]
        BY <1>0, <3>1 DEF Go, TypeOK
      <4> QED
        BY <3>1, <4>1 DEF Underway
    <3>2. ASSUME NEW r \in Sends, Resolve(r) \/ ResolvesNothing(r) \/ FindCached(r) \/ FindNothing(r)
                   \/ List(r) \/ Create(r) \/ CreateRefused(r) \/ RequestFails(r) \/ Store(r) \/ Post(r)
          PROVE  Underway' \subseteq Underway
      <4>1. step[r] \notin {"idle", "done"} /\ \E x : Go(r, x)
        BY <3>2 DEF Resolve, ResolvesNothing, FindCached, FindNothing, List, Create, CreateRefused,
                    RequestFails, Store, Post, Go, Drop
      <4> QED
        BY <3>1, <4>1
    <3>3. CASE Restart
      BY <3>3 DEF Restart, Underway
    <3>4. CASE UNCHANGED step
      BY <3>4 DEF Underway
    <3> QED
      BY <3>2, <3>3, <3>4 DEF Next, vars, Ready, DeleteHook
  <2> QED
    BY <2>1, <2>2, <2>3
<1>2. ASSUME ~ready', NEW c \in Channels
      PROVE  Cardinality(Own(webhooks'[c])) <= MaxOverlap * restarts'
  <2>1. /\ IsFiniteSet(Own(webhooks[c])) /\ Cardinality(Own(webhooks[c])) \in Nat
    BY OwnFacts, WebhooksChange
  <2>2. CASE Restart
    <3>1. /\ webhooks' = webhooks /\ restarts' = restarts + 1
      BY <2>2 DEF Restart
    <3>2. /\ Cardinality(Own(webhooks[c])) + Cardinality(Creating(c)) <= MaxOverlap * (restarts + 1)
          /\ Cardinality(Creating(c)) \in Nat
      <4>1. Creating(c) \subseteq Underway
        BY DEF Creating, Underway
      <4> QED
        BY <1>0, <4>1, SmallerCount DEF IInv, HooksBounded
    <3> QED
      BY <1>0, <2>1, <3>1, <3>2, Products
  <2>3. CASE ~Restart
    <3>1. ~ready /\ restarts' = restarts
      BY <1>2, <2>3
         DEF Next, vars, world, counters, Fault, Call, Resolve, ResolvesNothing, FindCached,
             FindNothing, List, Create, CreateRefused, RequestFails, Store, Post, Ready, DeleteHook
    <3>2. Own(webhooks'[c]) \subseteq Own(webhooks[c])
      BY <3>1, WebhooksChange DEF Create
    <3>3. /\ Cardinality(Own(webhooks'[c])) \in Nat
          /\ Cardinality(Own(webhooks'[c])) <= Cardinality(Own(webhooks[c]))
      BY <2>1, <3>2, SmallerCount
    <3>4. Cardinality(Own(webhooks[c])) <= MaxOverlap * restarts /\ MaxOverlap * restarts \in Nat
      BY <1>0, <3>1, Products
    <3> QED
      BY <2>1, <3>1, <3>3, <3>4
  <2> QED
    BY <2>2, <2>3
<1> QED
  BY <1>1, <1>2 DEF OverlapBounded

\* Webhooks that exist and webhooks about to be created, of one channel: the sum
\* grows only with a call that saw none, or with the lives of the process.
LEMMA HooksBoundedStep == IInv /\ [Next]_vars => HooksBounded'
<1> SUFFICES ASSUME IInv, [Next]_vars, NEW c \in Channels
             PROVE  Cardinality(Own(webhooks'[c])) + Cardinality(Creating(c)')
                        <= MaxOverlap * (restarts' + 1)
  BY DEF HooksBounded
<1> DEFINE own == Own(webhooks[c])      own1 == Own(webhooks'[c])
           new == Creating(c)           new1 == Creating(c)'
<1>0. /\ TypeOK /\ MaxOverlap \in Nat /\ restarts \in Nat
      /\ Cardinality(own) + Cardinality(new) <= MaxOverlap * (restarts + 1)
      /\ ~ready => Cardinality(own) <= MaxOverlap * restarts
  BY WebhookCacheAssumption DEF IInv, OverlapBounded, HooksBounded, TypeOK
<1>1. /\ IsFiniteSet(own) /\ IsFiniteSet(own1)
      /\ Cardinality(own) \in Nat /\ Cardinality(own1) \in Nat
  BY OwnFacts, WebhooksChange, FS_CardinalityType DEF Own
<1>2. /\ IsFiniteSet(new) /\ Cardinality(new) \in Nat
      /\ IsFiniteSet(new1) /\ Cardinality(new1) \in Nat /\ Cardinality(new1) <= MaxOverlap
  <2>1. new \subseteq Underway /\ new1 \subseteq Underway'
    BY DEF Creating, Underway
  <2>2. /\ IsFiniteSet(Underway) /\ IsFiniteSet(Underway') /\ Cardinality(Underway') <= MaxOverlap
    BY OverlapStep DEF IInv, OverlapBounded
  <2>3. /\ IsFiniteSet(new) /\ Cardinality(new) \in Nat
        /\ IsFiniteSet(new1) /\ Cardinality(new1) \in Nat /\ Cardinality(Underway') \in Nat
        /\ Cardinality(new1) <= Cardinality(Underway')
    BY <2>1, <2>2, SmallerCount
  <2> QED
    BY <1>0, <2>2, <2>3
<1> USE DEF Go, Drop
<1>3. ASSUME NEW s \in Sends, Create(s), Target[s] = c
      PROVE  Cardinality(own1) + Cardinality(new1) <= MaxOverlap * (restarts' + 1)
  <2>1. /\ step[s] = "creating" /\ restarts' = restarts
        /\ webhooks'[c] = Append(webhooks[c], s)
        /\ webhooks[c] \in Seq(Hooks)
    BY <1>0, <1>3, WebhooksChange DEF Create, TypeOK, counters
  <2>2. own1 = own \cup {s} /\ s \notin own
    BY <2>1, AppendOwn DEF IInv, OwnInPlace
  <2>3. new1 = new \ {s} /\ s \in new
    BY <1>0, <1>3, <2>1 DEF Creating, Create, TypeOK
  <2>4. Cardinality(own1) = Cardinality(own) + 1 /\ Cardinality(new1) = Cardinality(new) - 1
    BY <1>1, <1>2, <2>2, <2>3, FS_AddElement, FS_RemoveElement
  <2> HIDE DEF own, own1, new, new1
  <2> QED
    BY <1>0, <1>1, <1>2, <2>1, <2>4
<1>4. ASSUME NEW s \in Sends, List(s), ~(new1 \subseteq new)
      PROVE  Cardinality(own1) + Cardinality(new1) <= MaxOverlap * (restarts' + 1)
  <2>1. /\ Target[s] = c /\ FirstOwn(webhooks[c]) = NoHook
    BY <1>0, <1>4 DEF Creating, List, TypeOK
  <2>2. own1 = own /\ restarts' = restarts /\ (ready => own = {})
    BY <1>4, <2>1, OwnFacts, WebhooksChange DEF List, world, counters
  <2>3. ready => Cardinality(own) = 0
    BY <2>2, FS_EmptySet
  <2> HIDE DEF own, own1, new, new1
  <2>4. MaxOverlap * (restarts + 1) = MaxOverlap * restarts + MaxOverlap /\ MaxOverlap * restarts \in Nat
    BY <1>0, Products
  <2> QED
    BY <1>0, <1>1, <1>2, <2>2, <2>3, <2>4
<1>5. ASSUME own1 \subseteq own, new1 \subseteq new
      PROVE  Cardinality(own1) + Cardinality(new1) <= MaxOverlap * (restarts' + 1)
  <2>1. Cardinality(own1) <= Cardinality(own) /\ Cardinality(new1) <= Cardinality(new)
    BY <1>1, <1>2, <1>5, SmallerCount
  <2>2. restarts' = restarts \/ restarts' = restarts + 1
    BY DEF Next, vars, world, counters, Fault, Call, Resolve, ResolvesNothing, FindCached,
           FindNothing, List, Create, CreateRefused, RequestFails, Store, Post, Ready, DeleteHook,
           Restart
  <2>3. MaxOverlap * (restarts + 1) <= MaxOverlap * (restarts' + 1)
           /\ MaxOverlap * (restarts + 1) \in Nat /\ MaxOverlap * (restarts' + 1) \in Nat
    BY <1>0, <2>2, Products
  <2> HIDE DEF own, own1, new, new1
  <2> QED
    BY <1>0, <1>1, <1>2, <2>1, <2>3
<1>6. own1 \subseteq own \/ \E s \in Sends : Create(s) /\ Target[s] = c
  BY WebhooksChange DEF Own
<1>7. \/ new1 \subseteq new
      \/ \E s \in Sends : List(s)
  <2>1. ASSUME NEW s \in Sends, NEW x, x # "creating", Go(s, x) PROVE new1 \subseteq new
    BY <1>0, <2>1 DEF Creating, TypeOK
  <2>2. ASSUME NEW s \in Sends, Call(s) \/ Resolve(s) \/ ResolvesNothing(s) \/ FindCached(s)
                 \/ FindNothing(s) \/ Create(s) \/ CreateRefused(s) \/ RequestFails(s) \/ Store(s)
                 \/ Post(s)
        PROVE  new1 \subseteq new
    <3>1. \E x : x # "creating" /\ Go(s, x)
      BY <2>2 DEF Call, Resolve, ResolvesNothing, FindCached, FindNothing, Create, CreateRefused,
                  RequestFails, Store, Post
    <3> QED
      BY <2>1, <3>1
  <2>3. CASE Restart
    BY <2>3 DEF Restart, Creating, Underway
  <2>4. CASE UNCHANGED step
    BY <2>4 DEF Creating
  <2> QED
    BY <2>2, <2>3, <2>4 DEF Next, vars, Ready, DeleteHook
<1>8. ASSUME NEW s \in Sends, Create(s) PROVE new1 \subseteq new
  BY <1>0, <1>8 DEF Creating, Create, TypeOK
<1>9. ASSUME NEW s \in Sends, List(s) PROVE own1 \subseteq own
  BY <1>9 DEF List, world
<1> QED
  BY <1>3, <1>4, <1>5, <1>6, <1>7, <1>8, <1>9

-----------------------------------------------------------------------------
\* IInv is an invariant: what calls, Redis and Discord hold fits together.
THEOREM Invariance == Spec => []IInv
<1>1. IInv /\ [Next]_vars => IInv'
  BY TypeStep, OverlapStep, OwnInPlaceStep, HooksUsableStep, CallsProceedStep,
     LostOnlyByFaultsStep, HooksBoundedStep DEF IInv
<1> QED
  BY InitInvariant, <1>1, PTL DEF Spec

\* Whatever calls overlap, an embed arrives in its channel, and nothing but a
\* fault, a deletion, a restart or an early start keeps it from there.
THEOREM OnlyFaultsLose == Spec => []LostOnlyByFaults
<1>1. IInv => LostOnlyByFaults
  BY DEF IInv
<1> QED
  BY Invariance, <1>1, PTL

\* A channel gets no more webhooks in one life of the process than calls overlap.
THEOREM WebhooksBounded == Spec => []HooksBounded
<1>1. IInv => HooksBounded
  BY DEF IInv
<1> QED
  BY Invariance, <1>1, PTL
=============================================================================
