---------------------------- MODULE RoleLogProofs ----------------------------
(***************************************************************************)
(* Proofs about RoleLog, the MemoryStore it keeps roles in, and the        *)
(* Durations it shows: the store and the logs follow Discord, for any      *)
(* number of roles, events and gaps in the connection, and every age that  *)
(* a log shows reads as what it is.                                        *)
(***************************************************************************)
EXTENDS RoleLog, FiniteSetTheorems, WellFoundedInduction, TLAPS

-----------------------------------------------------------------------------
\* The numbers are well founded, and so a set of them has a least element.
LEMMA Before ==
    ASSUME NEW m \in Nat, NEW n \in Nat, m < n
    PROVE  <<m, n>> \in OpToRel(<, Nat)
BY DEF OpToRel

LEMMA Least ==
    ASSUME NEW T \in SUBSET Nat, T # {}
    PROVE  \E n \in T : \A m \in T : n <= m
<1> DEFINE R == OpToRel(<, Nat)
<1>1. IsWellFoundedOn(R, Nat)
  BY NatLessThanWellFounded
<1>2. \A m, n \in Nat : m < n => <<m, n>> \in R
  BY Before
<1> HIDE DEF R
<1>3. PICK n \in T : \A m \in T : ~(<<m, n>> \in R)
  BY <1>1, WFMin
<1>4. ASSUME NEW m \in T PROVE n <= m
  <2>1. m \in Nat /\ n \in Nat
    OBVIOUS
  <2>2. ~(m < n)
    BY <1>2, <1>3, <2>1, Zenon
  <2> QED
    BY <2>1, <2>2
<1> QED
  BY <1>4

\* Induction over the numbers, for sets.
LEMMA Induction ==
    ASSUME NEW T \in SUBSET Nat, 0 \in T, \A n \in T : n + 1 \in T
    PROVE  T = Nat
<1> SUFFICES ASSUME Nat \ T # {} PROVE FALSE
  OBVIOUS
<1>1. PICK n \in Nat \ T : \A m \in Nat \ T : n <= m
  BY Least
<1> QED
  BY <1>1, n - 1 \in Nat, n - 1 \notin Nat \ T

\* A set of numbers below a bound has a greatest element.
LEMMA MaxFacts ==
    ASSUME NEW n \in Nat, NEW t \in SUBSET (1..n), t # {}
    PROVE  Max(t) \in t /\ \A x \in t : x <= Max(t)
<1> DEFINE Above == {k \in Nat : \A x \in t : x <= k}
<1>1. n \in Above
  OBVIOUS
<1>2. PICK k \in Above : \A j \in Above : k <= j
  <2> HIDE DEF Above
  <2>1. Above \in SUBSET Nat
    BY DEF Above
  <2> QED
    BY <1>1, <2>1, Least
<1>3. k \in t
  <2> SUFFICES ASSUME k \notin t PROVE FALSE
    OBVIOUS
  <2>1. k \in Nat /\ \A x \in t : x \in Nat /\ x >= 1 /\ x <= k
    BY <1>2
  <2>2. \A x \in t : x < k
    BY <2>1
  <2>4. PICK x \in t : TRUE
    OBVIOUS
  <2>5. k - 1 \in Nat /\ \A y \in t : y <= k - 1
    BY <2>1, <2>2, <2>4
  <2>3. k - 1 \in Above
    BY <2>5
  <2> QED
    BY <1>2, <2>1, <2>3
<1> QED
  BY <1>2, <1>3 DEF Max

-----------------------------------------------------------------------------
\* What the memory store's operations do, for lists and maps of any size.
Listed(s) == \A r \in Roles : Store!Lookup(s, r) # NotFound => Contains(s.ids, r)

LEMMA StoreFields ==
    ASSUME NEW s \in Store!MemoryStores
    PROVE  s.of \in [Roles -> Known] /\ s.ids \in Seq(Roles)
BY DEF Store!MemoryStores, Known

LEMMA NewStoreFacts ==
    /\ Store!NewStore \in Store!MemoryStores
    /\ \A r \in Roles : Store!Lookup(Store!NewStore, r) = NotFound
BY DEF Store!MemoryStores, Store!NewStore, Store!Lookup

\* SetRole lists the role it stores.
LEMMA SetOneFacts ==
    ASSUME NEW s \in Store!MemoryStores, NEW r \in Roles, NEW value \in Role
    PROVE  /\ Store!SetOne(s, r, value) \in Store!MemoryStores
           /\ \A q \in Roles : Store!Lookup(Store!SetOne(s, r, value), q) =
                                  IF q = r THEN value ELSE Store!Lookup(s, q)
           /\ Listed(s) => Listed(Store!SetOne(s, r, value))
<1> DEFINE ids == IF Contains(s.ids, r) THEN s.ids ELSE Append(s.ids, r)
           of  == [s.of EXCEPT ![r] = value]
<1>1. Store!SetOne(s, r, value) = [of |-> of, ids |-> ids]
  BY DEF Store!SetOne, Store!Contains, Contains
<1>2. s.of \in [Roles -> Known] /\ s.ids \in Seq(Roles)
  BY StoreFields
<1>3. of \in [Roles -> Known] /\ \A q \in Roles : of[q] = IF q = r THEN value ELSE s.of[q]
  BY <1>2 DEF Known
<1>4. ids \in Seq(Roles)
  BY <1>2
<1>5. \A q \in Roles : Contains(s.ids, q) \/ q = r => Contains(ids, q)
  <2>1. CASE Contains(s.ids, r)
    BY <2>1
  <2>2. CASE ~Contains(s.ids, r)
    <3>1. /\ Len(s.ids) \in Nat
          /\ Len(Append(s.ids, r)) = Len(s.ids) + 1
          /\ \A i \in 1..Len(s.ids) : Append(s.ids, r)[i] = s.ids[i]
          /\ Append(s.ids, r)[Len(s.ids) + 1] = r
      BY <1>2
    <3> QED
      BY <2>2, <3>1 DEF Contains
  <2> QED
    BY <2>1, <2>2
<1> HIDE DEF ids, of
<1> QED
  BY <1>1, <1>2, <1>3, <1>4, <1>5 DEF Store!MemoryStores, Store!Lookup, Listed, Known

\* SetToSeq lists a finite set.
LEMMA SetToSeqFacts ==
    ASSUME NEW S, IsFiniteSet(S)
    PROVE  /\ Store!SetToSeq(S) \in Seq(S)
           /\ \A x \in S : Contains(Store!SetToSeq(S), x)
<1> DEFINE n == Cardinality(S)
           s == Store!SetToSeq(S)
<1>1. n \in Nat /\ ExistsBijection(1..n, S)
  BY FS_CardinalityType
<1>2. PICK f : f \in Bijection(1..n, S)
  BY <1>1 DEF ExistsBijection
<1>3. f \in [1..n -> S] /\ Store!IsInjective(f)
  BY <1>2 DEF Bijection, Injection, IsInjective, Store!IsInjective
<1>4. s \in [1..n -> S] /\ Store!IsInjective(s)
  <2>1. s = CHOOSE g \in [1..n -> S] : Store!IsInjective(g)
    BY Zenon DEF Store!SetToSeq, Store!Cardinality, Cardinality
  <2> HIDE DEF s, n
  <2> QED
    BY <1>3, <2>1, Zenon
<1> HIDE DEF s, n
<1>5. s \in Injection(1..n, S)
  BY <1>4 DEF Injection, IsInjective, Store!IsInjective
<1>6. IsFiniteSet(1..n) /\ Cardinality(1..n) = n
  BY <1>1, FS_Interval
<1>7. s \in Surjection(1..n, S)
  BY <1>5, <1>6, FS_Injection DEF n
<1>8. s \in Seq(S) /\ Len(s) = n
  BY <1>1, <1>4
<1> QED
  BY <1>7, <1>8 DEF Surjection, Contains, s

\* SetRoles lists the roles it stores, and forgets none.
LEMMA SetManyFacts ==
    ASSUME NEW s \in Store!MemoryStores, NEW set \in SUBSET Roles, NEW values \in [Roles -> Known]
    PROVE  /\ Store!SetMany(s, set, values) \in Store!MemoryStores
           /\ \A q \in Roles : Store!Lookup(Store!SetMany(s, set, values), q) =
                                  IF q \in set THEN values[q] ELSE Store!Lookup(s, q)
           /\ Listed(s) => Listed(Store!SetMany(s, set, values))
<1> DEFINE new == {r \in set : ~Contains(s.ids, r)}
           more == Store!SetToSeq(new)
           ids == s.ids \o more
           of  == [r \in Roles |-> IF r \in set THEN values[r] ELSE s.of[r]]
<1>1. Store!SetMany(s, set, values) = [of |-> of, ids |-> ids]
  BY DEF Store!SetMany, Store!Contains, Contains
<1>2. s.of \in [Roles -> Known] /\ s.ids \in Seq(Roles)
  BY StoreFields
<1>3. of \in [Roles -> Known]
  BY <1>2
<1>4. IsFiniteSet(new)
  BY RoleLogAssumption, FS_Subset
<1>5. more \in Seq(new) /\ \A r \in new : Contains(more, r)
  BY <1>4, SetToSeqFacts
<1>6. more \in Seq(Roles)
  BY <1>5
<1> HIDE DEF more
<1>7. /\ ids \in Seq(Roles)
      /\ Len(s.ids) \in Nat /\ Len(more) \in Nat /\ Len(ids) = Len(s.ids) + Len(more)
      /\ \A i \in 1..Len(s.ids) : ids[i] = s.ids[i]
      /\ \A i \in 1..Len(more) : ids[Len(s.ids) + i] = more[i]
  BY <1>2, <1>6
<1> HIDE DEF ids
<1>8. \A q \in Roles : Contains(s.ids, q) \/ Contains(more, q) => Contains(ids, q)
  <2>1. ASSUME NEW q \in Roles, Contains(s.ids, q) PROVE Contains(ids, q)
    BY <1>7, <2>1 DEF Contains
  <2>2. ASSUME NEW q \in Roles, Contains(more, q) PROVE Contains(ids, q)
    <3>1. PICK i \in 1..Len(more) : more[i] = q
      BY <2>2 DEF Contains
    <3>2. Len(s.ids) + i \in 1..Len(ids) /\ ids[Len(s.ids) + i] = q
      BY <1>7, <3>1
    <3> QED
      BY <3>2 DEF Contains
  <2> QED
    BY <2>1, <2>2
<1>9. \A q \in set : Contains(ids, q)
  BY <1>5, <1>8
<1> QED
  BY <1>1, <1>2, <1>3, <1>7, <1>8, <1>9 DEF Store!MemoryStores, Store!Lookup, Listed, Known

\* remove shifts the rest of the list over the ID, and so loses no other ID.
LEMMA ShiftedFacts ==
    ASSUME NEW ids \in Seq(Roles), NEW r \in Roles
    PROVE  /\ Store!Shifted(ids, r) \in Seq(Roles)
           /\ \A q \in Roles \ {r} : Contains(ids, q) => Contains(Store!Shifted(ids, r), q)
<1>1. CASE ~Store!Contains(ids, r)
  BY <1>1 DEF Store!Shifted
<1>2. CASE Store!Contains(ids, r)
  <2> DEFINE n == Len(ids)
             I == {k \in 1..n : ids[k] = r}
             i == Store!SelectInSeq(ids, LAMBDA x : x = r)
             after == [k \in 1..n |-> IF k < i \/ k = n THEN ids[k] ELSE ids[k + 1]]
  <2>0. n \in Nat /\ I \in SUBSET Nat /\ I # {}
    BY <1>2 DEF Store!Contains
  <2>1. i = Store!Min(I)
    BY <2>0 DEF Store!SelectInSeq
  <2>2. PICK m \in I : \A k \in I : m <= k
    BY <2>0, Least
  <2>3. i \in I
    BY <2>0, <2>1, <2>2 DEF Store!Min
  <2>4. Store!Shifted(ids, r) = IF i \in {1, n} THEN ids ELSE after
    BY <1>2 DEF Store!Shifted
  <2> HIDE DEF i
  <2>5. CASE i \in {1, n}
    BY <2>4, <2>5
  <2>6. CASE i \notin {1, n}
    <3>0. i \in 1..n /\ i # n /\ ids[i] = r
      BY <2>3, <2>6
    <3>1. after \in Seq(Roles) /\ Len(after) = n
      <4>1. \A k \in 1..n : (IF k < i \/ k = n THEN ids[k] ELSE ids[k + 1]) \in Roles
        BY <2>0
      <4> QED
        BY <2>0, <4>1
    <3>2. ASSUME NEW q \in Roles \ {r}, Contains(ids, q) PROVE Contains(after, q)
      <4>1. PICK k \in 1..n : ids[k] = q
        BY <3>2 DEF Contains
      <4>2. k # i
        BY <3>0, <4>1
      <4>3. CASE k < i \/ k = n
        <5>1. after[k] = q
          BY <4>1, <4>3
        <5> QED
          BY <3>1, <5>1 DEF Contains
      <4>4. CASE ~(k < i \/ k = n)
        <5>1. k - 1 \in 1..n /\ ~(k - 1 < i) /\ k - 1 # n /\ (k - 1) + 1 = k
          BY <2>0, <3>0, <4>2, <4>4
        <5>2. after[k - 1] = q
          BY <4>1, <5>1
        <5> QED
          BY <3>1, <5>1, <5>2 DEF Contains
      <4> QED
        BY <4>3, <4>4
    <3> HIDE DEF after
    <3> QED
      BY <2>4, <2>6, <3>1, <3>2
  <2> QED
    BY <2>5, <2>6
<1> QED
  BY <1>1, <1>2

\* RemoveRole: the role is gone from the map, and all that are left are listed.
LEMMA RemoveOneFacts ==
    ASSUME NEW s \in Store!MemoryStores, NEW r \in Roles
    PROVE  /\ Store!RemoveOne(s, r) \in Store!MemoryStores
           /\ \A q \in Roles : Store!Lookup(Store!RemoveOne(s, r), q) =
                                  IF q = r THEN NotFound ELSE Store!Lookup(s, q)
           /\ Listed(s) => Listed(Store!RemoveOne(s, r))
<1> DEFINE ids == Store!Shifted(s.ids, r)
           of  == [s.of EXCEPT ![r] = NotFound]
<1>1. Store!RemoveOne(s, r) = [of |-> of, ids |-> ids]
  BY DEF Store!RemoveOne
<1>2. s.of \in [Roles -> Known] /\ s.ids \in Seq(Roles)
  BY StoreFields
<1>3. of \in [Roles -> Known] /\ \A q \in Roles : of[q] = IF q = r THEN NotFound ELSE s.of[q]
  BY <1>2 DEF Known
<1>4. ids \in Seq(Roles) /\ \A q \in Roles \ {r} : Contains(s.ids, q) => Contains(ids, q)
  BY <1>2, ShiftedFacts
<1> HIDE DEF ids, of
<1> QED
  BY <1>1, <1>2, <1>3, <1>4 DEF Store!MemoryStores, Store!Lookup, Listed, Known

-----------------------------------------------------------------------------
LEMMA EventFields ==
    ASSUME TypeOK, NEW i \in DOMAIN events
    PROVE  /\ events[i] \in Event
           /\ events[i].kind \in {"create", "update", "delete"}
           /\ events[i].role \in Roles
           /\ events[i].was \in Known
           /\ events[i].new \in Known
           /\ events[i].step \in {"begun", "saving", "done"}
           /\ events[i].old \in Known
           /\ events[i].logged \in BOOLEAN
<1>1. events[i] \in Event
  BY DEF TypeOK
<1> QED
  BY <1>1 DEF Event

\* A handler's step changes its own event, and of it only what it keeps.
LEMMA HandleFacts ==
    ASSUME TypeOK, NEW i \in DOMAIN events,
           NEW step \in {"begun", "saving", "done"}, NEW old \in Known, NEW logged \in BOOLEAN,
           Handle(i, step, old, logged)
    PROVE  /\ events' \in Seq(Event) /\ Len(events') = Len(events)
           /\ DOMAIN events' = DOMAIN events
           /\ \A j \in DOMAIN events : j # i => events'[j] = events[j]
           /\ \A j \in DOMAIN events :
                 /\ events'[j].kind = events[j].kind
                 /\ events'[j].role = events[j].role
                 /\ events'[j].was = events[j].was
                 /\ events'[j].new = events[j].new
           /\ events'[i].step = step
           /\ events'[i].old = old
           /\ events'[i].logged = logged
<1> DEFINE e == events[i]
           f == [[[e EXCEPT !.step = step] EXCEPT !.old = old] EXCEPT !.logged = logged]
<1>1. e \in Event
  BY EventFields
<1>2. events' = [events EXCEPT ![i] = f]
  BY DEF Handle, TypeOK
<1>3. /\ f \in Event
      /\ f.kind = e.kind /\ f.role = e.role /\ f.was = e.was /\ f.new = e.new
      /\ f.step = step /\ f.old = old /\ f.logged = logged
  BY <1>1 DEF Event
<1> HIDE DEF f
<1>4. events \in Seq(Event)
  BY DEF TypeOK
<1>5. /\ events' \in Seq(Event) /\ Len(events') = Len(events)
      /\ DOMAIN events' = DOMAIN events
      /\ \A j \in DOMAIN events : j # i => events'[j] = events[j]
      /\ events'[i] = f
  BY <1>2, <1>3, <1>4
<1> QED
  BY <1>3, <1>5

\* An event is added behind the others.
LEMMA AppendFacts ==
    ASSUME TypeOK, NEW e \in Event, events' = Append(events, e), Len(events) < MaxEvents
    PROVE  /\ events' \in Seq(Event) /\ Len(events') <= MaxEvents
           /\ DOMAIN events \subseteq DOMAIN events'
           /\ Len(events) + 1 \in DOMAIN events' /\ Len(events) + 1 \notin DOMAIN events
           /\ DOMAIN events' = DOMAIN events \cup {Len(events) + 1}
           /\ \A j \in DOMAIN events : events'[j] = events[j]
           /\ events'[Len(events) + 1] = e
<1>1. events \in Seq(Event) /\ Len(events) \in Nat /\ MaxEvents \in Nat /\ DOMAIN events = 1..Len(events)
  BY RoleLogAssumption DEF TypeOK
<1>2. /\ events' \in Seq(Event) /\ Len(events') = Len(events) + 1
      /\ DOMAIN events' = 1..(Len(events) + 1)
      /\ \A j \in 1..Len(events) : events'[j] = events[j]
      /\ events'[Len(events) + 1] = e
  BY <1>1
<1> QED
  BY <1>1, <1>2

\* What an event tells of a role.
LEMMA StoreLookup ==
    ASSUME TypeOK, NEW r \in Roles
    PROVE  /\ Store!Lookup(store, r) \in Known
           /\ real[r] \in Known
BY StoreFields DEF TypeOK, Store!Lookup

-----------------------------------------------------------------------------
\* What a change on Discord does: with a connection it is the last event, whose
\* handler has begun; without it nothing is heard of it.
LEMMA ChangeFacts ==
    ASSUME TypeOK, NEW r \in Roles, NEW kind \in {"create", "update", "delete"}, NEW new \in Known,
           Change(kind, r, new)
    PROVE  /\ real' \in [Roles -> Known]
           /\ real'[r] = new
           /\ \A q \in Roles : q # r => real'[q] = real[q]
           /\ UNCHANGED <<online, gaps, snapshots, store>>
           /\ overlapped \subseteq overlapped' /\ overlapped' \subseteq Roles
           /\ online => /\ Len(events) < MaxEvents
                        /\ events' = Append(events,
                              [kind |-> kind, role |-> r, was |-> real[r], new |-> new,
                               step |-> "begun", old |-> NotFound, logged |-> FALSE])
                        /\ Busy(r) => r \in overlapped'
           /\ ~online => UNCHANGED <<events, overlapped>>
BY DEF Change, TypeOK, Known

-----------------------------------------------------------------------------
LEMMA InitInvariant == Init => IInv
<1> SUFFICES ASSUME Init PROVE IInv
  OBVIOUS
<1> USE RoleLogAssumption
<1>1. events = <<>> /\ DOMAIN events = {} /\ events \in Seq(Event) /\ Len(events) = 0
  BY DEF Init
<1>2. real \in [Roles -> Known]
  BY DEF Init, Known
<1>3. store \in Store!MemoryStores /\ \A r \in Roles : Store!Lookup(store, r) = NotFound
  BY NewStoreFacts DEF Init
<1>4. TypeOK
  BY <1>1, <1>2, <1>3 DEF Init, TypeOK
<1>5. EventsFit /\ HandlersFollow /\ LogsFollow
  BY <1>1 DEF EventsFit, HandlersFollow, LogsFollow
<1>6. SnapshotsFollow
  BY <1>3 DEF Init, SnapshotsFollow, Current
<1>7. StoreFollows
  BY DEF Init, StoreFollows, Busy
<1>8. StoredAreListed
  BY <1>3 DEF StoredAreListed
<1> QED
  BY <1>4, <1>5, <1>6, <1>7, <1>8 DEF IInv

-----------------------------------------------------------------------------
\* A change of a role on Discord: its handler is alone with the role, or the role
\* is excepted from now on.
LEMMA ChangeKeeps ==
    ASSUME IInv, NEW r \in Roles, NEW kind \in {"create", "update", "delete"}, NEW new \in Known,
           Change(kind, r, new),
           real[r] = NotFound <=> kind = "create",
           new = NotFound <=> kind = "delete",
           deleted' \in SUBSET Roles, missed' \in SUBSET Roles, missed \subseteq missed',
           new = NotFound /\ ~online => r \in missed'
    PROVE  IInv'
<1> DEFINE e0 == [kind |-> kind, role |-> r, was |-> real[r], new |-> new,
                  step |-> "begun", old |-> NotFound, logged |-> FALSE]
           n0 == Len(events) + 1
<1>0. TypeOK /\ EventsFit /\ HandlersFollow /\ SnapshotsFollow /\ StoreFollows /\ StoredAreListed /\ LogsFollow
  BY DEF IInv
<1>1. /\ real' \in [Roles -> Known]
      /\ real'[r] = new
      /\ \A q \in Roles : q # r => real'[q] = real[q]
      /\ online' = online /\ gaps' = gaps /\ snapshots' = snapshots /\ store' = store
      /\ overlapped \subseteq overlapped' /\ overlapped' \subseteq Roles
      /\ online => /\ Len(events) < MaxEvents
                   /\ events' = Append(events, e0)
                   /\ Busy(r) => r \in overlapped'
      /\ ~online => events' = events /\ overlapped' = overlapped
  BY <1>0, ChangeFacts, Zenon
<1>2. Current' \subseteq Current
  BY <1>1 DEF Current
<1>3. e0 \in Event /\ e0.role = r /\ e0.kind = kind /\ e0.was = real[r] /\ e0.new = new /\ e0.step = "begun"
  BY <1>0, StoreLookup DEF Event, Known
<1> HIDE DEF e0
<1>4. ASSUME online
      PROVE  /\ events' \in Seq(Event) /\ Len(events') <= MaxEvents
             /\ n0 \notin DOMAIN events
             /\ DOMAIN events' = DOMAIN events \cup {n0}
             /\ \A j \in DOMAIN events : events'[j] = events[j]
             /\ events'[n0] = e0
  BY <1>0, <1>1, <1>3, <1>4, AppendFacts
<1> HIDE DEF n0
<1>5. \A j \in DOMAIN events : j \in DOMAIN events' /\ events'[j] = events[j]
  BY <1>1, <1>4
<1>6. \A j \in DOMAIN events' : j \in DOMAIN events \/ (online /\ j = n0 /\ events'[j] = e0)
  <2> SUFFICES ASSUME NEW j \in DOMAIN events', j \notin DOMAIN events
               PROVE  online /\ j = n0 /\ events'[j] = e0
    OBVIOUS
  <2>1. online
    BY <1>1
  <2>2. j = n0 /\ events'[j] = e0
    BY <1>4, <2>1
  <2> QED
    BY <2>1, <2>2
<1>7. TypeOK'
  <2>1. events' \in Seq(Event) /\ Len(events') <= MaxEvents
    BY <1>0, <1>1, <1>4 DEF TypeOK
  <2>2. \A i \in DOMAIN events' :
           events'[i].step = "saving" /\ events'[i].kind # "create" => events'[i].old # NotFound
    BY <1>0, <1>3, <1>5, <1>6 DEF TypeOK
  <2> QED
    BY <1>0, <1>1, <2>1, <2>2 DEF TypeOK
<1>8. EventsFit'
  BY <1>0, <1>3, <1>5, <1>6 DEF EventsFit
<1>9. ASSUME online, r \in Current' PROVE ~Busy(r)
  BY <1>1, <1>9 DEF Current
<1>10. HandlersFollow'
  <2> SUFFICES ASSUME NEW i \in DOMAIN events', events'[i].step # "done", events'[i].role \in Current'
               PROVE  /\ snapshots' = {}
                      /\ \A j \in DOMAIN events' :
                            events'[j].role = events'[i].role /\ events'[j].step # "done" => j = i
                      /\ Store!Lookup(store', events'[i].role) = events'[i].was
                      /\ online' => real'[events'[i].role] = events'[i].new
                      /\ real'[events'[i].role] = NotFound => events'[i].new = NotFound
    BY DEF HandlersFollow
  <2>1. CASE i \in DOMAIN events
    <3>1. events'[i] = events[i] /\ events[i].role \in Current /\ events[i].role \in Roles
      BY <1>0, <1>2, <1>5, <2>1, EventFields
    <3>2. /\ snapshots = {}
          /\ \A j \in DOMAIN events : events[j].role = events[i].role /\ events[j].step # "done" => j = i
          /\ Store!Lookup(store, events[i].role) = events[i].was
          /\ online => real[events[i].role] = events[i].new
          /\ real[events[i].role] = NotFound => events[i].new = NotFound
      BY <1>0, <2>1, <3>1 DEF HandlersFollow
    <3>3. Busy(events[i].role)
      BY <2>1, <3>1 DEF Busy
    <3>4. online => events[i].role # r
      BY <1>9, <3>1, <3>3
    <3>5. ~online /\ events[i].role = r => new # NotFound
      BY <3>1 DEF Current
    <3>6. \A j \in DOMAIN events' : events'[j].role = events[i].role /\ events'[j].step # "done" => j = i
      BY <1>3, <1>5, <1>6, <3>2, <3>4
    <3> QED
      BY <1>1, <3>1, <3>2, <3>4, <3>5, <3>6
  <2>2. CASE i \notin DOMAIN events
    <3>1. online /\ i = n0 /\ events'[i] = e0
      BY <1>6, <2>2
    <3>2. r \in Current' /\ ~Busy(r) /\ r \in Current
      BY <1>2, <1>3, <1>9, <3>1
    <3>3. snapshots = {} /\ \A j \in DOMAIN events : ~(events[j].role = r /\ events[j].step # "done")
      BY <3>2 DEF Busy
    <3>4. Store!Lookup(store, r) = real[r]
      BY <1>0, <3>1, <3>2 DEF StoreFollows
    <3>5. \A j \in DOMAIN events' : events'[j].role = r /\ events'[j].step # "done" => j = i
      BY <1>5, <1>6, <3>1, <3>3
    <3> QED
      BY <1>1, <1>3, <3>1, <3>3, <3>4, <3>5
  <2> QED
    BY <2>1, <2>2
<1>11. SnapshotsFollow'
  <2> SUFFICES ASSUME NEW s \in snapshots', NEW q \in Current'
               PROVE  /\ snapshots' = {s}
                      /\ online' => real'[q] = s[q]
                      /\ real'[q] = NotFound => s[q] = NotFound
                      /\ s[q] = NotFound => Store!Lookup(store', q) = NotFound
    BY DEF SnapshotsFollow
  <2>1. /\ snapshots = {s}
        /\ online => real[q] = s[q]
        /\ real[q] = NotFound => s[q] = NotFound
        /\ s[q] = NotFound => Store!Lookup(store, q) = NotFound
    BY <1>0, <1>1, <1>2 DEF SnapshotsFollow
  <2>2. Busy(q)
    BY <1>1 DEF Busy
  <2>3. online => q # r
    BY <1>9, <2>2
  <2>4. ~online /\ q = r => new # NotFound
    BY DEF Current
  <2>5. q \in Roles
    BY DEF Current
  <2> QED
    BY <1>1, <2>1, <2>3, <2>4, <2>5
<1>12. StoreFollows'
  <2> SUFFICES ASSUME NEW q \in Current', ~Busy(q)'
               PROVE  /\ online' => Store!Lookup(store', q) = real'[q]
                      /\ real'[q] = NotFound => Store!Lookup(store', q) = NotFound
    BY DEF StoreFollows
  <2>1. q \in Current /\ q \in Roles
    BY <1>2 DEF Current
  <2>2. ~Busy(q)
    BY <1>1, <1>5 DEF Busy
  <2>3. /\ online => Store!Lookup(store, q) = real[q]
        /\ real[q] = NotFound => Store!Lookup(store, q) = NotFound
    BY <1>0, <2>1, <2>2 DEF StoreFollows
  <2>4. online => q # r
    BY <1>3, <1>4 DEF Busy
  <2>5. ~online /\ q = r => new # NotFound
    BY DEF Current
  <2> QED
    BY <1>1, <2>1, <2>3, <2>4, <2>5
<1>13. StoredAreListed'
  BY <1>0, <1>1 DEF StoredAreListed
<1>14. LogsFollow'
  BY <1>0, <1>2, <1>3, <1>5, <1>6 DEF LogsFollow
<1> QED
  BY <1>7, <1>8, <1>10, <1>11, <1>12, <1>13, <1>14 DEF IInv

\* A new session lists the roles; those with a handler on its way are excepted.
LEMMA ConnectionKeeps ==
    ASSUME IInv, Disconnect \/ Reconnect
    PROVE  IInv'
<1>0. TypeOK /\ EventsFit /\ HandlersFollow /\ SnapshotsFollow /\ StoreFollows /\ StoredAreListed /\ LogsFollow
  BY DEF IInv
<1>1. events' = events /\ store' = store /\ real' = real /\ deleted' = deleted /\ missed' = missed
  BY DEF Disconnect, Reconnect
<1>2. EventsFit' /\ StoredAreListed'
  BY <1>0, <1>1 DEF EventsFit, StoredAreListed
<1>3. CASE Disconnect
  <2>1. online' = FALSE /\ snapshots' = snapshots /\ overlapped' = overlapped /\ gaps' \in 0..MaxDisconnects
    <3>1. gaps \in Nat /\ MaxDisconnects \in Nat /\ gaps < MaxDisconnects /\ gaps' = gaps + 1
      BY <1>0, <1>3, RoleLogAssumption DEF Disconnect, TypeOK
    <3> QED
      BY <1>3, <3>1 DEF Disconnect
  <2>2. TypeOK'
    BY <1>0, <1>1, <2>1 DEF TypeOK
  <2>3. Current' = Current /\ \A r : Busy(r)' <=> Busy(r)
    BY <1>1, <2>1 DEF Current, Busy
  <2>4. HandlersFollow' /\ SnapshotsFollow' /\ StoreFollows' /\ LogsFollow'
    BY <1>0, <1>1, <2>1, <2>3 DEF HandlersFollow, SnapshotsFollow, StoreFollows, LogsFollow
  <2> QED
    BY <1>2, <2>2, <2>4 DEF IInv
<1>4. CASE Reconnect
  <2>1. /\ online' = TRUE /\ snapshots' = snapshots \cup {real} /\ gaps' = gaps
        /\ overlapped' = overlapped \cup {r \in Roles : Busy(r)}
    BY <1>4 DEF Reconnect
  <2>2. TypeOK'
    BY <1>0, <1>1, <2>1 DEF TypeOK
  <2>3. \A r \in Current' : r \in Roles /\ r \in Current /\ ~Busy(r)
    BY <1>1, <2>1 DEF Current
  <2>4. HandlersFollow'
    BY <1>1, <2>3 DEF HandlersFollow, Busy
  <2>5. SnapshotsFollow'
    <3>1. \A r \in Current' : snapshots' = {real} /\ (real[r] = NotFound => Store!Lookup(store, r) = NotFound)
      BY <1>0, <2>1, <2>3 DEF Busy, StoreFollows
    <3> QED
      BY <1>1, <3>1 DEF SnapshotsFollow
  <2>6. StoreFollows'
    BY <2>1 DEF StoreFollows, Busy
  <2>7. LogsFollow'
    BY <1>0, <1>1, <2>3 DEF LogsFollow
  <2> QED
    BY <1>2, <2>2, <2>4, <2>5, <2>6, <2>7 DEF IInv
<1> QED
  BY <1>3, <1>4

\* guildCreate brings what Discord listed, and leaves what it did not list.
LEMMA SnapshotKeeps ==
    ASSUME IInv, NEW s \in snapshots, StoreSnapshot(s)
    PROVE  IInv'
<1>0. TypeOK /\ EventsFit /\ HandlersFollow /\ SnapshotsFollow /\ StoreFollows /\ StoredAreListed /\ LogsFollow
  BY DEF IInv
<1>1. /\ real' = real /\ deleted' = deleted /\ online' = online /\ gaps' = gaps
      /\ events' = events /\ overlapped' = overlapped /\ missed' = missed
      /\ snapshots' = snapshots \ {s} /\ store' = Store!SetMany(store, Exists(s), s)
  BY DEF StoreSnapshot, discord
<1>2. s \in [Roles -> Known] /\ store \in Store!MemoryStores
  BY <1>0 DEF TypeOK
<1>3. /\ store' \in Store!MemoryStores
      /\ \A q \in Roles : Store!Lookup(store', q) = IF s[q] # NotFound THEN s[q] ELSE Store!Lookup(store, q)
      /\ Listed(store) => Listed(store')
  BY <1>1, <1>2, SetManyFacts DEF Exists
<1>4. TypeOK'
  BY <1>0, <1>1, <1>3 DEF TypeOK
<1>5. EventsFit' /\ LogsFollow' /\ StoredAreListed'
  BY <1>0, <1>1, <1>3 DEF EventsFit, LogsFollow, StoredAreListed, Listed, Current
<1>6. Current' = Current /\ \A r \in Current : r \in Roles
  BY <1>1 DEF Current
<1>7. HandlersFollow'
  BY <1>0, <1>1, <1>6 DEF HandlersFollow
<1>8. SnapshotsFollow'
  BY <1>0, <1>1, <1>6 DEF SnapshotsFollow
<1>9. ASSUME NEW r \in Current
      PROVE  /\ online' => Store!Lookup(store', r) = real'[r]
             /\ real'[r] = NotFound => Store!Lookup(store', r) = NotFound
  <2>1. /\ online => real[r] = s[r]
        /\ real[r] = NotFound => s[r] = NotFound
        /\ s[r] = NotFound => Store!Lookup(store, r) = NotFound
    BY <1>0 DEF SnapshotsFollow
  <2>2. Store!Lookup(store', r) = s[r]
    BY <1>3, <1>6, <2>1
  <2> QED
    BY <1>1, <2>1, <2>2
<1>10. StoreFollows'
  BY <1>6, <1>9 DEF StoreFollows
<1> QED
  BY <1>4, <1>5, <1>7, <1>8, <1>10 DEF IInv

-----------------------------------------------------------------------------
\* A handler that is alone with its role finds it, logs it as it was and goes on to
\* its deferred call.
LEMMA HandlerKeeps ==
    ASSUME IInv, NEW i \in DOMAIN events, events[i].step = "begun",
           NEW step \in {"saving", "done"}, NEW old \in Known, NEW logged \in BOOLEAN,
           Handle(i, step, old, logged),
           UNCHANGED <<discord, snapshots, store, overlapped, missed>>,
           step = "saving" /\ events[i].kind # "create" => old # NotFound,
           events[i].role \in Current =>
              /\ step = "saving"
              /\ events[i].kind # "create" => old = events[i].was
              /\ ShouldLog => (logged <=> events[i].kind # "update" \/ Shown[events[i].was] # Shown[events[i].new])
    PROVE  IInv'
<1>0. TypeOK /\ EventsFit /\ HandlersFollow /\ SnapshotsFollow /\ StoreFollows /\ StoredAreListed /\ LogsFollow
  BY DEF IInv
<1>1. /\ real' = real /\ deleted' = deleted /\ online' = online /\ gaps' = gaps
      /\ snapshots' = snapshots /\ store' = store /\ overlapped' = overlapped /\ missed' = missed
  BY DEF discord
<1>2. /\ events' \in Seq(Event) /\ Len(events') = Len(events)
      /\ DOMAIN events' = DOMAIN events
      /\ \A j \in DOMAIN events : j # i => events'[j] = events[j]
      /\ \A j \in DOMAIN events :
            /\ events'[j].kind = events[j].kind
            /\ events'[j].role = events[j].role
            /\ events'[j].was = events[j].was
            /\ events'[j].new = events[j].new
      /\ events'[i].step = step
      /\ events'[i].old = old
      /\ events'[i].logged = logged
  <2>1. step \in {"begun", "saving", "done"}
    OBVIOUS
  <2> QED
    BY <1>0, <2>1, HandleFacts
<1>3. Current' = Current
  BY <1>1 DEF Current
<1>4. TypeOK'
  <2>1. \A j \in DOMAIN events' :
           events'[j].step = "saving" /\ events'[j].kind # "create" => events'[j].old # NotFound
    BY <1>0, <1>2 DEF TypeOK
  <2> QED
    BY <1>0, <1>1, <1>2, <2>1 DEF TypeOK
<1>5. EventsFit' /\ StoredAreListed'
  BY <1>0, <1>1, <1>2 DEF EventsFit, StoredAreListed
<1>6. \A j \in DOMAIN events : events'[j].step # "done" => events[j].step # "done"
  BY <1>2
<1>7. HandlersFollow'
  BY <1>0, <1>1, <1>2, <1>3, <1>6 DEF HandlersFollow
<1>8. SnapshotsFollow'
  BY <1>0, <1>1, <1>3 DEF SnapshotsFollow
<1>9. StoreFollows'
  <2>1. \A r \in Current : Busy(r) => Busy(r)'
    BY <1>1, <1>2 DEF Busy
  <2> QED
    BY <1>0, <1>1, <1>3, <2>1 DEF StoreFollows
<1>10. LogsFollow'
  <2> SUFFICES ASSUME NEW j \in DOMAIN events', ShouldLog,
                      events'[j].step # "begun", events'[j].role \in Current'
               PROVE  /\ events'[j].logged <=> events'[j].kind # "update" \/ Shown[events'[j].was] # Shown[events'[j].new]
                      /\ events'[j].kind # "create" => events'[j].old = events'[j].was
    BY DEF LogsFollow
  <2>1. CASE j = i
    BY <1>2, <1>3, <2>1
  <2>2. CASE j # i
    BY <1>0, <1>2, <1>3, <2>2 DEF LogsFollow
  <2> QED
    BY <2>1, <2>2
<1> QED
  BY <1>4, <1>5, <1>7, <1>8, <1>9, <1>10 DEF IInv

LEMMA LogKeeps ==
    ASSUME IInv, NEW i \in DOMAIN events, LogCreate(i) \/ LogUpdate(i) \/ LogDelete(i)
    PROVE  IInv'
<1> DEFINE e == events[i]
           found == Store!Lookup(store, e.role)
<1>0. TypeOK /\ EventsFit /\ HandlersFollow
  BY DEF IInv
<1>1. e.role \in Roles /\ e.was \in Known /\ e.new \in Known
  BY <1>0, EventFields
<1>2. found \in Known /\ NotFound \in Known
  BY <1>0, <1>1, StoreLookup DEF Known
<1>3. ShouldLog \in BOOLEAN
  BY RoleLogAssumption
<1>4. e.step = "begun"
  BY DEF LogCreate, LogUpdate, LogDelete
<1>5. e.role \in Current => found = e.was
  BY <1>0, <1>4 DEF HandlersFollow
<1>6. e.was = NotFound <=> e.kind = "create"
  BY <1>0 DEF EventsFit
<1>7. UNCHANGED <<discord, snapshots, store, overlapped, missed>>
  BY DEF LogCreate, LogUpdate, LogDelete
<1>8. CASE LogCreate(i)
  <2>1. e.kind = "create" /\ Handle(i, "saving", NotFound, ShouldLog)
    BY <1>8 DEF LogCreate
  <2> HIDE DEF found
  <2> QED
    BY <1>2, <1>3, <1>4, <1>7, <2>1, HandlerKeeps
<1>9. CASE LogUpdate(i)
  <2> DEFINE shows == ShouldLog /\ Shown[found] # Shown[e.new]
  <2>1. e.kind = "update"
    BY <1>9 DEF LogUpdate
  <2>2. CASE found = NotFound
    <3>1. Handle(i, "done", found, FALSE)
      BY <1>9, <2>2 DEF LogUpdate
    <3>2. e.role \notin Current
      BY <1>5, <1>6, <2>1, <2>2
    <3> HIDE DEF found
    <3> QED
      BY <1>2, <1>4, <1>7, <3>1, <3>2, HandlerKeeps
  <2>3. CASE found # NotFound
    <3>1. Handle(i, "saving", found, shows)
      BY <1>9, <2>3 DEF LogUpdate
    <3>2. shows \in BOOLEAN
      BY <1>3
    <3>3. e.role \in Current /\ ShouldLog =>
             (shows <=> e.kind # "update" \/ Shown[e.was] # Shown[e.new])
      BY <1>5, <2>1
    <3> HIDE DEF found, shows
    <3> QED
      BY <1>2, <1>4, <1>5, <1>7, <2>3, <3>1, <3>2, <3>3, HandlerKeeps
  <2> QED
    BY <2>2, <2>3
<1>10. CASE LogDelete(i)
  <2>1. e.kind = "delete"
    BY <1>10 DEF LogDelete
  <2>2. CASE found = NotFound
    <3>1. Handle(i, "done", found, FALSE)
      BY <1>10, <2>2 DEF LogDelete
    <3>2. e.role \notin Current
      BY <1>5, <1>6, <2>1, <2>2
    <3> HIDE DEF found
    <3> QED
      BY <1>2, <1>4, <1>7, <3>1, <3>2, HandlerKeeps
  <2>3. CASE found # NotFound
    <3>1. Handle(i, "saving", found, ShouldLog)
      BY <1>10, <2>3 DEF LogDelete
    <3> HIDE DEF found
    <3> QED
      BY <1>2, <1>3, <1>4, <1>5, <1>7, <2>1, <2>3, <3>1, HandlerKeeps
  <2> QED
    BY <2>2, <2>3
<1> QED
  BY <1>8, <1>9, <1>10

\* The deferred call leaves the role as the event brought it, which is as it is
\* on Discord, for no other handler of it has begun since.
LEMMA SaveKeeps ==
    ASSUME IInv, NEW i \in DOMAIN events, Save(i)
    PROVE  IInv'
<1> DEFINE e == events[i]
<1>0. TypeOK /\ EventsFit /\ HandlersFollow /\ SnapshotsFollow /\ StoreFollows /\ StoredAreListed /\ LogsFollow
  BY DEF IInv
<1>1. /\ real' = real /\ deleted' = deleted /\ online' = online /\ gaps' = gaps
      /\ snapshots' = snapshots /\ overlapped' = overlapped /\ missed' = missed
  BY DEF Save, discord
<1>2. /\ e \in Event /\ e.role \in Roles /\ e.new \in Known /\ e.old \in Known /\ e.logged \in BOOLEAN
      /\ e.step = "saving"
  BY <1>0, EventFields DEF Save
<1>3. /\ events' \in Seq(Event) /\ Len(events') = Len(events)
      /\ DOMAIN events' = DOMAIN events
      /\ \A j \in DOMAIN events : j # i => events'[j] = events[j]
      /\ \A j \in DOMAIN events :
            /\ events'[j].kind = events[j].kind
            /\ events'[j].role = events[j].role
            /\ events'[j].was = events[j].was
            /\ events'[j].new = events[j].new
            /\ events'[j].old = events[j].old
            /\ events'[j].logged = events[j].logged
      /\ events'[i].step = "done"
  <2> DEFINE f == [e EXCEPT !.step = "done"]
  <2>1. events' = [events EXCEPT ![i] = f]
    BY DEF Save
  <2>2. /\ f \in Event /\ f.step = "done"
        /\ f.kind = e.kind /\ f.role = e.role /\ f.was = e.was /\ f.new = e.new
        /\ f.old = e.old /\ f.logged = e.logged
    BY <1>2 DEF Event
  <2> HIDE DEF f
  <2>3. events \in Seq(Event)
    BY <1>0 DEF TypeOK
  <2>4. /\ events' \in Seq(Event) /\ Len(events') = Len(events)
        /\ DOMAIN events' = DOMAIN events
        /\ \A j \in DOMAIN events : j # i => events'[j] = events[j]
        /\ events'[i] = f
    BY <2>1, <2>2, <2>3
  <2> QED
    BY <2>2, <2>4
<1>4. /\ store' \in Store!MemoryStores
      /\ \A q \in Roles : Store!Lookup(store', q) = IF q = e.role THEN e.new ELSE Store!Lookup(store, q)
      /\ Listed(store) => Listed(store')
  <2>1. store \in Store!MemoryStores
    BY <1>0 DEF TypeOK
  <2>2. e.new = NotFound <=> e.kind = "delete"
    BY <1>0 DEF EventsFit
  <2>3. CASE e.kind = "delete"
    <3>1. store' = Store!RemoveOne(store, e.role) /\ e.new = NotFound
      BY <2>2, <2>3 DEF Save
    <3> QED
      BY <1>2, <2>1, <3>1, RemoveOneFacts
  <2>4. CASE e.kind # "delete"
    <3>1. store' = Store!SetOne(store, e.role, e.new) /\ e.new \in Role
      BY <1>2, <2>2, <2>4 DEF Save, Known
    <3> QED
      BY <1>2, <2>1, <3>1, SetOneFacts
  <2> QED
    BY <2>3, <2>4
<1>5. Current' = Current /\ \A r \in Current : r \in Roles
  BY <1>1 DEF Current
<1>6. TypeOK'
  <2>1. \A j \in DOMAIN events' :
           events'[j].step = "saving" /\ events'[j].kind # "create" => events'[j].old # NotFound
    BY <1>0, <1>3 DEF TypeOK
  <2> QED
    BY <1>0, <1>1, <1>3, <1>4, <2>1 DEF TypeOK
<1>7. EventsFit' /\ StoredAreListed'
  BY <1>0, <1>3, <1>4 DEF EventsFit, StoredAreListed, Listed
<1>8. e.role \in Current =>
         /\ snapshots = {}
         /\ \A j \in DOMAIN events : events[j].role = e.role /\ events[j].step # "done" => j = i
         /\ online => real[e.role] = e.new
         /\ real[e.role] = NotFound => e.new = NotFound
  BY <1>0, <1>2 DEF HandlersFollow
<1>9. HandlersFollow'
  <2> SUFFICES ASSUME NEW j \in DOMAIN events', events'[j].step # "done", events'[j].role \in Current'
               PROVE  /\ snapshots' = {}
                      /\ \A k \in DOMAIN events' :
                            events'[k].role = events'[j].role /\ events'[k].step # "done" => k = j
                      /\ Store!Lookup(store', events'[j].role) = events'[j].was
                      /\ online' => real'[events'[j].role] = events'[j].new
                      /\ real'[events'[j].role] = NotFound => events'[j].new = NotFound
    BY DEF HandlersFollow
  <2>1. j \in DOMAIN events /\ j # i /\ events'[j] = events[j] /\ events[j].role \in Current
    BY <1>3, <1>5
  <2>2. /\ snapshots = {}
        /\ \A k \in DOMAIN events : events[k].role = events[j].role /\ events[k].step # "done" => k = j
        /\ Store!Lookup(store, events[j].role) = events[j].was
        /\ online => real[events[j].role] = events[j].new
        /\ real[events[j].role] = NotFound => events[j].new = NotFound
    BY <1>0, <2>1 DEF HandlersFollow
  <2>3. events[j].role # e.role
    BY <1>2, <2>1, <2>2
  <2>4. \A k \in DOMAIN events' : events'[k].role = events[j].role /\ events'[k].step # "done" => k = j
    BY <1>3, <2>2
  <2> QED
    BY <1>1, <1>4, <1>5, <2>1, <2>2, <2>3, <2>4
<1>10. SnapshotsFollow'
  <2>1. \A s \in snapshots, r \in Current : r # e.role
    BY <1>8
  <2> QED
    BY <1>0, <1>1, <1>4, <1>5, <2>1 DEF SnapshotsFollow
<1>11. StoreFollows'
  <2> SUFFICES ASSUME NEW r \in Current', ~Busy(r)'
               PROVE  /\ online' => Store!Lookup(store', r) = real'[r]
                      /\ real'[r] = NotFound => Store!Lookup(store', r) = NotFound
    BY DEF StoreFollows
  <2>1. CASE r = e.role
    BY <1>1, <1>4, <1>5, <1>8, <2>1
  <2>2. CASE r # e.role
    <3>1. ~Busy(r)
      BY <1>1, <1>3, <2>2 DEF Busy
    <3> QED
      BY <1>0, <1>1, <1>4, <1>5, <2>2, <3>1 DEF StoreFollows
  <2> QED
    BY <2>1, <2>2
<1>12. LogsFollow'
  <2>1. \A j \in DOMAIN events : events'[j].step # "begun" => events[j].step # "begun"
    BY <1>2, <1>3
  <2> QED
    BY <1>0, <1>3, <1>5, <2>1 DEF LogsFollow
<1> QED
  BY <1>6, <1>7, <1>9, <1>10, <1>11, <1>12 DEF IInv

-----------------------------------------------------------------------------
LEMMA StepKeepsInvariant == IInv /\ [Next]_vars => IInv'
<1> SUFFICES ASSUME IInv, [Next]_vars PROVE IInv'
  OBVIOUS
<1>0. TypeOK
  BY DEF IInv
<1>1. ASSUME NEW r \in Roles, RoleCreated(r) PROVE IInv'
  <2>1. PICK role \in Role : Change("create", r, role)
    BY <1>1 DEF RoleCreated
  <2>2. role \in Known /\ role # NotFound /\ real[r] = NotFound /\ deleted' = deleted /\ missed' = missed
    BY <1>1, RoleLogAssumption DEF RoleCreated, Known
  <2> QED
    BY <1>0, <2>1, <2>2, ChangeKeeps DEF TypeOK
<1>2. ASSUME NEW r \in Roles, RoleUpdated(r) PROVE IInv'
  <2>1. PICK role \in Role \ {real[r]} : Change("update", r, role)
    BY <1>2 DEF RoleUpdated
  <2>2. role \in Known /\ role # NotFound /\ real[r] # NotFound /\ deleted' = deleted /\ missed' = missed
    BY <1>2, RoleLogAssumption DEF RoleUpdated, Known
  <2> QED
    BY <1>0, <2>1, <2>2, ChangeKeeps DEF TypeOK
<1>3. ASSUME NEW r \in Roles, RoleDeleted(r) PROVE IInv'
  <2>1. /\ Change("delete", r, NotFound)
        /\ NotFound \in Known /\ real[r] # NotFound
        /\ deleted' = deleted \cup {r} /\ missed' = IF online THEN missed ELSE missed \cup {r}
    BY <1>3 DEF RoleDeleted, Known
  <2>2. deleted' \in SUBSET Roles /\ missed' \in SUBSET Roles /\ missed \subseteq missed' /\ (~online => r \in missed')
    BY <1>0, <2>1 DEF TypeOK
  <2> QED
    BY <2>1, <2>2, ChangeKeeps
<1>4. CASE Disconnect \/ Reconnect
  BY <1>4, ConnectionKeeps
<1>5. ASSUME NEW s \in snapshots, StoreSnapshot(s) PROVE IInv'
  BY <1>5, SnapshotKeeps
<1>6. ASSUME NEW i \in DOMAIN events, LogCreate(i) \/ LogUpdate(i) \/ LogDelete(i) PROVE IInv'
  BY <1>6, LogKeeps
<1>7. ASSUME NEW i \in DOMAIN events, Save(i) PROVE IInv'
  BY <1>7, SaveKeeps
<1>8. CASE UNCHANGED vars
  <2>1. /\ real' = real /\ deleted' = deleted /\ online' = online /\ gaps' = gaps /\ events' = events
        /\ snapshots' = snapshots /\ store' = store /\ overlapped' = overlapped /\ missed' = missed
    BY <1>8 DEF vars, discord
  <2> QED
    BY <2>1 DEF IInv, TypeOK, EventsFit, HandlersFollow, SnapshotsFollow, StoreFollows,
                StoredAreListed, LogsFollow, Current, Busy
<1> QED
  BY <1>1, <1>2, <1>3, <1>4, <1>5, <1>6, <1>7, <1>8 DEF Next

\* IInv holds in every reachable state, for any number of roles and events.
THEOREM Invariance == Spec => []IInv
<1>1. Init => IInv
  BY InitInvariant
<1>2. IInv /\ [Next]_vars => IInv'
  BY StepKeepsInvariant
<1> QED
  BY <1>1, <1>2, PTL DEF Spec

\* As soon as the handlers of a role that never overlapped are done, and unless it
\* was deleted unheard, the store (role.go, SetRole and RemoveRole) holds it as
\* it is on Discord; and the list the store is emptied through misses no role.
THEOREM FollowsDiscord == Spec => []StoreFollowsDiscord
<1>1. IInv => StoreFollowsDiscord
  BY DEF IInv, StoreFollows, StoreFollowsDiscord, Current
<1> QED
  BY <1>1, Invariance, PTL

\* A creation, a deletion and a visible change of such a role are logged with the
\* role as it was (role_create.go, role_update.go, role_delete.go), and a change
\* of its position alone is not.
THEOREM LogsMatch == Spec => []LogsMatchChanges
<1>1. IInv => LogsMatchChanges
  <2> SUFFICES ASSUME IInv, NEW i \in DOMAIN events, ShouldLog, events[i].step = "done",
                      events[i].role \notin overlapped \cup missed
               PROVE  /\ events[i].logged <=> events[i].kind # "update" \/ Shown[events[i].was] # Shown[events[i].new]
                      /\ events[i].kind # "create" => events[i].old = events[i].was
    BY DEF LogsMatchChanges
  <2>1. TypeOK /\ LogsFollow
    BY DEF IInv
  <2>2. events[i].role \in Current
    BY <2>1, EventFields DEF Current
  <2> QED
    BY <2>1, <2>2 DEF LogsFollow
<1> QED
  BY <1>1, Invariance, PTL

-----------------------------------------------------------------------------
\* An age is cut into units one after the other: Cut(part, u) takes the unit u of what
\* part has left, and Parts(d, s, g, n) if g has what the units of s at the subsets of 1..n
\* make of the duration d, as SequencesExt folds it.
Whole(d) == [left |-> d, shown |-> [u \in Units |-> 0]]

Cut(part, u) ==
    [left  |-> part.left % Length[u],
     shown |-> [part.shown EXCEPT ![u] = part.left \div Length[u]]]

Parts(d, s, g, n) ==
    g = [t \in SUBSET (1..n) |-> IF t = {} THEN Whole(d) ELSE Cut(g[t \ {Max(t)}], s[Max(t)])]

LEMMA PartsExist ==
    ASSUME NEW d, NEW s, NEW n \in Nat
    PROVE  \E g : Parts(d, s, g, n)
<1> DEFINE T == {k \in Nat : \E g : Parts(d, s, g, k)}
<1>1. 0 \in T
  <2>1. Parts(d, s, [t \in SUBSET (1..0) |-> Whole(d)], 0)
    <3>1. \A t \in SUBSET (1..0) : t = {}
      OBVIOUS
    <3> QED
      BY <3>1 DEF Parts
  <2> QED
    BY <2>1
<1>2. ASSUME NEW k \in T PROVE k + 1 \in T
  <2>0. k \in Nat /\ k + 1 \in Nat
    OBVIOUS
  <2>1. PICK g : Parts(d, s, g, k)
    OBVIOUS
  <2> DEFINE h == [t \in SUBSET (1..(k+1)) |->
                      IF t = {} THEN Whole(d) ELSE Cut(g[t \ {Max(t)}], s[Max(t)])]
  <2>2. ASSUME NEW t \in SUBSET (1..k) PROVE h[t] = g[t]
    <3>1. t \in SUBSET (1..(k+1))
      OBVIOUS
    <3> QED
      BY <2>1, <3>1 DEF Parts
  <2>3. ASSUME NEW t \in SUBSET (1..(k+1)), t # {} PROVE h[t \ {Max(t)}] = g[t \ {Max(t)}]
    <3>1. Max(t) \in t /\ \A x \in t : x <= Max(t)
      BY <2>0, <2>3, MaxFacts
    <3>2. ASSUME NEW x \in t, x # Max(t) PROVE x \in 1..k
      <4>1. x \in 1..(k+1) /\ Max(t) \in 1..(k+1) /\ x <= Max(t)
        BY <3>1
      <4> QED
        BY <2>0, <3>2, <4>1
    <3>3. t \ {Max(t)} \in SUBSET (1..k)
      BY <3>2
    <3> QED
      BY <2>2, <3>3
  <2>4. Parts(d, s, h, k + 1)
    BY <2>3 DEF Parts
  <2> QED
    BY <2>0, <2>4
<1> HIDE DEF T
<1>3. T = Nat
  <2>1. T \in SUBSET Nat
    BY DEF T
  <2> QED
    BY <1>1, <1>2, <2>1, Induction
<1> QED
  BY <1>3 DEF T

LEMMA PartStep ==
    ASSUME NEW n \in Nat, NEW d, NEW s, NEW g, Parts(d, s, g, n), NEW k \in 1..n
    PROVE  g[1..k] = Cut(g[1..(k-1)], s[k])
<1>1. /\ k \in Nat /\ k - 1 \in Nat /\ k <= n
      /\ 1..k \in SUBSET (1..n) /\ 1..k # {} /\ k \in 1..k /\ (1..k) \ {k} = 1..(k-1)
  OBVIOUS
<1>2. Max(1..k) = k
  <2>1. Max(1..k) \in 1..k /\ \A x \in 1..k : x <= Max(1..k)
    BY <1>1, MaxFacts
  <2> QED
    BY <1>1, <2>1
<1>3. g[1..k] = Cut(g[(1..k) \ {Max(1..k)}], s[Max(1..k)])
  <2> DEFINE t == 1..k
  <2>1. t \in SUBSET (1..n) /\ t # {}
    BY <1>1
  <2> HIDE DEF t
  <2>2. g[t] = Cut(g[t \ {Max(t)}], s[Max(t)])
    BY <2>1 DEF Parts
  <2> QED
    BY <2>2 DEF t
<1> QED
  BY <1>1, <1>2, <1>3, Zenon

LEMMA SplitIsParts ==
    ASSUME NEW d, NEW s, NEW n \in Nat, DOMAIN s = 1..n
    PROVE  \E g : Parts(d, s, g, n) /\ Split(d, s) = g[1..n] /\ g[1..0] = Whole(d)
<1>1. Split(d, s) = (CHOOSE g : Parts(d, s, g, n))[1..n]
  BY DEF Split, FoldLeft, MapThenFoldSet, Parts, Cut, Whole
<1>2. \E g : Parts(d, s, g, n)
  BY PartsExist
<1>3. Parts(d, s, CHOOSE g : Parts(d, s, g, n), n)
  BY <1>2
<1>4. ASSUME NEW g, Parts(d, s, g, n) PROVE g[1..0] = Whole(d)
  <2>1. 1..0 = {} /\ {} \in SUBSET (1..n)
    OBVIOUS
  <2> QED
    BY <1>4, <2>1 DEF Parts
<1> QED
  BY <1>1, <1>3, <1>4

\* The lists of units have three or four.
LEMMA SplitThree ==
    ASSUME NEW d, NEW u1, NEW u2, NEW u3
    PROVE  Split(d, <<u1, u2, u3>>) = Cut(Cut(Cut(Whole(d), u1), u2), u3)
<1> DEFINE s == <<u1, u2, u3>>
<1>1. DOMAIN s = 1..3 /\ s[1] = u1 /\ s[2] = u2 /\ s[3] = u3
  OBVIOUS
<1> HIDE DEF s
<1>2. PICK g : Parts(d, s, g, 3) /\ Split(d, s) = g[1..3] /\ g[1..0] = Whole(d)
  BY <1>1, SplitIsParts
<1>3. ASSUME NEW k \in 1..3 PROVE g[1..k] = Cut(g[1..(k-1)], s[k])
  BY <1>2, PartStep
<1>4. /\ g[1..1] = Cut(g[1..0], s[1])
      /\ g[1..2] = Cut(g[1..1], s[2])
      /\ g[1..3] = Cut(g[1..2], s[3])
  <2>1. 1 - 1 = 0 /\ 2 - 1 = 1 /\ 3 - 1 = 2 /\ 1 \in 1..3 /\ 2 \in 1..3 /\ 3 \in 1..3
    OBVIOUS
  <2> QED
    BY <1>3, <2>1
<1>5. Split(d, s) = Cut(Cut(Cut(Whole(d), u1), u2), u3)
  BY <1>1, <1>2, <1>4, Zenon
<1> QED
  BY <1>5 DEF s

LEMMA SplitFour ==
    ASSUME NEW d, NEW u1, NEW u2, NEW u3, NEW u4
    PROVE  Split(d, <<u1, u2, u3, u4>>) = Cut(Cut(Cut(Cut(Whole(d), u1), u2), u3), u4)
<1> DEFINE s == <<u1, u2, u3, u4>>
<1>1. DOMAIN s = 1..4 /\ s[1] = u1 /\ s[2] = u2 /\ s[3] = u3 /\ s[4] = u4
  OBVIOUS
<1> HIDE DEF s
<1>2. PICK g : Parts(d, s, g, 4) /\ Split(d, s) = g[1..4] /\ g[1..0] = Whole(d)
  BY <1>1, SplitIsParts
<1>3. ASSUME NEW k \in 1..4 PROVE g[1..k] = Cut(g[1..(k-1)], s[k])
  BY <1>2, PartStep
<1>4. /\ g[1..1] = Cut(g[1..0], s[1])
      /\ g[1..2] = Cut(g[1..1], s[2])
      /\ g[1..3] = Cut(g[1..2], s[3])
      /\ g[1..4] = Cut(g[1..3], s[4])
  <2>1. /\ 1 - 1 = 0 /\ 2 - 1 = 1 /\ 3 - 1 = 2 /\ 4 - 1 = 3
        /\ 1 \in 1..4 /\ 2 \in 1..4 /\ 3 \in 1..4 /\ 4 \in 1..4
    OBVIOUS
  <2> QED
    BY <1>3, <2>1
<1>5. Split(d, s) = Cut(Cut(Cut(Cut(Whole(d), u1), u2), u3), u4)
  BY <1>1, <1>2, <1>4, Zenon
<1> QED
  BY <1>5 DEF s
-----------------------------------------------------------------------------
LEMMA DivisionFacts ==
    ASSUME NEW a \in Nat, NEW n \in Nat, n > 0
    PROVE  /\ a \div n \in Nat /\ (a % n) \in Nat /\ (a % n) < n
           /\ ((a \div n) * n) + (a % n) = a
<1>1. a \div n \in Int /\ (a % n) \in 0..(n - 1)
  OBVIOUS
<1>2. ((a \div n) * n) + (a % n) = a
  BY Z3
<1>3. a \div n >= 0
  BY Z3
<1> QED
  BY <1>1, <1>2, <1>3

UnitParts == [left : Nat, shown : [Units -> Nat]]

LEMMA LengthFacts ==
    /\ Length["second"] = 2 /\ Length["minute"] = 120 /\ Length["hour"] = 7200
    /\ Length["day"] = 172800 /\ Length["month"] = 5184000 /\ Length["year"] = 63072000
    /\ Second = 2 /\ Minute = 120 /\ Hour = 7200 /\ Month = 5184000 /\ Year = 63072000
BY DEF Length, Second, Minute, Hour, Day, Month, Year

LEMMA LengthType ==
    ASSUME NEW u \in Units
    PROVE  Length[u] \in Nat /\ Length[u] > 0
BY LengthFacts DEF Units

LEMMA WholeFacts ==
    ASSUME NEW d \in Nat
    PROVE  Whole(d) \in UnitParts /\ Whole(d).left = d /\ \A u \in Units : Whole(d).shown[u] = 0
BY DEF Whole, UnitParts

\* A cut takes as much of a unit as there is, and forgets nothing.
LEMMA CutFacts ==
    ASSUME NEW p \in UnitParts, NEW u \in Units
    PROVE  /\ Cut(p, u) \in UnitParts
           /\ Cut(p, u).left < Length[u]
           /\ (Cut(p, u).shown[u] * Length[u]) + Cut(p, u).left = p.left
           /\ \A v \in Units : v # u => Cut(p, u).shown[v] = p.shown[v]
<1> DEFINE a == p.left
           n == Length[u]
<1>1. a \in Nat /\ p.shown \in [Units -> Nat]
  BY DEF UnitParts
<1>2. n \in Nat /\ n > 0
  BY LengthType
<1>3. Cut(p, u) = [left |-> a % n, shown |-> [p.shown EXCEPT ![u] = a \div n]]
  BY DEF Cut
<1> HIDE DEF a, n
<1>4. /\ a \div n \in Nat /\ (a % n) \in Nat /\ (a % n) < n
      /\ ((a \div n) * n) + (a % n) = a
  BY <1>1, <1>2, DivisionFacts
<1> DEFINE q == a \div n
           r == a % n
<1> HIDE DEF q, r
<1>5. Cut(p, u) = [left |-> r, shown |-> [p.shown EXCEPT ![u] = q]]
  BY <1>3 DEF q, r
<1>6. q \in Nat /\ r \in Nat /\ r < n /\ (q * n) + r = a
  BY <1>4 DEF q, r
<1>7. /\ [p.shown EXCEPT ![u] = q] \in [Units -> Nat]
      /\ [p.shown EXCEPT ![u] = q][u] = q
      /\ \A v \in Units : v # u => [p.shown EXCEPT ![u] = q][v] = p.shown[v]
  BY <1>1, <1>6
<1> QED
  BY <1>5, <1>6, <1>7 DEF UnitParts, a, n
-----------------------------------------------------------------------------
\* A duration and how it is shown, in each of the three formats: the units carry, and what
\* they amount to is the duration up to the last of them.
LEMMA ShortAges ==
    ASSUME NEW d \in Nat, d < Month
    PROVE  /\ Format(d) \in [Units -> Nat]
           /\ Format(d)["year"] = 0 /\ Format(d)["month"] = 0 /\ Format(d)["day"] < 30
           /\ Format(d)["hour"] < 24 /\ Format(d)["minute"] < 60 /\ Format(d)["second"] <= 60
           /\ Value(Format(d)) \in Nat /\ d <= Value(Format(d)) /\ Value(Format(d)) <= d + 1
<1> DEFINE p1 == Cut(Whole(d), "day")
           p2 == Cut(p1, "hour")
           p3 == Cut(p2, "minute")
           s  == (p3.left + 1) \div Second
           f  == [p3.shown EXCEPT !["second"] = s]
<1>0. "day" \in Units /\ "hour" \in Units /\ "minute" \in Units /\ "second" \in Units
  BY DEF Units
<1>1. Format(d) = f
  <2>1. Split(d, <<"day", "hour", "minute">>) = p3
    BY SplitThree
  <2> HIDE DEF p3
  <2> QED
    BY <2>1 DEF Format, formatWithoutMonth
<1>2. Whole(d) \in UnitParts /\ Whole(d).left = d /\ \A u \in Units : Whole(d).shown[u] = 0
  BY WholeFacts
<1>3. /\ p1 \in UnitParts /\ (p1.shown["day"] * Length["day"]) + p1.left = d /\ p1.left < Length["day"]
      /\ \A v \in Units : v # "day" => p1.shown[v] = 0
  BY <1>0, <1>2, CutFacts
<1> HIDE DEF p1
<1>4. /\ p2 \in UnitParts /\ (p2.shown["hour"] * Length["hour"]) + p2.left = p1.left /\ p2.left < Length["hour"]
      /\ \A v \in Units : v # "hour" => p2.shown[v] = p1.shown[v]
  BY <1>0, <1>3, CutFacts
<1> HIDE DEF p2
<1>5. /\ p3 \in UnitParts /\ (p3.shown["minute"] * Length["minute"]) + p3.left = p2.left
      /\ p3.left < Length["minute"]
      /\ \A v \in Units : v # "minute" => p3.shown[v] = p2.shown[v]
  BY <1>0, <1>4, CutFacts
<1> HIDE DEF p3
<1>6. p1.left \in Nat /\ p2.left \in Nat /\ p3.left \in Nat /\ p3.shown \in [Units -> Nat]
  BY <1>3, <1>4, <1>5 DEF UnitParts
<1>7. s \in Nat /\ p3.left <= 2 * s /\ 2 * s <= p3.left + 1
  <2> DEFINE a == p3.left + 1
             r == a % 2
  <2>1. a \in Nat /\ 2 \in Nat /\ 2 > 0
    BY <1>6
  <2> HIDE DEF a
  <2>2. a \div 2 \in Nat /\ r \in Nat /\ r < 2 /\ ((a \div 2) * 2) + r = a
    BY <2>1, DivisionFacts
  <2>3. s = a \div 2
    BY LengthFacts DEF a
  <2> HIDE DEF r, s
  <2> QED
    BY <1>6, <2>2, <2>3 DEF a
<1> HIDE DEF s
<1>8. f \in [Units -> Nat] /\ f["second"] = s /\ \A v \in Units : v # "second" => f[v] = p3.shown[v]
  BY <1>0, <1>6, <1>7
<1> HIDE DEF f
<1>9. /\ f["day"] = p1.shown["day"] /\ f["hour"] = p2.shown["hour"] /\ f["minute"] = p3.shown["minute"]
      /\ f["year"] = 0 /\ f["month"] = 0
  BY <1>3, <1>4, <1>5, <1>8 DEF Units
<1> DEFINE day == f["day"]  hour == f["hour"]  minute == f["minute"]
           a1 == p1.left  a2 == p2.left  a3 == p3.left
<1>10. /\ day \in Nat /\ hour \in Nat /\ minute \in Nat /\ s \in Nat /\ a1 \in Nat /\ a2 \in Nat /\ a3 \in Nat
       /\ (day * 172800) + a1 = d /\ (hour * 7200) + a2 = a1 /\ a2 < 7200 /\ a1 < 172800
       /\ (minute * 120) + a3 = a2 /\ a3 < 120 /\ a3 <= 2 * s /\ 2 * s <= a3 + 1 /\ d < 5184000
  BY <1>0, <1>3, <1>4, <1>5, <1>6, <1>7, <1>8, <1>9, LengthFacts
<1>11. Value(f) = (day * 172800) + (hour * 7200) + (minute * 120) + (s * 2)
  <2>1. Value(f) = 0 * Year + 0 * Month + day * Day + hour * Hour + minute * Minute + s * Second
    BY <1>8, <1>9 DEF Value
  <2> QED
    BY <1>10, <2>1, LengthFacts DEF Day
<1> HIDE DEF day, hour, minute, a1, a2, a3
<1>12. /\ day < 30 /\ hour < 24 /\ minute < 60 /\ s <= 60
       /\ Value(f) \in Nat /\ d <= Value(f) /\ Value(f) <= d + 1
  BY <1>10, <1>11
<1> QED
  BY <1>1, <1>8, <1>9, <1>12 DEF day, hour, minute
LEMMA MiddleAges ==
    ASSUME NEW d \in Nat, Month <= d, d < Year
    PROVE  /\ Format(d) \in [Units -> Nat]
           /\ Format(d)["year"] = 0 /\ Format(d)["month"] <= 12 /\ Format(d)["day"] < 30
           /\ Format(d)["hour"] < 24 /\ Format(d)["minute"] < 60 /\ Format(d)["second"] = 0
           /\ \E n \in Nat : Value(Format(d)) = 120 * n /\ 120 * n <= d /\ d < 120 * n + 120
<1> DEFINE p1 == Cut(Whole(d), "month")
           p2 == Cut(p1, "day")
           p3 == Cut(p2, "hour")
           p4 == Cut(p3, "minute")
           f  == p4.shown
<1>0. /\ "year" \in Units /\ "month" \in Units /\ "day" \in Units
      /\ "hour" \in Units /\ "minute" \in Units /\ "second" \in Units
  BY DEF Units
<1>1. Format(d) = f
  <2>1. Split(d, <<"month", "day", "hour", "minute">>) = p4
    BY SplitFour
  <2>2. d \in Nat /\ Month < Year
    BY LengthFacts
  <2> HIDE DEF p4
  <2> QED
    BY <2>1, <2>2, LengthFacts DEF Format, formatWithoutYear
<1>2. Whole(d) \in UnitParts /\ Whole(d).left = d /\ \A u \in Units : Whole(d).shown[u] = 0
  BY WholeFacts
<1>3. /\ p1 \in UnitParts /\ (p1.shown["month"] * Length["month"]) + p1.left = d
      /\ p1.left < Length["month"]
      /\ \A v \in Units : v # "month" => p1.shown[v] = 0
  BY <1>0, <1>2, CutFacts
<1> HIDE DEF p1
<1>4. /\ p2 \in UnitParts /\ (p2.shown["day"] * Length["day"]) + p2.left = p1.left
      /\ p2.left < Length["day"]
      /\ \A v \in Units : v # "day" => p2.shown[v] = p1.shown[v]
  BY <1>0, <1>3, CutFacts
<1> HIDE DEF p2
<1>5. /\ p3 \in UnitParts /\ (p3.shown["hour"] * Length["hour"]) + p3.left = p2.left
      /\ p3.left < Length["hour"]
      /\ \A v \in Units : v # "hour" => p3.shown[v] = p2.shown[v]
  BY <1>0, <1>4, CutFacts
<1> HIDE DEF p3
<1>6. /\ p4 \in UnitParts /\ (p4.shown["minute"] * Length["minute"]) + p4.left = p3.left
      /\ p4.left < Length["minute"]
      /\ \A v \in Units : v # "minute" => p4.shown[v] = p3.shown[v]
  BY <1>0, <1>5, CutFacts
<1> HIDE DEF p4
<1>7. /\ p1.left \in Nat /\ p2.left \in Nat /\ p3.left \in Nat /\ p4.left \in Nat
      /\ f \in [Units -> Nat]
  BY <1>3, <1>4, <1>5, <1>6 DEF UnitParts
<1>8. /\ f["month"] = p1.shown["month"] /\ f["day"] = p2.shown["day"] /\ f["hour"] = p3.shown["hour"]
      /\ f["year"] = 0 /\ f["second"] = 0
  BY <1>3, <1>4, <1>5, <1>6 DEF Units
<1> DEFINE month == f["month"]  day == f["day"]  hour == f["hour"]  minute == f["minute"]
           a1 == p1.left  a2 == p2.left  a3 == p3.left  a4 == p4.left
<1>9. /\ month \in Nat /\ day \in Nat /\ hour \in Nat /\ minute \in Nat
      /\ a1 \in Nat /\ a2 \in Nat /\ a3 \in Nat /\ a4 \in Nat
      /\ (month * 5184000) + a1 = d /\ a1 < 5184000
      /\ (day * 172800) + a2 = a1 /\ a2 < 172800
      /\ (hour * 7200) + a3 = a2 /\ a3 < 7200
      /\ (minute * 120) + a4 = a3 /\ a4 < 120
  BY <1>0, <1>3, <1>4, <1>5, <1>6, <1>7, <1>8, LengthFacts
<1>10. Value(f) = (month * 5184000) + (day * 172800) + (hour * 7200) + (minute * 120)
  <2>1. Value(f) = 0 * Year + month * Month + day * Day + hour * Hour + minute * Minute + 0 * Second
    BY <1>8 DEF Value
  <2> QED
    BY <1>9, <2>1, LengthFacts DEF Day
<1>11. d < 63072000
  BY LengthFacts
<1> HIDE DEF f, month, day, hour, minute, a1, a2, a3, a4
<1>12. day < 30 /\ hour < 24 /\ minute < 60 /\ month <= 12
  BY <1>9, <1>11
<1> DEFINE n == (month * 43200) + (day * 1440) + (hour * 60) + minute
<1>13. n \in Nat /\ Value(f) = 120 * n /\ 120 * n <= d /\ d < 120 * n + 120
  BY <1>9, <1>10
<1> HIDE DEF n
<1> QED
  BY <1>1, <1>7, <1>8, <1>12, <1>13 DEF month, day, hour, minute

LEMMA LongAges ==
    ASSUME NEW d \in Nat, Year <= d
    PROVE  /\ Format(d) \in [Units -> Nat]
           /\ Format(d)["month"] <= 12 /\ Format(d)["day"] < 30 /\ Format(d)["hour"] < 24
           /\ Format(d)["minute"] = 0 /\ Format(d)["second"] = 0
           /\ \E n \in Nat : Value(Format(d)) = 7200 * n /\ 7200 * n <= d /\ d < 7200 * n + 7200
<1> DEFINE p1 == Cut(Whole(d), "year")
           p2 == Cut(p1, "month")
           p3 == Cut(p2, "day")
           p4 == Cut(p3, "hour")
           f  == p4.shown
<1>0. /\ "year" \in Units /\ "month" \in Units /\ "day" \in Units
      /\ "hour" \in Units /\ "minute" \in Units /\ "second" \in Units
  BY DEF Units
<1>1. Format(d) = f
  <2>1. Split(d, <<"year", "month", "day", "hour">>) = p4
    BY SplitFour
  <2>2. d \in Nat /\ Month < Year
    BY LengthFacts
  <2> HIDE DEF p4
  <2> QED
    BY <2>1, <2>2, LengthFacts DEF Format, formatWithoutYear
<1>2. Whole(d) \in UnitParts /\ Whole(d).left = d /\ \A u \in Units : Whole(d).shown[u] = 0
  BY WholeFacts
<1>3. /\ p1 \in UnitParts /\ (p1.shown["year"] * Length["year"]) + p1.left = d
      /\ p1.left < Length["year"]
      /\ \A v \in Units : v # "year" => p1.shown[v] = 0
  BY <1>0, <1>2, CutFacts
<1> HIDE DEF p1
<1>4. /\ p2 \in UnitParts /\ (p2.shown["month"] * Length["month"]) + p2.left = p1.left
      /\ p2.left < Length["month"]
      /\ \A v \in Units : v # "month" => p2.shown[v] = p1.shown[v]
  BY <1>0, <1>3, CutFacts
<1> HIDE DEF p2
<1>5. /\ p3 \in UnitParts /\ (p3.shown["day"] * Length["day"]) + p3.left = p2.left
      /\ p3.left < Length["day"]
      /\ \A v \in Units : v # "day" => p3.shown[v] = p2.shown[v]
  BY <1>0, <1>4, CutFacts
<1> HIDE DEF p3
<1>6. /\ p4 \in UnitParts /\ (p4.shown["hour"] * Length["hour"]) + p4.left = p3.left
      /\ p4.left < Length["hour"]
      /\ \A v \in Units : v # "hour" => p4.shown[v] = p3.shown[v]
  BY <1>0, <1>5, CutFacts
<1> HIDE DEF p4
<1>7. /\ p1.left \in Nat /\ p2.left \in Nat /\ p3.left \in Nat /\ p4.left \in Nat
      /\ f \in [Units -> Nat]
  BY <1>3, <1>4, <1>5, <1>6 DEF UnitParts
<1>8. /\ f["year"] = p1.shown["year"] /\ f["month"] = p2.shown["month"] /\ f["day"] = p3.shown["day"]
      /\ f["minute"] = 0 /\ f["second"] = 0
  BY <1>3, <1>4, <1>5, <1>6 DEF Units
<1> DEFINE year == f["year"]  month == f["month"]  day == f["day"]  hour == f["hour"]
           a1 == p1.left  a2 == p2.left  a3 == p3.left  a4 == p4.left
<1>9. /\ year \in Nat /\ month \in Nat /\ day \in Nat /\ hour \in Nat
      /\ a1 \in Nat /\ a2 \in Nat /\ a3 \in Nat /\ a4 \in Nat
      /\ (year * 63072000) + a1 = d /\ a1 < 63072000
      /\ (month * 5184000) + a2 = a1 /\ a2 < 5184000
      /\ (day * 172800) + a3 = a2 /\ a3 < 172800
      /\ (hour * 7200) + a4 = a3 /\ a4 < 7200
  BY <1>0, <1>3, <1>4, <1>5, <1>6, <1>7, <1>8, LengthFacts
<1>10. Value(f) = (year * 63072000) + (month * 5184000) + (day * 172800) + (hour * 7200)
  <2>1. Value(f) = year * Year + month * Month + day * Day + hour * Hour + 0 * Minute + 0 * Second
    BY <1>8 DEF Value
  <2> QED
    BY <1>9, <2>1, LengthFacts DEF Day
<1>11. d >= 63072000
  BY LengthFacts
<1> HIDE DEF f, year, month, day, hour, a1, a2, a3, a4
<1>12. day < 30 /\ hour < 24 /\ month <= 12
  BY <1>9, <1>11
<1> DEFINE n == (year * 8760) + (month * 720) + (day * 24) + hour
<1>13. n \in Nat /\ Value(f) = 7200 * n /\ 7200 * n <= d /\ d < 7200 * n + 7200
  BY <1>9, <1>10
<1> HIDE DEF n
<1> QED
  BY <1>1, <1>7, <1>8, <1>12, <1>13 DEF year, month, day, hour

\* A longer duration never reads as a shorter one.
LEMMA LongerReadsLonger ==
    ASSUME NEW c \in Nat, NEW d \in Nat, c <= d
    PROVE  Value(Format(c)) <= Value(Format(d))
<1> DEFINE v == Value(Format(c))
           w == Value(Format(d))
<1>0. Month = 5184000 /\ Year = 63072000
  BY LengthFacts
<1>1. c < Month => v \in Nat /\ v <= c + 1
  BY ShortAges
<1>2. d < Month => w \in Nat /\ d <= w
  BY ShortAges
<1>3. Month <= c /\ c < Year => \E n \in Nat : v = 120 * n /\ 120 * n <= c
  BY MiddleAges
<1>4. Month <= d /\ d < Year => \E n \in Nat : w = 120 * n /\ d < 120 * n + 120
  BY MiddleAges
<1>5. Year <= c => \E n \in Nat : v = 7200 * n /\ 7200 * n <= c
  BY LongAges
<1>6. Year <= d => \E n \in Nat : w = 7200 * n /\ d < 7200 * n + 7200
  BY LongAges
<1>7. c = d => v = w
  OBVIOUS
<1> HIDE DEF v, w
<1>8. CASE d < Month
  <2>1. v \in Nat /\ v <= c + 1 /\ w \in Nat /\ d <= w
    BY <1>0, <1>1, <1>2, <1>8
  <2> QED
    BY <1>7, <2>1 DEF v, w
<1>9. CASE Month <= d /\ d < Year
  <2>1. PICK n \in Nat : w = 120 * n /\ d < 120 * n + 120
    BY <1>4, <1>9
  <2>2. CASE c < Month
    BY <1>0, <1>1, <1>9, <2>1, <2>2 DEF v, w
  <2>3. CASE Month <= c
    <3>1. c < Year
      BY <1>0, <1>9
    <3>2. PICK m \in Nat : v = 120 * m /\ 120 * m <= c
      BY <1>3, <2>3, <3>1
    <3> QED
      BY <2>1, <3>2 DEF v, w
  <2> QED
    BY <1>0, <2>2, <2>3
<1>10. CASE Year <= d
  <2>1. PICK n \in Nat : w = 7200 * n /\ d < 7200 * n + 7200
    BY <1>6, <1>10
  <2>2. CASE c < Month
    BY <1>0, <1>1, <1>10, <2>1, <2>2 DEF v, w
  <2>3. CASE Month <= c /\ c < Year
    <3>1. PICK m \in Nat : v = 120 * m /\ 120 * m <= c
      BY <1>3, <2>3
    <3> QED
      BY <1>0, <1>10, <2>1, <2>3, <3>1 DEF v, w
  <2>4. CASE Year <= c
    <3>1. PICK m \in Nat : v = 7200 * m /\ 7200 * m <= c
      BY <1>5, <2>4
    <3> QED
      BY <2>1, <3>1 DEF v, w
  <2> QED
    BY <1>0, <2>2, <2>3, <2>4
<1> QED
  BY <1>0, <1>8, <1>9, <1>10

\* What is shown of an age is shown of its distance, in one direction or the other.
LEMMA DistanceFacts ==
    ASSUME NEW d \in Nat
    PROVE  /\ Value(Format(d)) \in Nat
           /\ Value(Format(d)) <= d + Precision(d) /\ d <= Value(Format(d)) + Precision(d)
           /\ Precision(d) \in Nat
<1> DEFINE v == Value(Format(d))
           p == IF d < Month THEN 1 ELSE IF d < Year THEN 119 ELSE 7199
<1>0. Month = 5184000 /\ Year = 63072000
  BY LengthFacts
<1>1. Precision(d) = p
  BY LengthFacts DEF Precision
<1>2. CASE d < Month
  <2>1. v \in Nat /\ d <= v /\ v <= d + 1
    BY <1>2, ShortAges
  <2> QED
    BY <1>1, <1>2, <2>1
<1>3. CASE Month <= d /\ d < Year
  <2>1. PICK n \in Nat : v = 120 * n /\ 120 * n <= d /\ d < 120 * n + 120
    BY <1>3, MiddleAges
  <2>2. p = 119
    BY <1>0, <1>3
  <2> HIDE DEF v, p
  <2> QED
    BY <1>1, <2>1, <2>2 DEF v
<1>4. CASE Year <= d
  <2>1. PICK n \in Nat : v = 7200 * n /\ 7200 * n <= d /\ d < 7200 * n + 7200
    BY <1>4, LongAges
  <2>2. p = 7199
    BY <1>0, <1>4
  <2> HIDE DEF v, p
  <2> QED
    BY <1>1, <2>1, <2>2 DEF v
<1> QED
  BY <1>0, <1>2, <1>3, <1>4

LEMMA ReadFacts ==
    ASSUME NEW age \in Int
    PROVE  /\ age >= 0 => /\ FormatTime(age) = [until |-> FALSE, shown |-> Format(age)]
                          /\ Read(FormatTime(age)) = Value(Format(age))
                          /\ age \in Nat
           /\ age < 0 => /\ FormatTime(age) = [until |-> TRUE, shown |-> Format(-age)]
                         /\ Read(FormatTime(age)) = -Value(Format(-age))
                         /\ Precision(age) = Precision(-age)
                         /\ -age \in Nat
<1>1. CASE age >= 0
  <2>1. ~(age < 0) /\ age \in Nat
    BY <1>1
  <2>2. FormatTime(age) = [until |-> FALSE, shown |-> Format(age)]
    <3>1. (IF age < 0 THEN -age ELSE age) = age /\ (age < 0) = FALSE
      BY <2>1
    <3>2. FormatTime(age) = [until |-> (age < 0), shown |-> Format(IF age < 0 THEN -age ELSE age)]
      BY DEF FormatTime
    <3> QED
      BY <3>1, <3>2, Zenon
  <2> QED
    BY <2>1, <2>2 DEF Read
<1>2. CASE age < 0
  <2>1. -age \in Nat /\ ~(-age < 0)
    BY <1>2
  <2>2. FormatTime(age) = [until |-> TRUE, shown |-> Format(-age)]
    BY <1>2 DEF FormatTime
  <2>3. Precision(age) = Precision(-age)
    BY <1>2, <2>1 DEF Precision
  <2> QED
    BY <1>2, <2>1, <2>2, <2>3 DEF Read
<1> QED
  BY <1>1, <1>2

LEMMA AgeReadsBack ==
    ASSUME NEW age \in Int
    PROVE  ReadsBack(age) /\ Carried(age)
<1>1. ASSUME NEW d \in Nat, FormatTime(age).shown = Format(d) PROVE Carried(age)
  <2> DEFINE f == Format(d)
  <2>1. /\ f \in [Units -> Nat]
        /\ f["second"] <= 60 /\ f["minute"] < 60 /\ f["hour"] < 24 /\ f["day"] < 30 /\ f["month"] <= 12
        /\ f["second"] # 0 => f["month"] = 0 /\ f["year"] = 0
    <3>1. Month \in Nat /\ Year \in Nat /\ Month < Year
      BY LengthFacts
    <3>2. CASE d < Month
      BY <3>2, ShortAges
    <3>3. CASE Month <= d /\ d < Year
      <4> HIDE DEF f
      <4> QED
        BY <3>3, MiddleAges DEF f
    <3>4. CASE Year <= d
      BY <3>4, LongAges
    <3> QED
      BY <3>1, <3>2, <3>3, <3>4
  <2> HIDE DEF f
  <2>2. FormatTime(age).shown = f
    BY <1>1 DEF f
  <2> QED
    BY <2>1, <2>2 DEF Carried
<1>2. CASE age >= 0
  <2>1. FormatTime(age).shown = Format(age) /\ Read(FormatTime(age)) = Value(Format(age)) /\ age \in Nat
    BY <1>2, ReadFacts
  <2> DEFINE v == Value(Format(age))
             p == Precision(age)
  <2>2. v \in Nat /\ v <= age + p /\ age <= v + p /\ p \in Nat
    BY <2>1, DistanceFacts
  <2>3. ReadsBack(age) <=> v \in (age - p)..(age + p)
    BY <2>1 DEF ReadsBack
  <2> HIDE DEF v, p
  <2>4. v \in (age - p)..(age + p)
    BY <2>2
  <2> QED
    BY <1>1, <2>1, <2>3, <2>4
<1>3. CASE age < 0
  <2>1. /\ FormatTime(age).shown = Format(-age) /\ Read(FormatTime(age)) = -Value(Format(-age))
        /\ -age \in Nat /\ Precision(age) = Precision(-age)
    BY <1>3, ReadFacts
  <2> DEFINE v == Value(Format(-age))
             p == Precision(-age)
  <2>2. v \in Nat /\ v <= -age + p /\ -age <= v + p /\ p \in Nat
    BY <2>1, DistanceFacts
  <2>3. ReadsBack(age) <=> -v \in (age - p)..(age + p)
    BY <2>1 DEF ReadsBack
  <2> HIDE DEF v, p
  <2>4. -v \in (age - p)..(age + p)
    BY <2>2
  <2> QED
    BY <1>1, <2>1, <2>3, <2>4
<1> QED
  BY <1>2, <1>3

LEMMA OlderReadsOlder ==
    ASSUME NEW a \in Int, NEW b \in Int, a <= b
    PROVE  Read(FormatTime(a)) <= Read(FormatTime(b))
<1>1. CASE a >= 0
  <2>1. b >= 0 /\ a \in Nat /\ b \in Nat
    BY <1>1
  <2>2. Read(FormatTime(a)) = Value(Format(a)) /\ Read(FormatTime(b)) = Value(Format(b))
    BY <1>1, <2>1, ReadFacts
  <2> QED
    BY <2>1, <2>2, LongerReadsLonger
<1>2. CASE a < 0 /\ b >= 0
  <2>1. /\ -a \in Nat /\ b \in Nat
        /\ Read(FormatTime(a)) = -Value(Format(-a)) /\ Read(FormatTime(b)) = Value(Format(b))
    BY <1>2, ReadFacts
  <2>2. Value(Format(-a)) \in Nat /\ Value(Format(b)) \in Nat
    BY <2>1, DistanceFacts
  <2> QED
    BY <2>1, <2>2
<1>3. CASE b < 0
  <2>1. a < 0 /\ -b <= -a
    BY <1>3
  <2>2. /\ -a \in Nat /\ -b \in Nat
        /\ Read(FormatTime(a)) = -Value(Format(-a)) /\ Read(FormatTime(b)) = -Value(Format(-b))
    BY <1>3, <2>1, ReadFacts
  <2>3. Value(Format(-a)) \in Nat /\ Value(Format(-b)) \in Nat /\ Value(Format(-b)) <= Value(Format(-a))
    BY <2>1, <2>2, DistanceFacts, LongerReadsLonger
  <2> QED
    BY <2>2, <2>3
<1> QED
  BY <1>1, <1>2, <1>3

\* The log of a deletion shows an age that reads as what it is, up to the smallest unit
\* shown, whose units carry, and that no older age reads below (role_delete.go:46,
\* duration.FormatTime): for any ages, and not only those around the boundaries.
THEOREM AgesShown == Spec => []DeletionLogsShowAges
<1>1. AgesReadBack
  <2>1. Ages \subseteq Int
    BY RoleLogAssumption
  <2>2. \A age \in Ages : ReadsBack(age) /\ Carried(age)
    BY <2>1, AgeReadsBack
  <2>3. \A a, b \in Ages : a <= b => Read(FormatTime(a)) <= Read(FormatTime(b))
    BY <2>1, OlderReadsOlder
  <2> QED
    BY <2>2, <2>3 DEF AgesReadBack
<1>2. DeletionLogsShowAges
  BY <1>1 DEF DeletionLogsShowAges
<1> QED
  BY <1>2, PTL
=============================================================================
