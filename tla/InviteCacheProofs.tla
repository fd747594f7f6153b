-------------------------- MODULE InviteCacheProofs --------------------------
(***************************************************************************)
(* Proofs about InviteCache: the inductive invariant IInv, from it that    *)
(* Redis is up to date unless writers cross or a request fails, and that a *)
(* deletion is logged that is alone, for any number of invites, events,    *)
(* fetches and faults.                                                     *)
(***************************************************************************)
EXTENDS InviteCache, TLAPS

-----------------------------------------------------------------------------
\* What a writer holds, and a list is not "no list".
LEMMA WriterFacts ==
    ASSUME NEW w \in Writer
    PROVE  /\ w.kind \in {"create", "delete", "fetch"}
           /\ w.invites \in Lists /\ w.list \in {NoList} \cup Lists
           /\ w.step \in {"begun", "listing", "storing", "done"}
           /\ w.logged \in BOOLEAN /\ w.alone \in BOOLEAN
BY DEF Writer

LEMMA ListFacts == \A list \in Lists : list # NoList
BY InviteCacheAssumption DEF Lists

LEMMA FaultFacts ==
    ASSUME TypeOK, faults < MaxFaults
    PROVE  faults + 1 \in 0..MaxFaults
BY InviteCacheAssumption DEF TypeOK

\* A new writer beside the old ones, which are left as they are but for alone.
LEMMA StartFacts ==
    ASSUME TypeOK, NEW kind \in {"create", "delete", "fetch"}, NEW invites \in Lists,
           NEW step \in {"begun", "listing"}, Start(kind, invites, step)
    PROVE  /\ writers' \in Seq(Writer) /\ Len(writers') <= MaxEvents
           /\ Len(writers') \in DOMAIN writers' /\ Len(writers') \notin DOMAIN writers
           /\ DOMAIN writers' = DOMAIN writers \cup {Len(writers')}
           /\ \A i \in DOMAIN writers :
                 /\ writers'[i].kind = writers[i].kind /\ writers'[i].invites = writers[i].invites
                 /\ writers'[i].list = writers[i].list /\ writers'[i].step = writers[i].step
                 /\ writers'[i].logged = writers[i].logged
                 /\ writers'[i].alone => writers[i].alone /\ writers[i].step = "done"
           /\ LET w == writers'[Len(writers')]
              IN  /\ w.kind = kind /\ w.invites = invites /\ w.step = step
                  /\ w.alone => Quiet /\ writers # <<>> /\ ~crossed /\ ~failed
           /\ crossed' = (crossed /\ ~Quiet) /\ failed' = (failed /\ ~Quiet)
<1> DEFINE alone(i) == writers[i].alone /\ writers[i].step = "done"
           old == [i \in DOMAIN writers |-> [writers[i] EXCEPT !.alone = alone(i)]]
           isAlone == Quiet /\ writers # <<>> /\ ~crossed /\ ~failed
           new == [kind |-> kind, invites |-> invites, list |-> NoList, step |-> step,
                   logged |-> FALSE, alone |-> isAlone]
<1>1. writers' = Append(old, new) /\ Len(writers) < MaxEvents
  BY DEF Start
<1>2. ASSUME NEW i \in DOMAIN writers
      PROVE  LET w == [writers[i] EXCEPT !.alone = alone(i)]
             IN  /\ w \in Writer
                 /\ w.kind = writers[i].kind /\ w.invites = writers[i].invites
                 /\ w.list = writers[i].list /\ w.step = writers[i].step
                 /\ w.logged = writers[i].logged /\ w.alone = alone(i)
  <2>1. writers[i] \in Writer /\ alone(i) \in BOOLEAN
    BY WriterFacts DEF TypeOK
  <2> HIDE DEF alone
  <2> QED
    BY <2>1 DEF Writer
<1>3. new \in Writer /\ new.kind = kind /\ new.invites = invites /\ new.step = step
      /\ new.alone = isAlone
  <2>1. isAlone \in BOOLEAN
    BY DEF Quiet
  <2> HIDE DEF isAlone
  <2> QED
    BY <2>1 DEF Writer
<1>4. writers \in Seq(Writer) /\ Len(writers) \in Nat /\ DOMAIN writers = 1..Len(writers)
  BY DEF TypeOK
<1>5. /\ old \in Seq(Writer) /\ Len(old) = Len(writers)
      /\ \A i \in DOMAIN writers : old[i] = [writers[i] EXCEPT !.alone = alone(i)]
  BY <1>2, <1>4
<1> HIDE DEF old, new
<1>6. /\ writers' \in Seq(Writer) /\ Len(writers') = Len(writers) + 1
      /\ \A i \in DOMAIN writers : writers'[i] = old[i]
      /\ writers'[Len(writers')] = new
  BY <1>1, <1>3, <1>4, <1>5
<1>7. /\ Len(writers') <= MaxEvents
      /\ Len(writers') \in DOMAIN writers' /\ Len(writers') \notin DOMAIN writers
      /\ DOMAIN writers' = DOMAIN writers \cup {Len(writers')}
  BY <1>1, <1>4, <1>6, InviteCacheAssumption
<1>8. crossed' = (crossed /\ ~Quiet) /\ failed' = (failed /\ ~Quiet)
  BY Zenon DEF Start
<1>9. \A i \in DOMAIN writers :
         /\ writers'[i].kind = writers[i].kind /\ writers'[i].invites = writers[i].invites
         /\ writers'[i].list = writers[i].list /\ writers'[i].step = writers[i].step
         /\ writers'[i].logged = writers[i].logged
         /\ writers'[i].alone => writers[i].alone /\ writers[i].step = "done"
  <2> TAKE i \in DOMAIN writers
  <2> DEFINE w == [writers[i] EXCEPT !.alone = alone(i)]
  <2>1. writers'[i] = w
    BY <1>5, <1>6
  <2>2. /\ w.kind = writers[i].kind /\ w.invites = writers[i].invites
        /\ w.list = writers[i].list /\ w.step = writers[i].step
        /\ w.logged = writers[i].logged
    BY <1>2
  <2>3. w.alone => writers[i].alone /\ writers[i].step = "done"
    BY <1>2
  <2> HIDE DEF w
  <2> QED
    BY <2>1, <2>2, <2>3
<1> QED
  BY <1>3, <1>6, <1>7, <1>8, <1>9

\* One writer goes on: the others stay as they are.
LEMMA GoesOnFacts ==
    ASSUME TypeOK, NEW i \in DOMAIN writers, NEW w \in Writer, writers' = [writers EXCEPT ![i] = w]
    PROVE  /\ writers' \in Seq(Writer) /\ Len(writers') = Len(writers)
           /\ DOMAIN writers' = DOMAIN writers
           /\ writers'[i] = w
           /\ \A j \in DOMAIN writers \ {i} : writers'[j] = writers[j]
BY DEF TypeOK

LEMMA InitInvariant == Init => IInv
<1> SUFFICES ASSUME Init PROVE IInv
  OBVIOUS
<1>1. writers \in Seq(Writer) /\ Len(writers) = 0 /\ DOMAIN writers = {}
  BY DEF Init
<1>2. TypeOK
  <2>1. Len(writers) <= MaxEvents /\ faults \in 0..MaxFaults
    BY <1>1, InviteCacheAssumption DEF Init
  <2> QED
    BY <1>1, <2>1, InviteCacheAssumption DEF Init, TypeOK
<1>3. ListsFollow /\ AloneFindsInvite /\ DeletionsLogged
  BY <1>1 DEF Init, ListsFollow, AloneFindsInvite, DeletionsLogged
<1> QED
  BY <1>2, <1>3 DEF IInv
-----------------------------------------------------------------------------
\* A new writer: it is yet to take the list, and the others are no longer alone.
LEMMA StartStep ==
    ASSUME IInv, NEW kind \in {"create", "delete", "fetch"}, NEW invites \in Lists,
           NEW step \in {"begun", "listing"}, Start(kind, invites, step),
           real' \in Lists, revoked' \in Lists, revoked' \cap real' = {},
           stored' = stored, faults' = faults,
           kind = "delete" => invites \subseteq real,
           kind = "delete" <=> step = "begun" /\ kind # "create"
    PROVE  IInv'
<1>0. TypeOK /\ ListsFollow /\ AloneFindsInvite /\ DeletionsLogged
  BY DEF IInv
<1> DEFINE n == Len(writers')
<1>1. /\ writers' \in Seq(Writer) /\ Len(writers') <= MaxEvents
      /\ n \in DOMAIN writers' /\ n \notin DOMAIN writers
      /\ DOMAIN writers' = DOMAIN writers \cup {n}
      /\ \A i \in DOMAIN writers :
            /\ writers'[i].kind = writers[i].kind /\ writers'[i].invites = writers[i].invites
            /\ writers'[i].list = writers[i].list /\ writers'[i].step = writers[i].step
            /\ writers'[i].logged = writers[i].logged
            /\ writers'[i].alone => writers[i].alone /\ writers[i].step = "done"
      /\ writers'[n].kind = kind /\ writers'[n].invites = invites /\ writers'[n].step = step
      /\ writers'[n].alone => Quiet /\ writers # <<>> /\ ~crossed /\ ~failed
  BY <1>0, StartFacts
<1>2. crossed' = (crossed /\ ~Quiet) /\ failed' = (failed /\ ~Quiet)
  BY <1>0, StartFacts
<1> HIDE DEF n
<1>3. TypeOK'
  <2>1. crossed' \in BOOLEAN /\ failed' \in BOOLEAN
    BY <1>0, <1>2 DEF TypeOK
  <2>2. \A i \in DOMAIN writers' : writers'[i].step = "storing" => writers'[i].list # NoList
    BY <1>0, <1>1 DEF TypeOK
  <2> QED
    BY <1>0, <1>1, <2>1, <2>2 DEF TypeOK, Lists
<1>4. ListsFollow'
  <2>1. \E i \in DOMAIN writers' : writers'[i].step \notin {"storing", "done"}
    BY <1>1
  <2>2. ASSUME ~crossed', ~failed', NEW i \in DOMAIN writers', NEW j \in DOMAIN writers',
               writers'[i].step = "storing", writers'[j].step = "storing"
        PROVE  i = j
    <3>1. /\ i \in DOMAIN writers /\ writers[i].step = "storing"
          /\ j \in DOMAIN writers /\ writers[j].step = "storing"
      BY <1>1, <2>2
    <3>2. ~crossed /\ ~failed /\ writers # <<>>
      <4>1. ~Quiet
        BY <3>1 DEF Quiet
      <4>2. ~crossed /\ ~failed
        BY <1>2, <2>2, <4>1, Zenon
      <4> QED
        BY <3>1, <4>2
    <3> QED
      BY <1>0, <3>1, <3>2 DEF ListsFollow
  <2> QED
    BY <2>1, <2>2 DEF ListsFollow
<1>5. AloneFindsInvite'
  <2> SUFFICES ASSUME NEW i \in DOMAIN writers', writers'[i].kind = "delete",
                      writers'[i].step = "begun", writers'[i].alone
               PROVE  /\ \A j \in DOMAIN writers' \ {i} : writers'[j].step = "done"
                      /\ stored # NoList /\ writers'[i].invites \subseteq stored
    BY DEF AloneFindsInvite
  <2>1. i = n /\ Quiet /\ writers # <<>> /\ ~crossed /\ ~failed
    BY <1>1
  <2>2. \A j \in DOMAIN writers' \ {i} : writers'[j].step = "done"
    BY <1>1, <2>1 DEF Quiet
  <2>3. stored = real
    BY <1>0, <2>1 DEF ListsFollow, Quiet
  <2>4. stored # NoList
    BY <1>0, <2>3, ListFacts DEF TypeOK, Lists
  <2> QED
    BY <1>1, <2>1, <2>2, <2>3, <2>4
<1>6. DeletionsLogged'
  BY <1>0, <1>1 DEF DeletionsLogged
<1> QED
  BY <1>3, <1>4, <1>5, <1>6 DEF IInv

\* A writer's log: it is yet to take the list.
LEMMA LogStep ==
    ASSUME IInv, NEW i \in DOMAIN writers, LogCreate(i) \/ LogDelete(i)
    PROVE  IInv'
<1>0. TypeOK /\ ListsFollow /\ AloneFindsInvite /\ DeletionsLogged
  BY DEF IInv
<1>1. PICK w \in Writer :
         /\ writers' = [writers EXCEPT ![i] = w]
         /\ writers[i].step = "begun" /\ w.step = "listing"
         /\ w.kind = writers[i].kind /\ w.list = writers[i].list
         /\ UNCHANGED <<real, revoked, stored, crossed, failed>>
         /\ faults' \in 0..MaxFaults
         /\ w.kind = "delete" /\ w.alone /\ ShouldLog =>
               writers[i].alone /\ (stored # NoList /\ writers[i].invites \subseteq stored => w.logged)
  <2>0. writers[i] \in Writer
    BY <1>0 DEF TypeOK
  <2>1. CASE LogCreate(i)
    <3> DEFINE w == [writers[i] EXCEPT !.step = "listing", !.logged = ShouldLog]
    <3>1. /\ w \in Writer /\ w.step = "listing" /\ w.kind = writers[i].kind
          /\ w.list = writers[i].list
      BY <2>0, InviteCacheAssumption DEF Writer
    <3>2. /\ writers' = [writers EXCEPT ![i] = w] /\ writers[i].step = "begun"
          /\ writers[i].kind = "create"
          /\ UNCHANGED <<real, revoked, stored, crossed, failed, faults>>
      BY <2>1 DEF LogCreate, burst
    <3> HIDE DEF w
    <3> QED
      BY <1>0, <3>1, <3>2 DEF TypeOK
  <2>2. CASE LogDelete(i)
    <3> DEFINE b == ShouldLog /\ stored # NoList /\ writers[i].invites \subseteq stored
               v == [writers[i] EXCEPT !.step = "listing", !.logged = b]
               w == [writers[i] EXCEPT !.step = "listing", !.alone = FALSE]
    <3>1. /\ writers[i].step = "begun" /\ UNCHANGED <<real, revoked, stored, crossed, failed>>
          /\ \/ writers' = [writers EXCEPT ![i] = v] /\ faults' = faults
             \/ /\ writers' = [writers EXCEPT ![i] = w]
                /\ faults < MaxFaults /\ faults' = faults + 1
      BY <2>2 DEF LogDelete, burst
    <3>2. b \in BOOLEAN
      BY InviteCacheAssumption
    <3>3. b = (ShouldLog /\ stored # NoList /\ writers[i].invites \subseteq stored)
      OBVIOUS
    <3> HIDE DEF b
    <3>4. /\ v \in Writer /\ v.step = "listing" /\ v.kind = writers[i].kind
          /\ v.list = writers[i].list /\ v.alone = writers[i].alone /\ v.logged = b
      BY <2>0, <3>2 DEF Writer
    <3>5. /\ w \in Writer /\ w.step = "listing" /\ w.kind = writers[i].kind
          /\ w.list = writers[i].list /\ w.alone = FALSE
      BY <2>0 DEF Writer
    <3> HIDE DEF v, w
    <3>6. faults' \in 0..MaxFaults
      BY <1>0, <3>1, FaultFacts DEF TypeOK
    <3>7. CASE writers' = [writers EXCEPT ![i] = v]
      BY <3>1, <3>3, <3>4, <3>6, <3>7
    <3>8. CASE writers' = [writers EXCEPT ![i] = w]
      BY <3>1, <3>5, <3>6, <3>8
    <3> QED
      BY <3>1, <3>7, <3>8
  <2> QED
    BY <2>1, <2>2
<1>2. /\ writers' \in Seq(Writer) /\ Len(writers') = Len(writers)
      /\ DOMAIN writers' = DOMAIN writers /\ writers'[i] = w
      /\ \A j \in DOMAIN writers \ {i} : writers'[j] = writers[j]
  BY <1>0, <1>1, GoesOnFacts
<1>3. TypeOK'
  BY <1>0, <1>1, <1>2 DEF TypeOK
<1>4. ListsFollow'
  BY <1>0, <1>1, <1>2 DEF ListsFollow
<1>5. AloneFindsInvite'
  BY <1>0, <1>1, <1>2 DEF AloneFindsInvite
<1>6. DeletionsLogged'
  BY <1>0, <1>1, <1>2 DEF DeletionsLogged, AloneFindsInvite
<1> QED
  BY <1>3, <1>4, <1>5, <1>6 DEF IInv

\* GuildInvites: the list is the guild's, and another that waits makes it cross.
LEMMA ListStep ==
    ASSUME IInv, NEW i \in DOMAIN writers, List(i)
    PROVE  IInv'
<1>0. TypeOK /\ ListsFollow /\ AloneFindsInvite /\ DeletionsLogged
  BY DEF IInv
<1>1. PICK w \in Writer :
         /\ writers' = [writers EXCEPT ![i] = w] /\ writers[i].step = "listing"
         /\ w.kind = writers[i].kind /\ w.alone = writers[i].alone /\ w.logged = writers[i].logged
         /\ UNCHANGED <<real, revoked, stored>>
         /\ faults' \in 0..MaxFaults /\ failed' \in BOOLEAN /\ crossed' \in BOOLEAN
         /\ \/ /\ w.step = "storing" /\ w.list = real /\ failed' = failed
               /\ ~crossed' => ~crossed /\ \A j \in DOMAIN writers : writers[j].step # "storing"
            \/ w.step = "done" /\ failed'
  <2> DEFINE v == [writers[i] EXCEPT !.step = "storing", !.list = real]
             w == [writers[i] EXCEPT !.step = "done"]
  <2>0. writers[i] \in Writer /\ real \in Lists \cup {NoList}
    BY <1>0 DEF TypeOK, Lists
  <2>1. /\ v \in Writer /\ v.step = "storing" /\ v.kind = writers[i].kind /\ v.list = real
        /\ v.alone = writers[i].alone /\ v.logged = writers[i].logged
        /\ w \in Writer /\ w.step = "done" /\ w.kind = writers[i].kind
        /\ w.alone = writers[i].alone /\ w.logged = writers[i].logged
    BY <2>0 DEF Writer
  <2>2. CASE /\ writers' = [writers EXCEPT ![i] = v]
             /\ crossed' = (crossed \/ \E j \in DOMAIN writers : writers[j].step = "storing")
             /\ UNCHANGED <<failed, faults>>
    <3>1. crossed' \in BOOLEAN /\ failed' \in BOOLEAN /\ faults' \in 0..MaxFaults
      BY <1>0, <2>2, Zenon DEF TypeOK
    <3>2. ~crossed' => ~crossed /\ \A j \in DOMAIN writers : writers[j].step # "storing"
      BY <2>2
    <3>3. UNCHANGED <<real, revoked, stored>> /\ writers[i].step = "listing"
      BY DEF List
    <3> HIDE DEF v, w
    <3> QED
      BY <2>1, <2>2, <3>1, <3>2, <3>3
  <2>3. CASE Fault /\ writers' = [writers EXCEPT ![i] = w] /\ UNCHANGED crossed
    <3>1. failed' = TRUE /\ faults' \in 0..MaxFaults /\ crossed' \in BOOLEAN
      BY <1>0, <2>3, FaultFacts DEF Fault, TypeOK
    <3>2. UNCHANGED <<real, revoked, stored>> /\ writers[i].step = "listing"
      BY DEF List
    <3> HIDE DEF v, w
    <3> QED
      BY <2>1, <2>3, <3>1, <3>2
  <2> QED
    BY <2>2, <2>3, Zenon DEF List
<1>2. /\ writers' \in Seq(Writer) /\ Len(writers') = Len(writers)
      /\ DOMAIN writers' = DOMAIN writers /\ writers'[i] = w
      /\ \A j \in DOMAIN writers \ {i} : writers'[j] = writers[j]
  BY <1>0, <1>1, GoesOnFacts
<1>3. TypeOK'
  <2>1. real # NoList
    BY <1>0, ListFacts DEF TypeOK, Lists
  <2> QED
    BY <1>0, <1>1, <1>2, <2>1 DEF TypeOK
<1>4. ListsFollow'
  <2> SUFFICES ASSUME ~crossed', ~failed'
               PROVE  /\ \A j, k \in DOMAIN writers' :
                            writers'[j].step = "storing" /\ writers'[k].step = "storing" => j = k
                      /\ \A j \in DOMAIN writers' : writers'[j].step = "storing" => writers'[j].list = real'
                      /\ Quiet' => stored' = real'
    BY DEF ListsFollow
  <2>1. w.step = "storing" /\ \A j \in DOMAIN writers : writers[j].step # "storing"
    BY <1>1
  <2> QED
    BY <1>1, <1>2, <2>1 DEF Quiet
<1>5. AloneFindsInvite'
  BY <1>0, <1>1, <1>2 DEF AloneFindsInvite
<1>6. DeletionsLogged'
  BY <1>0, <1>1, <1>2 DEF DeletionsLogged
<1> QED
  BY <1>3, <1>4, <1>5, <1>6 DEF IInv

\* SetInvites: if no other list is to be taken, this is the guild's.
LEMMA StoreStep ==
    ASSUME IInv, NEW i \in DOMAIN writers, Store(i)
    PROVE  IInv'
<1>0. TypeOK /\ ListsFollow /\ AloneFindsInvite /\ DeletionsLogged
  BY DEF IInv
<1> DEFINE w == [writers[i] EXCEPT !.step = "done", !.list = NoList]
<1>1. writers[i] \in Writer /\ writers[i].list \in Lists
  BY <1>0, WriterFacts DEF TypeOK, Store
<1>2. /\ w \in Writer /\ w.step = "done" /\ w.kind = writers[i].kind
      /\ w.alone = writers[i].alone /\ w.logged = writers[i].logged
  BY <1>1 DEF Writer, Lists
<1>3. /\ writers' = [writers EXCEPT ![i] = w] /\ writers[i].step = "storing"
      /\ UNCHANGED <<real, revoked, crossed>>
  BY DEF Store
<1>4. \/ stored' = writers[i].list /\ failed' = failed /\ faults' = faults
      \/ stored' = stored /\ failed' = TRUE /\ faults' \in 0..MaxFaults
  BY <1>0, FaultFacts DEF Store, Fault
<1> HIDE DEF w
<1>5. /\ writers' \in Seq(Writer) /\ Len(writers') = Len(writers)
      /\ DOMAIN writers' = DOMAIN writers /\ writers'[i] = w
      /\ \A j \in DOMAIN writers \ {i} : writers'[j] = writers[j]
  BY <1>0, <1>2, <1>3, GoesOnFacts
<1>6. TypeOK'
  BY <1>0, <1>1, <1>2, <1>3, <1>4, <1>5 DEF TypeOK
<1>7. ListsFollow'
  <2> SUFFICES ASSUME ~crossed', ~failed'
               PROVE  /\ \A j, k \in DOMAIN writers' :
                            writers'[j].step = "storing" /\ writers'[k].step = "storing" => j = k
                      /\ (\A j \in DOMAIN writers' : writers'[j].step \in {"storing", "done"}) =>
                            /\ \A j \in DOMAIN writers' :
                                  writers'[j].step = "storing" => writers'[j].list = real'
                            /\ Quiet' => stored' = real'
    BY DEF ListsFollow
  <2>1. ~crossed /\ ~failed /\ writers # <<>> /\ stored' = writers[i].list
    BY <1>3, <1>4
  <2>2. \A j \in DOMAIN writers : writers[j].step = "storing" => i = j
    BY <1>0, <1>3, <2>1 DEF ListsFollow
  <2>3. \A j \in DOMAIN writers' : writers'[j].step # "storing"
    BY <1>2, <1>5, <2>2
  <2>4. ASSUME \A j \in DOMAIN writers' : writers'[j].step \in {"storing", "done"}
        PROVE  stored' = real'
    <3>1. \A j \in DOMAIN writers : writers[j].step \in {"storing", "done"}
      BY <1>3, <1>5, <2>4
    <3> QED
      BY <1>0, <1>3, <2>1, <3>1 DEF ListsFollow
  <2> QED
    BY <2>3, <2>4
<1>8. AloneFindsInvite'
  BY <1>0, <1>2, <1>3, <1>5 DEF AloneFindsInvite
<1>9. DeletionsLogged'
  BY <1>0, <1>2, <1>3, <1>5 DEF DeletionsLogged
<1> QED
  BY <1>6, <1>7, <1>8, <1>9 DEF IInv

-----------------------------------------------------------------------------
LEMMA NextInvariant == IInv /\ [Next]_vars => IInv'
<1> SUFFICES ASSUME IInv, [Next]_vars PROVE IInv'
  OBVIOUS
<1>0. TypeOK
  BY DEF IInv
<1>1. ASSUME NEW v \in Invites, InviteCreated(v) PROVE IInv'
  <2>1. /\ real' \in Lists /\ revoked' \in Lists /\ revoked' \cap real' = {} /\ {v} \in Lists
        /\ stored' = stored /\ faults' = faults /\ Start("create", {v}, "begun")
    BY <1>0, <1>1 DEF InviteCreated, TypeOK, Lists
  <2> QED
    BY <2>1, StartStep
<1>2. ASSUME NEW v \in Invites, InviteDeleted(v) PROVE IInv'
  <2>1. /\ real' \in Lists /\ revoked' \in Lists /\ revoked' \cap real' = {} /\ {v} \in Lists
        /\ stored' = stored /\ faults' = faults /\ Start("delete", {v}, "begun")
        /\ {v} \subseteq real
    BY <1>0, <1>2 DEF InviteDeleted, TypeOK, Lists
  <2> QED
    BY <2>1, StartStep
<1>3. CASE Fetch
  <2>1. /\ real' \in Lists /\ revoked' \in Lists /\ revoked' \cap real' = {} /\ {} \in Lists
        /\ stored' = stored /\ faults' = faults /\ Start("fetch", {}, "listing")
    BY <1>0, <1>3 DEF Fetch, TypeOK, Lists
  <2> QED
    BY <2>1, StartStep
<1>4. ASSUME NEW i \in DOMAIN writers, LogCreate(i) \/ LogDelete(i) \/ List(i) \/ Store(i)
      PROVE  IInv'
  BY <1>4, LogStep, ListStep, StoreStep
<1>5. CASE UNCHANGED vars
  BY <1>5 DEF vars, burst, IInv, TypeOK, ListsFollow, Quiet, AloneFindsInvite, DeletionsLogged
<1> QED
  BY <1>1, <1>2, <1>3, <1>4, <1>5 DEF Next

\* IInv holds in every state of every run.
THEOREM Invariance == Spec => []IInv
BY InitInvariant, NextInvariant, PTL DEF Spec

\* invite_delete.go:15, "update the cached invites when we're done": when all writers
\* are done, Redis has the guild's invites, but for crossing lists and failures.
THEOREM UpToDate == Spec => []UpToDateUnlessCrossed
<1>1. IInv => UpToDateUnlessCrossed
  BY DEF IInv, ListsFollow, UpToDateUnlessCrossed, Quiet
<1> QED
  BY <1>1, Invariance, PTL

\* inviteDelete looks the invite up before it stores the new list: alone, and with
\* Redis up to date, it logs the deletion.
THEOREM DeletionsAreLogged == Spec => []DeletionsLogged
<1>1. IInv => DeletionsLogged
  BY DEF IInv
<1> QED
  BY <1>1, Invariance, PTL
=============================================================================
