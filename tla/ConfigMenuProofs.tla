-------------------------- MODULE ConfigMenuProofs --------------------------
(***************************************************************************)
(* Proofs about ConfigMenu and the GuildLog it runs beside: the inductive  *)
(* invariants GuildIInv and IInv, from them what menus keep of the users'  *)
(* choices, how they end, and that a join is logged once, for any number   *)
(* of sessions, presses, events, channels, GUILD_CREATEs and faults.       *)
(***************************************************************************)
EXTENDS ConfigMenu, FiniteSetTheorems, SequenceTheorems, TLAPS

-----------------------------------------------------------------------------
(* The guild: its steps keep GuildIInv, with the menus beside it as well. *)

LEMMA SettingFacts ==
    ASSUME setting \in Settings
    PROVE  /\ setting.config \in Targets \cup {NoRow}
           /\ setting.presses \in Nat
           /\ setting.creates \in Nat
BY GuildLogAssumption

LEMMA NewRowIsTargets == NewRow \in Targets /\ NewRow # NoRow
<1>1. NewRow \in Targets
  BY DEF NewRow, Targets
<1> QED
  BY <1>1, GuildLogAssumption

LEMMA FaultFacts ==
    ASSUME GuildTypeOK, Fault
    PROVE  faults' \in 0..MaxFaults /\ faults' # 0
BY GuildLogAssumption DEF GuildTypeOK, Fault

LEMMA HandlerJoin == \A h \in Handler : h.join \in Nat
BY DEF Handler

\* One more GUILD_CREATE has its handler.
LEMMA SentFacts ==
    ASSUME creates \in Seq(Handler), NEW j \in Nat, GuildCreateSent(j)
    PROVE  /\ creates' \in Seq(Handler)
           /\ Len(creates') = Len(creates) + 1
           /\ DOMAIN creates' = DOMAIN creates \cup {Len(creates')}
           /\ Len(creates') \notin DOMAIN creates
           /\ \A i \in DOMAIN creates : creates'[i] = creates[i]
           /\ creates'[Len(creates')] =
                 [join |-> j, step |-> "begun", exists |-> FALSE, inTime |-> FALSE, logged |-> FALSE]
<1>1. [join |-> j, step |-> "begun", exists |-> FALSE, inTime |-> FALSE, logged |-> FALSE]
         \in Handler
  BY DEF Handler
<1> QED
  BY <1>1 DEF GuildCreateSent

\* One handler goes on: the others stay, and its join.
LEMMA CreatedFacts ==
    ASSUME creates \in Seq(Handler), NEW i \in DOMAIN creates, NEW exists \in BOOLEAN,
           Created(i, exists)
    PROVE  /\ creates' \in Seq(Handler)
           /\ Len(creates') = Len(creates) /\ DOMAIN creates' = DOMAIN creates
           /\ \A k \in DOMAIN creates \ {i} : creates'[k] = creates[k]
           /\ creates'[i].join = creates[i].join
           /\ creates'[i].step = "created"
           /\ creates'[i].exists = exists
           /\ creates'[i].inTime = creates[i].inTime
           /\ creates'[i].logged = creates[i].logged
<1> DEFINE h == [creates[i] EXCEPT !.step = "created", !.exists = exists]
<1>1. creates[i] \in Handler
  OBVIOUS
<1>2. creates' = [creates EXCEPT ![i] = h]
  BY DEF Created
<1>3. h \in Handler
  BY <1>1 DEF Handler
<1>4. /\ h.join = creates[i].join /\ h.step = "created" /\ h.exists = exists
      /\ h.inTime = creates[i].inTime /\ h.logged = creates[i].logged
  BY <1>1 DEF Handler
<1> HIDE DEF h
<1>5. creates'[i] = h
  BY <1>2
<1>6. /\ creates' \in Seq(Handler)
      /\ Len(creates') = Len(creates) /\ DOMAIN creates' = DOMAIN creates
      /\ \A k \in DOMAIN creates \ {i} : creates'[k] = creates[k]
  BY <1>2, <1>3
<1> QED
  BY <1>4, <1>5, <1>6

LEMMA LogJoinFacts ==
    ASSUME creates \in Seq(Handler), NEW i \in DOMAIN creates, LogJoin(i)
    PROVE  /\ creates' \in Seq(Handler)
           /\ Len(creates') = Len(creates) /\ DOMAIN creates' = DOMAIN creates
           /\ \A k \in DOMAIN creates \ {i} : creates'[k] = creates[k]
           /\ creates'[i].join = creates[i].join
           /\ creates'[i].step = "done"
           /\ creates'[i].exists = creates[i].exists
           /\ (creates'[i].inTime) = (creates[i].join \in recent)
           /\ creates'[i].logged = (ShouldLog /\ (creates'[i].inTime \/ ~creates[i].exists))
<1> DEFINE inTime == creates[i].join \in recent
           logged == ShouldLog /\ (inTime \/ ~creates[i].exists)
           h == [creates[i] EXCEPT !.step = "done", !.inTime = inTime, !.logged = logged]
<1>1. creates[i] \in Handler /\ inTime \in BOOLEAN /\ logged \in BOOLEAN
  BY GuildLogAssumption
<1>2. creates' = [creates EXCEPT ![i] = h]
  BY DEF LogJoin
<1> HIDE DEF inTime, logged
<1>3. h \in Handler
  BY <1>1 DEF Handler
<1>4. /\ h.join = creates[i].join /\ h.step = "done" /\ h.exists = creates[i].exists
      /\ h.inTime = inTime /\ h.logged = logged
  BY <1>1 DEF Handler
<1> HIDE DEF h
<1>5. creates'[i] = h
  BY <1>2
<1>6. /\ creates' \in Seq(Handler)
      /\ Len(creates') = Len(creates) /\ DOMAIN creates' = DOMAIN creates
      /\ \A k \in DOMAIN creates \ {i} : creates'[k] = creates[k]
  BY <1>2, <1>3
<1>7. creates'[i].logged = (ShouldLog /\ (creates'[i].inTime \/ ~creates[i].exists))
  BY <1>4, <1>5 DEF logged
<1> QED
  BY <1>4, <1>5, <1>6, <1>7 DEF inTime

-----------------------------------------------------------------------------
LEMMA GuildInitInvariant == GuildInit => GuildIInv
<1> SUFFICES ASSUME GuildInit PROVE GuildIInv
  OBVIOUS
<1>1. GuildTypeOK
  BY SettingFacts, GuildLogAssumption DEF GuildInit, GuildTypeOK
<1>2. DOMAIN creates = {} /\ Len(creates) = 0 /\ 1..joins = {}
  BY DEF GuildInit
<1>3. HandlersLog /\ AloneInTime
  BY <1>2 DEF HandlersLog, AloneInTime
<1>4. RowMadeOnce
  BY <1>2 DEF GuildInit, RowMadeOnce, Asked
<1>5. JoinsHandled
  <2>1. joins <= Len(creates)
    BY <1>2 DEF GuildInit
  <2> QED
    BY <1>2, <2>1, Zenon DEF GuildInit, JoinsHandled
<1> QED
  BY <1>1, <1>3, <1>4, <1>5 DEF GuildIInv

\* The menus write the row, and never remove it.
LEMMA MenusBeside ==
    ASSUME GuildIInv, UNCHANGED <<setting, guild>>, config' \in Targets \cup {NoRow},
           (config' = NoRow) = (config = NoRow), faults' \in 0..MaxFaults
    PROVE  GuildIInv'
<1>1. GuildTypeOK'
  BY DEF GuildIInv, GuildTypeOK, guild
<1>2. HandlersLog' /\ AloneInTime' /\ JoinsHandled'
  BY DEF GuildIInv, HandlersLog, AloneInTime, JoinsHandled, Asked, guild
<1>3. RowMadeOnce'
  BY DEF GuildIInv, RowMadeOnce, Asked, guild
<1> QED
  BY <1>1, <1>2, <1>3 DEF GuildIInv

LEMMA JoinStep ==
    ASSUME GuildIInv, Join
    PROVE  GuildIInv'
<1> USE DEF Join
<1>0. /\ GuildTypeOK /\ joins \in Nat /\ joins' \in Nat /\ joins' = joins + 1
      /\ creates \in Seq(Handler)
      /\ setting.creates \in Nat /\ Len(creates) < setting.creates
  BY SettingFacts DEF GuildIInv, GuildTypeOK, GuildCreateSent
<1>1. /\ creates' \in Seq(Handler)
      /\ Len(creates') = Len(creates) + 1
      /\ DOMAIN creates' = DOMAIN creates \cup {Len(creates')}
      /\ Len(creates') \notin DOMAIN creates
      /\ \A i \in DOMAIN creates : creates'[i] = creates[i]
      /\ creates'[Len(creates')] = [join |-> joins', step |-> "begun", exists |-> FALSE,
                                     inTime |-> FALSE, logged |-> FALSE]
  <2>1. GuildCreateSent(joins')
    OBVIOUS
  <2> QED
    BY <1>0, <2>1, SentFacts
<1>2. /\ \A i \in DOMAIN creates : creates[i].join <= joins
      /\ creates'[Len(creates')].join = joins'
      /\ creates'[Len(creates')].step = "begun"
      /\ creates'[Len(creates')].inTime = FALSE
      /\ creates'[Len(creates')].logged = FALSE
  BY <1>0, <1>1 DEF GuildTypeOK
<1>2a. \A i \in DOMAIN creates : creates[i].join \in Nat
  BY <1>0, HandlerJoin
<1> HIDE DEF Join
<1>u. /\ UNCHANGED <<setting, config, faults, excused>> /\ member' = TRUE
      /\ recent' = recent \cup {joins'}
  BY DEF Join
<1>3. GuildTypeOK'
  <2>1. Len(creates) \in Nat /\ joins <= Len(creates)
    BY <1>0 DEF GuildIInv, JoinsHandled
  <2>2. joins' \in 0..setting.creates /\ Len(creates') <= setting.creates
    BY <1>0, <1>1, <2>1
  <2>3. recent' \subseteq 1..joins' /\ excused' \subseteq 0..joins'
    BY <1>0, <1>u DEF GuildTypeOK
  <2>4. \A i \in DOMAIN creates' : creates'[i].join <= joins'
    BY <1>0, <1>1, <1>2, <1>2a
  <2> QED
    BY <1>0, <1>1, <1>u, <2>2, <2>3, <2>4 DEF GuildTypeOK
<1>4. HandlersLog'
  BY <1>1, <1>2 DEF GuildIInv, HandlersLog
<1>5. Asked' = Asked
  BY <1>1, <1>2, <1>u DEF Asked
<1>6. RowMadeOnce'
  BY <1>1, <1>2, <1>5, <1>u DEF GuildIInv, RowMadeOnce, Asked
<1>7. AloneInTime'
  <2> SUFFICES ASSUME NEW i \in DOMAIN creates', NEW k \in DOMAIN creates', i # k,
                      creates'[i].join = creates'[k].join, creates'[i].join \notin excused
               PROVE  /\ creates'[i].join \notin recent'
                      /\ creates'[i].inTime => ~creates'[k].inTime /\ (k \in Asked => creates'[k].exists)
    BY <1>5, <1>u DEF AloneInTime
  <2>1. i \in DOMAIN creates /\ k \in DOMAIN creates
    BY <1>0, <1>1, <1>2, <1>2a
  <2> QED
    BY <1>0, <1>1, <1>2, <1>2a, <1>u, <2>1 DEF GuildIInv, AloneInTime
<1>8. JoinsHandled'
  <2>1. joins' <= Len(creates')
    BY <1>0, <1>1 DEF GuildIInv, JoinsHandled
  <2>2. \A i \in DOMAIN creates' : creates'[i].join # 0 \/ (i \in DOMAIN creates /\ creates[i].join = 0)
    BY <1>0, <1>1, <1>2
  <2>3. ASSUME NEW j \in 1..joins' PROVE \E i \in DOMAIN creates' : creates'[i].join = j
    <3>1. CASE j = joins'
      BY <1>1, <1>2, <3>1
    <3>2. CASE j \in 1..joins
      BY <1>1, <3>2 DEF GuildIInv, JoinsHandled
    <3> QED
      BY <1>0, <3>1, <3>2
  <2>4. joins' # 0
    BY <1>0
  <2> QED
    BY <1>u, <2>1, <2>2, <2>3, <2>4 DEF GuildIInv, JoinsHandled
<1> QED
  BY <1>3, <1>4, <1>6, <1>7, <1>8 DEF GuildIInv

LEMMA AvailableStep ==
    ASSUME GuildIInv, Available
    PROVE  GuildIInv'
<1> USE DEF Available
<1>0. /\ GuildTypeOK /\ joins \in Nat /\ creates \in Seq(Handler)
      /\ setting.creates \in Nat /\ Len(creates) < setting.creates
  BY SettingFacts DEF GuildIInv, GuildTypeOK, GuildCreateSent
<1>1. /\ creates' \in Seq(Handler)
      /\ Len(creates') = Len(creates) + 1
      /\ DOMAIN creates' = DOMAIN creates \cup {Len(creates')}
      /\ Len(creates') \notin DOMAIN creates
      /\ \A i \in DOMAIN creates : creates'[i] = creates[i]
      /\ creates'[Len(creates')] = [join |-> joins, step |-> "begun", exists |-> FALSE,
                                     inTime |-> FALSE, logged |-> FALSE]
  BY <1>0, SentFacts
<1>2. /\ \A i \in DOMAIN creates : creates[i].join <= joins
      /\ creates'[Len(creates')].join = joins
      /\ creates'[Len(creates')].step = "begun"
      /\ creates'[Len(creates')].inTime = FALSE
      /\ creates'[Len(creates')].logged = FALSE
  BY <1>0, <1>1 DEF GuildTypeOK
<1>2a. \A i \in DOMAIN creates : creates[i].join \in Nat
  BY <1>0, HandlerJoin
<1> HIDE DEF Available
<1>u. /\ UNCHANGED <<setting, config, faults, member, joins, recent>> /\ member
      /\ excused' = excused \cup ({joins} \cap recent)
  BY DEF Available
<1>3. GuildTypeOK'
  BY <1>0, <1>1, <1>2, <1>u DEF GuildIInv, GuildTypeOK
<1>4. HandlersLog'
  BY <1>1, <1>2 DEF GuildIInv, HandlersLog
<1>5. Asked' \subseteq Asked
  BY <1>1, <1>2, <1>u DEF Asked
<1>5a. \A k \in Asked' : creates'[k] = creates[k]
  BY <1>1, <1>5 DEF Asked
<1>6. RowMadeOnce'
  BY <1>1, <1>5, <1>5a, <1>u DEF GuildIInv, RowMadeOnce
<1>7. AloneInTime'
  <2> SUFFICES ASSUME NEW i \in DOMAIN creates', NEW k \in DOMAIN creates', i # k,
                      creates'[i].join = creates'[k].join, creates'[i].join \notin excused'
               PROVE  /\ creates'[i].join \notin recent'
                      /\ creates'[i].inTime => ~creates'[k].inTime /\ (k \in Asked' => creates'[k].exists)
    BY DEF AloneInTime
  <2>1. CASE i \in DOMAIN creates /\ k \in DOMAIN creates
    BY <1>1, <1>5, <1>u, <2>1 DEF GuildIInv, AloneInTime
  <2>2. CASE i = Len(creates') \/ k = Len(creates')
    <3>1. creates'[i].join = joins /\ joins \notin recent
      BY <1>2, <1>u, <2>2
    <3>2. k = Len(creates') => k \notin Asked
      BY <1>1 DEF Asked
    <3> QED
      BY <1>2, <1>5, <1>u, <2>2, <3>1, <3>2
  <2> QED
    BY <1>1, <2>1, <2>2
<1>8. JoinsHandled'
  BY <1>0, <1>1, <1>2, <1>u DEF GuildIInv, JoinsHandled
<1> QED
  BY <1>3, <1>4, <1>6, <1>7, <1>8 DEF GuildIInv

LEMMA TimeStep ==
    ASSUME GuildIInv, Leave \/ MinutePasses
    PROVE  GuildIInv'
<1>1. /\ UNCHANGED <<setting, config, faults, joins, creates, excused>>
      /\ member' \in BOOLEAN /\ (member' => member)
      /\ recent' \subseteq recent
  <2>1. member \in BOOLEAN
    BY DEF GuildIInv, GuildTypeOK
  <2>2. CASE Leave
    BY <2>1, <2>2, Zenon DEF Leave
  <2>3. CASE MinutePasses
    BY <2>1, <2>3, Zenon DEF MinutePasses
  <2> QED
    BY <2>2, <2>3
<1>2. GuildTypeOK'
  BY <1>1 DEF GuildIInv, GuildTypeOK
<1>3. Asked' = Asked
  BY <1>1 DEF Asked
<1>4. HandlersLog' /\ RowMadeOnce' /\ AloneInTime' /\ JoinsHandled'
  BY <1>1, <1>3 DEF GuildIInv, HandlersLog, RowMadeOnce, AloneInTime, JoinsHandled
<1> QED
  BY <1>2, <1>4 DEF GuildIInv

LEMMA CreateGuildStep ==
    ASSUME GuildIInv, NEW i \in DOMAIN creates, CreateGuild(i) \/ CreateGuildFails(i)
    PROVE  GuildIInv'
<1>1. PICK exists \in BOOLEAN : 
         /\ creates[i].step = "begun" /\ Created(i, exists)
         /\ UNCHANGED <<setting, member, joins, recent>>
         /\ faults' \in 0..MaxFaults
         /\ \/ /\ exists = (config # NoRow) /\ excused' = excused
               /\ config' = IF config = NoRow THEN NewRow ELSE config
            \/ exists = FALSE /\ config' = config /\ excused' = excused \cup {creates[i].join}
  <2>1. CASE CreateGuild(i)
    BY <2>1 DEF GuildIInv, GuildTypeOK, CreateGuild
  <2>2. CASE CreateGuildFails(i)
    BY <2>2, FaultFacts DEF GuildIInv, CreateGuildFails
  <2> QED
    BY <2>1, <2>2
<1>2. /\ creates \in Seq(Handler) /\ creates' \in Seq(Handler)
      /\ Len(creates') = Len(creates) /\ DOMAIN creates' = DOMAIN creates
      /\ \A k \in DOMAIN creates \ {i} : creates'[k] = creates[k]
      /\ creates'[i].join = creates[i].join
      /\ creates'[i].step = "created"
      /\ creates'[i].exists = exists
      /\ creates'[i].inTime = creates[i].inTime
      /\ creates'[i].logged = creates[i].logged
  <2>1. creates \in Seq(Handler)
    BY DEF GuildIInv, GuildTypeOK
  <2> QED
    BY <1>1, <2>1, CreatedFacts
<1>3. /\ \A k \in DOMAIN creates : creates'[k].join = creates[k].join
      /\ \A k \in DOMAIN creates : creates'[k].inTime = creates[k].inTime
  BY <1>2
<1>4. GuildTypeOK'
  <2>1. creates[i].join \in 0..joins
    <3>1. creates[i].join \in Nat /\ creates[i].join <= joins /\ joins \in Nat
      BY <1>2, HandlerJoin, SettingFacts DEF GuildIInv, GuildTypeOK
    <3> QED
      BY <3>1
  <2> QED
    BY <1>1, <1>2, <1>3, <2>1, NewRowIsTargets DEF GuildIInv, GuildTypeOK
<1>5. HandlersLog'
  BY <1>1, <1>2 DEF GuildIInv, HandlersLog
<1>6. Asked' \subseteq Asked \cup {i} /\ i \notin Asked
  BY <1>1, <1>2 DEF Asked
<1>7. CASE excused' # excused
  <2>1. i \notin Asked' /\ exists = FALSE /\ config' = config
    BY <1>1, <1>3, <1>7 DEF Asked
  <2>2. RowMadeOnce'
    <3>1. \A k \in Asked' : k \in Asked /\ creates'[k] = creates[k]
      BY <1>2, <1>6, <2>1 DEF Asked
    <3> QED
      BY <1>1, <1>2, <2>1, <3>1 DEF GuildIInv, RowMadeOnce
  <2>3. AloneInTime'
    <3>1. excused \subseteq excused' /\ recent' = recent
      BY <1>1
    <3> QED
      BY <1>2, <1>3, <1>6, <2>1, <3>1 DEF GuildIInv, AloneInTime
  <2>4. JoinsHandled'
    BY <1>1, <1>2, <1>3 DEF GuildIInv, JoinsHandled
  <2> QED
    BY <1>4, <1>5, <2>2, <2>3, <2>4 DEF GuildIInv
<1>8. CASE excused' = excused /\ config = NoRow
  <2>1. Asked = {} /\ setting.config = NoRow
    BY <1>8 DEF GuildIInv, RowMadeOnce
  <2>2. exists = FALSE
    BY <1>1, <1>8
  <2>3. RowMadeOnce'
    BY <1>1, <1>2, <1>6, <2>1, <2>2, <1>8, NewRowIsTargets DEF GuildIInv, RowMadeOnce, Asked
  <2>4. AloneInTime'
    <3>1. \A k \in DOMAIN creates : creates[k].join \notin excused => ~creates[k].inTime
      BY <2>1 DEF GuildIInv, HandlersLog, Asked
    <3> QED
      BY <1>1, <1>2, <1>3, <1>8, <3>1 DEF GuildIInv, AloneInTime
  <2>5. JoinsHandled'
    BY <1>1, <1>2, <1>3 DEF GuildIInv, JoinsHandled
  <2> QED
    BY <1>4, <1>5, <2>3, <2>4, <2>5 DEF GuildIInv
<1>9. CASE excused' = excused /\ config # NoRow
  <2>1. config' # NoRow
    BY <1>1, <1>9
  <2>2. exists = TRUE \/ i \notin Asked'
    BY <1>1, <1>2, <1>9 DEF Asked
  <2>3. RowMadeOnce'
    <3>1. \A k \in Asked' \ {i} : k \in Asked /\ creates'[k] = creates[k]
      BY <1>2, <1>6 DEF Asked
    <3>2. i \in Asked' => creates'[i].exists
      BY <1>2, <2>2
    <3> QED
      BY <1>1, <1>2, <2>1, <3>1, <3>2 DEF GuildIInv, RowMadeOnce
  <2>4. AloneInTime'
    <3>1. excused' = excused /\ recent' = recent
      BY <1>1, <1>9
    <3> QED
      BY <1>2, <1>3, <1>6, <2>2, <3>1 DEF GuildIInv, AloneInTime
  <2>5. JoinsHandled'
    BY <1>1, <1>2, <1>3 DEF GuildIInv, JoinsHandled
  <2> QED
    BY <1>4, <1>5, <2>3, <2>4, <2>5 DEF GuildIInv
<1> QED
  BY <1>7, <1>8, <1>9

LEMMA LogJoinStep ==
    ASSUME GuildIInv, NEW i \in DOMAIN creates, LogJoin(i)
    PROVE  GuildIInv'
<1>1. /\ creates[i].step = "created"
      /\ UNCHANGED <<setting, config, faults, member, joins, recent, excused>>
  BY DEF LogJoin
<1>2. /\ creates \in Seq(Handler) /\ creates' \in Seq(Handler)
      /\ Len(creates') = Len(creates) /\ DOMAIN creates' = DOMAIN creates
      /\ \A k \in DOMAIN creates \ {i} : creates'[k] = creates[k]
      /\ creates'[i].join = creates[i].join
      /\ creates'[i].step = "done"
      /\ creates'[i].exists = creates[i].exists
      /\ (creates'[i].inTime) = (creates[i].join \in recent)
      /\ creates'[i].logged = (ShouldLog /\ (creates'[i].inTime \/ ~creates[i].exists))
  <2>1. creates \in Seq(Handler)
    BY DEF GuildIInv, GuildTypeOK
  <2> QED
    BY <2>1, LogJoinFacts
<1>3. /\ \A k \in DOMAIN creates : creates'[k].join = creates[k].join
      /\ \A k \in DOMAIN creates : creates'[k].exists = creates[k].exists
      /\ \A k \in DOMAIN creates : (creates'[k].step # "begun") = (creates[k].step # "begun")
  BY <1>1, <1>2
<1>4. Asked' = Asked
  BY <1>1, <1>2, <1>3 DEF Asked
<1>5. GuildTypeOK'
  BY <1>1, <1>2, <1>3 DEF GuildIInv, GuildTypeOK
<1>6. HandlersLog'
  BY <1>1, <1>2 DEF GuildIInv, HandlersLog
<1>7. RowMadeOnce'
  BY <1>1, <1>2, <1>3, <1>4 DEF GuildIInv, RowMadeOnce, Asked
<1>8. AloneInTime'
  <2> SUFFICES ASSUME NEW h \in DOMAIN creates, NEW k \in DOMAIN creates, h # k,
                      creates[h].join = creates[k].join, creates[h].join \notin excused
               PROVE  /\ creates[h].join \notin recent
                      /\ creates'[h].inTime => ~creates'[k].inTime /\ (k \in Asked => creates[k].exists)
    BY <1>1, <1>2, <1>3, <1>4 DEF AloneInTime
  <2>1. /\ creates[h].join \notin recent
        /\ creates[h].inTime => ~creates[k].inTime /\ (k \in Asked => creates[k].exists)
    BY DEF GuildIInv, AloneInTime
  <2>2. (h = i => ~creates'[h].inTime) /\ (k = i => ~creates'[k].inTime)
    BY <1>2, <2>1
  <2> QED
    BY <1>2, <2>1, <2>2
<1>9. JoinsHandled'
  BY <1>1, <1>2, <1>3 DEF GuildIInv, JoinsHandled
<1> QED
  BY <1>5, <1>6, <1>7, <1>8, <1>9 DEF GuildIInv

LEMMA GuildStep == GuildIInv /\ GuildNext => GuildIInv'
BY JoinStep, AvailableStep, TimeStep, CreateGuildStep, LogJoinStep DEF GuildNext

-----------------------------------------------------------------------------
\* Of two handlers of one join that is not excused, one does not log: if both were
\* within the minute they would be alone with it, and only one finds no row.
LEMMA OneLogs ==
    ASSUME GuildIInv, NEW i \in DOMAIN creates, NEW k \in DOMAIN creates, i # k,
           creates[i].join = creates[k].join, creates[i].join \notin excused,
           creates[i].logged, creates[k].logged
    PROVE  FALSE
<1>1. /\ creates[i].step = "done" /\ (creates[i].inTime \/ ~creates[i].exists)
      /\ creates[k].step = "done" /\ (creates[k].inTime \/ ~creates[k].exists)
  BY DEF GuildIInv, HandlersLog
<1>2. i \in Asked /\ k \in Asked
  BY <1>1 DEF Asked
<1>3. CASE creates[i].inTime
  BY <1>1, <1>2, <1>3 DEF GuildIInv, AloneInTime
<1>4. CASE creates[k].inTime
  BY <1>1, <1>2, <1>4 DEF GuildIInv, AloneInTime
<1>5. CASE ~creates[i].exists /\ ~creates[k].exists
  BY <1>2, <1>5 DEF GuildIInv, RowMadeOnce
<1> QED
  BY <1>1, <1>3, <1>4, <1>5

LEMMA InvariantLogsOnce == GuildIInv => JoinLoggedOnce
<1> SUFFICES ASSUME GuildIInv, NEW j \in (0..joins) \ excused, ShouldLog,
                    \A i \in DOMAIN creates : creates[i].join = j => creates[i].step = "done"
             PROVE  LET handlers == {i \in DOMAIN creates : creates[i].join = j}
                        logs     == {i \in handlers : creates[i].logged}
                        inTime   == \E i \in handlers : creates[i].inTime
                    IN  /\ Cardinality(logs) <= 1
                        /\ inTime \/ (setting.config = NoRow /\ joins = 1) => j = 0 \/ logs # {}
                        /\ ~inTime /\ setting.config # NoRow => logs = {}
  BY Zenon DEF JoinLoggedOnce
<1> DEFINE handlers == {i \in DOMAIN creates : creates[i].join = j}
           logs     == {i \in handlers : creates[i].logged}
           inTime   == \E i \in handlers : creates[i].inTime
<1>1. \A i \in handlers : i \in Asked
  BY DEF Asked
<1>2. \A i \in handlers : creates[i].logged = (creates[i].inTime \/ ~creates[i].exists)
  BY DEF GuildIInv, HandlersLog
<1>3. Cardinality(logs) <= 1
  <2>1. CASE logs = {}
    BY <2>1, FS_EmptySet
  <2>2. CASE logs # {}
    <3>1. PICK i \in logs : TRUE
      BY <2>2
    <3>2. logs = {i}
      BY <3>1, OneLogs
    <3> QED
      BY <3>2, FS_Singleton
  <2> QED
    BY <2>1, <2>2
<1>4. ASSUME inTime PROVE logs # {}
  BY <1>2, <1>4
<1>5. ASSUME setting.config = NoRow, joins = 1, j # 0 PROVE logs # {}
  <2>1. j = 1
    BY <1>5
  <2>2. PICK h \in DOMAIN creates : creates[h].join = 1
    BY <1>5 DEF GuildIInv, JoinsHandled
  <2>3. config # NoRow
    BY <1>1, <2>1, <2>2 DEF GuildIInv, RowMadeOnce
  <2>4. PICK i \in DOMAIN creates : creates[i].step # "begun" /\ ~creates[i].exists
    BY <1>5, <2>3 DEF GuildIInv, RowMadeOnce
  <2>5. creates[i].join \in Nat /\ creates[i].join <= 1 /\ creates[i].join # 0
    BY <1>5, HandlerJoin DEF GuildIInv, GuildTypeOK, JoinsHandled
  <2>6. i \in handlers
    BY <2>1, <2>5
  <2> QED
    BY <1>2, <2>4, <2>6
<1>6. ASSUME ~inTime, setting.config # NoRow PROVE logs = {}
  <2> SUFFICES ASSUME NEW i \in logs PROVE FALSE
    OBVIOUS
  <2>1. ~creates[i].exists /\ i \in Asked
    BY <1>1, <1>2, <1>6
  <2> QED
    BY <1>6, <2>1 DEF GuildIInv, RowMadeOnce
<1> QED
  BY <1>3, <1>4, <1>5, <1>6

-----------------------------------------------------------------------------
(* The menus. *)

\* A press that is taken from the others.
LEMMA TakeFacts ==
    ASSUME NEW S, NEW q \in Seq(S), NEW i \in DOMAIN q
    PROVE  /\ RemoveAt(q, i) \in Seq(S)
           /\ Len(RemoveAt(q, i)) = Len(q) - 1
           /\ Len(q) <= 1 => RemoveAt(q, i) = <<>>
<1>1. i \in 1..Len(q) /\ Len(q) \in Nat
  OBVIOUS
<1>2. /\ SubSeq(q, 1, i - 1) \in Seq(S) /\ Len(SubSeq(q, 1, i - 1)) = i - 1
      /\ SubSeq(q, i + 1, Len(q)) \in Seq(S) /\ Len(SubSeq(q, i + 1, Len(q))) = Len(q) - i
  BY <1>1
<1>3. /\ RemoveAt(q, i) \in Seq(S)
      /\ Len(RemoveAt(q, i)) = Len(SubSeq(q, 1, i - 1)) + Len(SubSeq(q, i + 1, Len(q)))
  BY <1>2, ConcatProperties DEF RemoveAt
<1>4. Len(RemoveAt(q, i)) = Len(q) - 1
  <2>1. (i - 1) + (Len(q) - i) = Len(q) - 1
    BY <1>1
  <2> QED
    BY <1>2, <1>3, <2>1
<1>5. Len(q) <= 1 => RemoveAt(q, i) = <<>>
  BY <1>1, <1>3, <1>4, EmptySeq
<1> QED
  BY <1>3, <1>4, <1>5

LEMMA PressFacts ==
    ASSUME NEW p \in Press
    PROVE  /\ p.kind \in {"event", "select", "reset", "cancel", "close"}
           /\ p.kind = "event" => p.of \in Events
           /\ p.kind = "select" => p.of \in Channels
BY DEF Press

LEMMA NothingFacts == Nothing \notin Events /\ Nothing \notin Channels /\ Nothing # Unset
BY ConfigMenuAssumption

LEMMA OfferedFacts ==
    /\ DOMAIN Offered = {"nothing", "menu", "page"}
    /\ Offered["menu"] = {"event", "close"}
BY DEF Offered

LEMMA TargetFacts ==
    ASSUME NEW row \in Targets, NEW e \in Events, NEW c \in Channels \cup {Unset}
    PROVE  [row EXCEPT ![e] = c] \in Targets
BY DEF Targets

\* What no step of a session changes.
LEMMA SessionFrame ==
    ASSUME IInv, NEW s \in Sessions, Use(s) \/ Work(s) \/ Deadline(s)
    PROVE  /\ UNCHANGED <<setting, guild>>
           /\ faults' \in 0..MaxFaults
           /\ faults # 0 => faults' # 0
<1>1. GuildTypeOK
  BY DEF IInv, GuildIInv
<1>2. UNCHANGED <<setting, guild>>
  BY DEF Use, Work, Deadline
<1>3. Fault \/ faults' = faults
  BY DEF Use, Work, Deadline, Open, OpenWithoutRow, SendPress, Lose, MenuPressed, Pick, Listen,
         OpenPage, LoadPage, PageTimesOut, Save, Respond, Clear, MenuTimesOut
<1> QED
  BY <1>1, <1>2, <1>3, FaultFacts DEF GuildTypeOK, Fault

LEMMA InitInvariant == Init => IInv
<1> SUFFICES ASSUME Init PROVE IInv
  OBVIOUS
<1>1. GuildIInv
  BY GuildInitInvariant DEF Init
<1>2. config \in Targets \cup {NoRow} /\ setting.presses \in Nat
  BY <1>1, SettingFacts DEF GuildIInv, GuildTypeOK
<1>3. TypeOK
  <2>1. {pageEnded, fresh, again} \subseteq [Sessions -> BOOLEAN]
    BY DEF Init
  <2> QED
    BY <1>2, <2>1, NewRowIsTargets DEF Init, TypeOK, Places, Offered
<1>4. RowBeforeMenus /\ \A s \in Sessions : AnswersFollow(s) /\ OnePress(s)
  BY DEF Init, RowBeforeMenus, AnswersFollow, OnePress, Over
<1>5. ChoicesKept
  BY DEF Init, ChoicesKept, Over
<1>6. ClearedUnlessPageEnded /\ CrashTakesSecondPress
  BY DEF Init, ClearedUnlessPageEnded, CrashTakesSecondPress
<1> QED
  BY <1>1, <1>3, <1>4, <1>5, <1>6 DEF IInv

-----------------------------------------------------------------------------
\* No step of a session leaves the types.
LEMMA TypeStep ==
    ASSUME IInv, NEW s \in Sessions, Use(s) \/ Work(s) \/ Deadline(s)
    PROVE  TypeOK' /\ config' \in Targets \cup {NoRow}
<1>0. TypeOK /\ config \in Targets \cup {NoRow} /\ setting.presses \in Nat
  BY SettingFacts DEF IInv, GuildIInv, GuildTypeOK
<1>1. setting' = setting
  BY SessionFrame
<1>2. CASE Open(s)
  <2>1. /\ at' \in [Sessions -> Places]
        /\ at'[s] \notin {"opening", "loading", "page"}
        /\ \A t \in Sessions \ {s} : at'[t] = at[t]
    BY <1>0, <1>2 DEF Open, TypeOK, Places, Go
  <2>2. shown' \in [Sessions -> DOMAIN Offered] /\ fresh' \in [Sessions -> BOOLEAN]
    BY <1>0, <1>2, OfferedFacts DEF Open, TypeOK, Show, Set
  <2>3. copy' \in [Sessions -> Targets] /\ stale' \in [Sessions -> SUBSET Events]
    BY <1>0, <1>2 DEF Open, TypeOK, Set, Pending
  <2>4. UNCHANGED <<config, editing, hctx, pressed, choice, lost, pageEnded, again>>
    BY <1>2 DEF Open
  <2> QED
    BY <1>0, <1>1, <2>1, <2>2, <2>3, <2>4 DEF TypeOK
<1>3. CASE OpenWithoutRow(s)
  BY <1>0, <1>1, <1>3 DEF OpenWithoutRow, TypeOK, Places, Go, Set, ghosts
<1>4. ASSUME NEW p \in Press, SendPress(s, p) PROVE TypeOK' /\ config' \in Targets \cup {NoRow}
  BY <1>0, <1>1, <1>4 DEF SendPress, TypeOK, Set
<1>5. ASSUME NEW i \in DOMAIN pressed[s], Take(s, i)
      PROVE  /\ pressed' \in [Sessions -> Seq(Press)]
             /\ \A t \in Sessions : Len(pressed'[t]) <= setting.presses
  <2>1. RemoveAt(pressed[s], i) \in Seq(Press) /\ Len(RemoveAt(pressed[s], i)) = Len(pressed[s]) - 1
    BY <1>0, TakeFacts DEF TypeOK
  <2> QED
    BY <1>0, <1>5, <2>1 DEF TypeOK, Take, Set
<1>6. ASSUME NEW i \in DOMAIN pressed[s], Lose(s, i)
      PROVE  TypeOK' /\ config' \in Targets \cup {NoRow}
  BY <1>0, <1>1, <1>5, <1>6 DEF Lose, TypeOK, ghosts
<1>7. ASSUME NEW i \in DOMAIN pressed[s], MenuPressed(s, i)
      PROVE  TypeOK' /\ config' \in Targets \cup {NoRow}
  <2>1. pressed[s][i] \in Press
    BY <1>0 DEF TypeOK
  <2> DEFINE p == pressed[s][i]
  <2>2. /\ at' \in [Sessions -> Places]
        /\ \A t \in Sessions \ {s} : at'[t] = at[t]
        /\ at'[s] \in {"opening", "loading", "page"} => p.kind = "event"
    BY <1>0, <1>7 DEF MenuPressed, TypeOK, Places, Go
  <2>3. /\ editing' \in [Sessions -> Events \cup {Nothing}]
        /\ \A t \in Sessions \ {s} : editing'[t] = editing[t]
        /\ p.kind = "event" => editing'[s] # Nothing
    BY <1>0, <1>7, <2>1, PressFacts, NothingFacts DEF MenuPressed, TypeOK, Set
  <2>4. hctx' \in [Sessions -> {"none", "open", "answered"}]
    BY <1>0, <1>7 DEF MenuPressed, TypeOK, Set
  <2>5. UNCHANGED <<config, copy, shown, ghosts>> /\ Take(s, i)
    BY <1>7 DEF MenuPressed
  <2> QED
    BY <1>0, <1>1, <1>5, <2>2, <2>3, <2>4, <2>5 DEF TypeOK, ghosts
<1>8. ASSUME NEW i \in DOMAIN pressed[s], Pick(s, i)
      PROVE  TypeOK' /\ config' \in Targets \cup {NoRow}
  <2>1. pressed[s][i] \in Press /\ editing[s] \in Events
    BY <1>0, <1>8 DEF TypeOK, Pick
  <2>2. ASSUME NEW c \in Channels \cup {Unset}, Choose(s, editing[s], c)
        PROVE  copy' \in [Sessions -> Targets] /\ choice' \in Targets /\ stale' \in [Sessions -> SUBSET Events]
    <3>1. copy[s] \in Targets /\ choice \in Targets /\ stale \in [Sessions -> SUBSET Events]
      BY <1>0 DEF TypeOK
    <3>2. [copy[s] EXCEPT ![editing[s]] = c] \in Targets /\ [choice EXCEPT ![editing[s]] = c] \in Targets
      BY <2>1, <3>1, TargetFacts
    <3>3. copy' = [copy EXCEPT ![s] = [copy[s] EXCEPT ![editing[s]] = c]]
      BY <2>2 DEF Choose
    <3> QED
      BY <1>0, <2>1, <2>2, <3>1, <3>2, <3>3 DEF TypeOK, Choose
  <2>3. copy' \in [Sessions -> Targets] /\ choice' \in Targets /\ stale' \in [Sessions -> SUBSET Events]
    BY <1>0, <1>8, <2>1, <2>2, PressFacts, Zenon DEF Pick, TypeOK
  <2>4. /\ hctx' \in [Sessions -> {"none", "open", "answered"}]
        /\ UNCHANGED <<config, editing, shown, lost, pageEnded, fresh, again>>
        /\ Take(s, i) /\ Go(s, "saving")
    BY <1>0, <1>8 DEF Pick, TypeOK, Set
  <2> QED
    BY <1>0, <1>1, <1>5, <2>3, <2>4 DEF TypeOK, Places, Go
<1>9. CASE Listen(s)
  BY <1>0, <1>1, <1>9 DEF Listen, TypeOK, Places, Go, ghosts
<1>10. CASE OpenPage(s)
  <2>1. /\ at' \in [Sessions -> Places]
        /\ \A t \in Sessions : at'[t] = at[t] \/ at[t] = "opening"
    BY <1>0, <1>10 DEF OpenPage, TypeOK, Places, Go
  <2>2. shown' \in [Sessions -> DOMAIN Offered] /\ fresh' \in [Sessions -> BOOLEAN]
    BY <1>0, <1>10, OfferedFacts DEF OpenPage, TypeOK, Show, Set
  <2>3. hctx' \in [Sessions -> {"none", "open", "answered"}]
    BY <1>0, <1>10 DEF OpenPage, TypeOK, Set
  <2>4. UNCHANGED <<config, copy, editing, pressed, choice, stale, lost, pageEnded, again>>
    BY <1>10 DEF OpenPage
  <2> QED
    BY <1>0, <1>1, <2>1, <2>2, <2>3, <2>4 DEF TypeOK
<1>11. CASE LoadPage(s)
  BY <1>0, <1>1, <1>11 DEF LoadPage, TypeOK, Places, Go, ghosts
<1>12. CASE PageTimesOut(s)
  BY <1>0, <1>1, <1>12 DEF PageTimesOut, TypeOK, Places, Go, Set
<1>13. CASE Save(s)
  <2>1. /\ at' \in [Sessions -> Places]
        /\ at'[s] \notin {"opening", "loading", "page"}
        /\ \A t \in Sessions \ {s} : at'[t] = at[t]
    BY <1>0, <1>13 DEF Save, TypeOK, Places, Go
  <2>2. /\ editing' \in [Sessions -> Events \cup {Nothing}]
        /\ \A t \in Sessions \ {s} : editing'[t] = editing[t]
    BY <1>0, <1>13 DEF Save, TypeOK, Set
  <2>3. config' \in Targets \cup {NoRow} /\ lost' \subseteq Events
    BY <1>0, <1>13 DEF Save, TypeOK
  <2>4. UNCHANGED <<copy, hctx, shown, pressed, choice, stale, pageEnded, fresh, again>>
    BY <1>13 DEF Save
  <2> QED
    BY <1>0, <1>1, <2>1, <2>2, <2>3, <2>4 DEF TypeOK
<1>14. CASE Respond(s)
  <2>1. /\ at' \in [Sessions -> Places]
        /\ at'[s] \notin {"opening", "loading", "page"}
        /\ \A t \in Sessions \ {s} : at'[t] = at[t]
    BY <1>0, <1>14 DEF Respond, TypeOK, Places, Go
  <2>2. shown' \in [Sessions -> DOMAIN Offered] /\ fresh' \in [Sessions -> BOOLEAN]
    BY <1>0, <1>14, OfferedFacts DEF Respond, TypeOK, Show, Set
  <2>3. hctx' \in [Sessions -> {"none", "open", "answered"}]
    BY <1>0, <1>14 DEF Respond, TypeOK, Set
  <2>4. UNCHANGED <<config, copy, editing, pressed, choice, stale, lost, pageEnded, again>>
    BY <1>14 DEF Respond
  <2> QED
    BY <1>0, <1>1, <2>1, <2>2, <2>3, <2>4 DEF TypeOK
<1>15. CASE Clear(s)
  <2>1. /\ at' \in [Sessions -> Places]
        /\ at'[s] \notin {"opening", "loading", "page"}
        /\ \A t \in Sessions \ {s} : at'[t] = at[t]
    BY <1>0, <1>15 DEF Clear, TypeOK, Places, Go
  <2>2. shown' \in [Sessions -> DOMAIN Offered] /\ fresh' \in [Sessions -> BOOLEAN]
    BY <1>0, <1>15, OfferedFacts DEF Clear, TypeOK, Show, Set
  <2>3. UNCHANGED <<config, copy, editing, hctx, pressed, choice, stale, lost, pageEnded, again>>
    BY <1>15 DEF Clear
  <2> QED
    BY <1>0, <1>1, <2>1, <2>2, <2>3 DEF TypeOK
<1>16. CASE MenuTimesOut(s)
  BY <1>0, <1>1, <1>16 DEF MenuTimesOut, TypeOK, Places, Go, ghosts
<1> QED
  BY <1>2, <1>3, <1>4, <1>6, <1>7, <1>8, <1>9, <1>10, <1>11, <1>12, <1>13, <1>14, <1>15, <1>16
     DEF Use, Work, Deadline
-----------------------------------------------------------------------------
\* What the invariant says of one session.
SessionOK(s) ==
    /\ AnswersFollow(s)
    /\ OnePress(s)
    /\ at[s] = "ended" /\ faults = 0 /\ ~pageEnded[s] => shown[s] = "nothing"
    /\ at[s] = "crashed" => again[s]

LEMMA SessionsOK == IInv => \A s \in Sessions : SessionOK(s)
BY DEF IInv, SessionOK, ClearedUnlessPageEnded, CrashTakesSecondPress

\* A step of one session leaves the others as they are.
LEMMA OthersStay ==
    ASSUME IInv, NEW s \in Sessions, Use(s) \/ Work(s) \/ Deadline(s), NEW t \in Sessions \ {s}
    PROVE  SessionOK(t)'
<1>0. TypeOK /\ SessionOK(t)
  BY SessionsOK DEF IInv
<1>1. faults # 0 => faults' # 0
  BY SessionFrame
<1>2. /\ at'[t] = at[t] /\ hctx'[t] = hctx[t] /\ shown'[t] = shown[t]
      /\ pressed'[t] = pressed[t]
  BY <1>0 DEF TypeOK, Use, Work, Deadline, Open, OpenWithoutRow, SendPress, Lose, MenuPressed,
         Pick, Listen, OpenPage, LoadPage, PageTimesOut, Save, Respond, Clear, MenuTimesOut,
         Go, Set, Show, Take
<1>3. pageEnded'[t] = pageEnded[t] /\ fresh'[t] = fresh[t] /\ again'[t] = again[t]
  BY <1>0 DEF TypeOK, Use, Work, Deadline, Open, OpenWithoutRow, SendPress, Lose, MenuPressed,
         Pick, Listen, OpenPage, LoadPage, PageTimesOut, Save, Respond, Clear, MenuTimesOut,
         Set, Show, ghosts
<1> QED
  BY <1>0, <1>1, <1>2, <1>3 DEF SessionOK, AnswersFollow, OnePress
\* What comes of a press on one session.
LEMMA UsedSessionOK ==
    ASSUME IInv, NEW s \in Sessions, Use(s)
    PROVE  SessionOK(s)'
<1>0. TypeOK /\ SessionOK(s) /\ (faults # 0 => faults' # 0)
  BY SessionsOK, SessionFrame DEF IInv
<1>1. CASE Open(s)
  <2>1. /\ at[s] = "unopened" /\ pressed' = pressed /\ shown[s] = "nothing" /\ pressed[s] = <<>>
        /\ \/ at'[s] = "starting" /\ shown'[s] = "menu"
           \/ at'[s] = "ended" /\ faults' # 0 /\ shown'[s] = "nothing"
    BY <1>0, <1>1, FaultFacts DEF Open, TypeOK, Go, Show, Set, SessionOK, AnswersFollow, IInv, GuildIInv
  <2> QED
    BY <2>1 DEF SessionOK, AnswersFollow, OnePress, Over
<1>2. CASE OpenWithoutRow(s)
  <2>1. at[s] = "unopened" /\ at'[s] = "ended" /\ shown' = shown
    BY <1>0, <1>2 DEF OpenWithoutRow, TypeOK, Go
  <2> QED
    BY <1>0, <2>1 DEF SessionOK, AnswersFollow, OnePress, Over
<1>3. ASSUME NEW p \in Press, SendPress(s, p) PROVE SessionOK(s)'
  <2>1. /\ at[s] \notin Over /\ UNCHANGED <<at, hctx, shown, pageEnded>>
        /\ p.kind \in Offered[shown[s]]
        /\ pressed'[s] = Append(pressed[s], p) /\ pressed[s] \in Seq(Press)
    BY <1>0, <1>3 DEF SendPress, TypeOK, Set
  <2>2. fresh'[s] = FALSE
    BY <1>0, <1>3 DEF SendPress, TypeOK, Set
  <2>3. again'[s] = (again[s] \/ ~fresh[s])
    BY <1>0, <1>3, Zenon DEF SendPress, TypeOK, Set
  <2>4. AnswersFollow(s)'
    BY <1>0, <2>1, <2>3 DEF SessionOK, AnswersFollow, Over
  <2>5. ASSUME ~again'[s] PROVE OnePress(s)'
    <3>1. ~again[s] /\ fresh[s] /\ pressed[s] = <<>>
      BY <1>0, <2>1, <2>3, <2>5 DEF SessionOK, OnePress
    <3>2. Len(pressed'[s]) = 1 /\ \A i \in DOMAIN pressed'[s] : pressed'[s][i] = p
      BY <2>1, <3>1
    <3> QED
      BY <1>0, <2>1, <2>2, <3>1, <3>2 DEF SessionOK, OnePress
  <2>6. OnePress(s)'
    BY <2>5 DEF OnePress
  <2> QED
    BY <2>1, <2>4, <2>6 DEF SessionOK, Over
<1>4. ASSUME NEW i \in DOMAIN pressed[s], Take(s, i)
      PROVE  /\ pressed[s][i] \in Press
             /\ ~again[s] /\ at[s] \notin Over =>
                   pressed'[s] = <<>> /\ ~fresh[s] /\ pressed[s][i].kind \in Offered[shown[s]]
  <2>1. pressed[s] \in Seq(Press) /\ pressed'[s] = RemoveAt(pressed[s], i)
    BY <1>0, <1>4 DEF TypeOK, Take, Set
  <2> QED
    BY <1>0, <2>1, TakeFacts DEF SessionOK, OnePress
<1>5. ASSUME NEW i \in DOMAIN pressed[s], Lose(s, i) PROVE SessionOK(s)'
  <2>1. UNCHANGED <<at, hctx, shown, pageEnded, fresh, again>> /\ Take(s, i)
    BY <1>5 DEF Lose, ghosts
  <2>2. at[s] # "unopened"
    BY <1>0 DEF SessionOK, AnswersFollow
  <2> QED
    BY <1>0, <1>4, <2>1, <2>2 DEF SessionOK, AnswersFollow, OnePress
<1>6. ASSUME NEW i \in DOMAIN pressed[s], MenuPressed(s, i) PROVE SessionOK(s)'
  <2>1. at[s] = "menu" /\ UNCHANGED <<shown, pageEnded, fresh, again>> /\ Take(s, i)
    BY <1>6 DEF MenuPressed, ghosts
  <2>2. \/ at'[s] = "closing"
        \/ at'[s] = "opening" /\ hctx'[s] = "open"
        \/ at'[s] = "saving" /\ hctx'[s] = "none" /\ pressed[s][i].kind \notin Offered["menu"]
    BY <1>0, <1>6, OfferedFacts DEF MenuPressed, TypeOK, Go, Set
  <2>3. shown[s] = "menu"
    BY <1>0, <2>1 DEF SessionOK, AnswersFollow
  <2>4. ~again[s] => pressed'[s] = <<>> /\ ~fresh[s] /\ pressed[s][i].kind \in Offered["menu"]
    BY <1>4, <2>1, <2>3 DEF Over
  <2> QED
    BY <2>1, <2>2, <2>3, <2>4 DEF SessionOK, AnswersFollow, OnePress, Over
<1>7. ASSUME NEW i \in DOMAIN pressed[s], Pick(s, i) PROVE SessionOK(s)'
  <2>1. /\ at[s] = "page" /\ UNCHANGED <<shown, pageEnded, fresh, again>> /\ Take(s, i)
        /\ at'[s] = "saving"
    BY <1>0, <1>7 DEF Pick, TypeOK, Go
  <2>2. hctx'[s] = "open" \/ (hctx'[s] = "answered" /\ faults' # 0)
    <3>1. hctx[s] = "answered"
      BY <1>0, <2>1 DEF SessionOK, AnswersFollow
    <3> QED
      BY <1>0, <1>7, <3>1, FaultFacts DEF Pick, TypeOK, Set, IInv, GuildIInv
  <2>3. ~again[s] => pressed'[s] = <<>> /\ ~fresh[s]
    BY <1>4, <2>1 DEF Over
  <2> QED
    BY <2>1, <2>2, <2>3 DEF SessionOK, AnswersFollow, OnePress
<1> QED
  BY <1>1, <1>2, <1>3, <1>5, <1>6, <1>7 DEF Use

\* The steps of the bot and of time.
LEMMA WorkedSessionOK ==
    ASSUME IInv, NEW s \in Sessions, Work(s) \/ Deadline(s)
    PROVE  SessionOK(s)'
<1>0. TypeOK /\ SessionOK(s) /\ (faults # 0 => faults' # 0) /\ (Fault => faults' # 0)
  BY SessionsOK, SessionFrame, FaultFacts DEF IInv, GuildIInv
<1>1. CASE Listen(s)
  <2>1. /\ UNCHANGED <<hctx, shown, pressed, pageEnded, fresh, again>>
        /\ shown[s] = "menu" /\ at[s] \notin Over
        /\ at'[s] \in {"menu", "closing"} \/ (at'[s] = "ended" /\ faults' # 0)
    BY <1>0, <1>1 DEF Listen, TypeOK, Go, ghosts, SessionOK, AnswersFollow, Over
  <2> QED
    BY <1>0, <2>1 DEF SessionOK, AnswersFollow, OnePress, Over
<1>2. CASE OpenPage(s)
  <2>1. /\ UNCHANGED <<pressed, pageEnded, again>> /\ at[s] = "opening" /\ hctx[s] = "open"
        /\ \/ at'[s] = "loading" /\ hctx'[s] = "answered"
           \/ at'[s] = "saving" /\ hctx'[s] = "open" /\ shown' = shown /\ fresh' = fresh
    BY <1>0, <1>2 DEF OpenPage, TypeOK, Go, Set, SessionOK, AnswersFollow
  <2>2. ~again[s] => pressed[s] = <<>> /\ ~fresh[s]
    BY <1>0, <2>1 DEF SessionOK, OnePress, Over
  <2> QED
    BY <2>1, <2>2 DEF SessionOK, AnswersFollow, OnePress
<1>3. CASE LoadPage(s)
  <2>1. /\ UNCHANGED <<hctx, shown, pressed, pageEnded, fresh, again>>
        /\ at[s] = "loading" /\ hctx[s] = "answered"
        /\ at'[s] = "page" \/ (at'[s] = "saving" /\ faults' # 0)
    BY <1>0, <1>3 DEF LoadPage, TypeOK, Go, ghosts, SessionOK, AnswersFollow
  <2> QED
    BY <1>0, <2>1 DEF SessionOK, AnswersFollow, OnePress, Over
<1>4. CASE PageTimesOut(s)
  <2>1. /\ UNCHANGED <<hctx, shown, pressed, fresh, again>>
        /\ at[s] = "page" /\ hctx[s] = "answered" /\ at'[s] = "saving"
    BY <1>0, <1>4 DEF PageTimesOut, TypeOK, Go, SessionOK, AnswersFollow
  <2>2. pageEnded'[s] = TRUE
    BY <1>0, <1>4 DEF PageTimesOut, TypeOK, Set
  <2> QED
    BY <1>0, <2>1, <2>2 DEF SessionOK, AnswersFollow, OnePress, Over
<1>5. CASE Save(s)
  <2>1. /\ UNCHANGED <<hctx, shown, pressed, pageEnded, fresh, again>>
        /\ at[s] = "saving"
        /\ \/ at'[s] = "responding"
           \/ at'[s] = "crashed" /\ hctx[s] = "none"
           \/ at'[s] = "ended" /\ faults' # 0
    BY <1>0, <1>5 DEF Save, TypeOK, Go
  <2> QED
    BY <1>0, <2>1 DEF SessionOK, AnswersFollow, OnePress, Over
<1>6. CASE Respond(s)
  <2>1. /\ UNCHANGED <<pressed, pageEnded, again>> /\ at[s] = "responding"
        /\ \/ at'[s] = "returning" /\ hctx[s] = "open" /\ shown'[s] = "menu"
           \/ at'[s] = "crashed" /\ hctx[s] = "none"
           \/ at'[s] = "ended" /\ (faults' # 0 \/ hctx[s] = "answered")
    BY <1>0, <1>6 DEF Respond, TypeOK, Go, Show, Set
  <2>2. ~again[s] /\ hctx[s] = "open" => pressed[s] = <<>>
    BY <1>0, <2>1 DEF SessionOK, OnePress, Over
  <2> QED
    BY <1>0, <2>1, <2>2 DEF SessionOK, AnswersFollow, OnePress, Over
<1>7. CASE Clear(s)
  <2>1. at'[s] = "ended" /\ (shown'[s] = "nothing" \/ faults' # 0)
    BY <1>0, <1>7 DEF Clear, TypeOK, Go, Show, Set
  <2> QED
    BY <2>1 DEF SessionOK, AnswersFollow, OnePress, Over
<1>8. CASE MenuTimesOut(s)
  <2>1. at[s] = "menu" /\ at'[s] = "closing" /\ UNCHANGED <<shown, pressed, fresh, again>>
    BY <1>0, <1>8 DEF MenuTimesOut, TypeOK, Go, ghosts
  <2> QED
    BY <1>0, <2>1 DEF SessionOK, AnswersFollow, OnePress, Over
<1> QED
  BY <1>1, <1>2, <1>3, <1>4, <1>5, <1>6, <1>7, <1>8 DEF Work, Deadline
-----------------------------------------------------------------------------
\* No row, no menu: only a menu writes to the row, and none is open.
LEMMA RowStep ==
    ASSUME IInv, NEW s \in Sessions, Use(s) \/ Work(s) \/ Deadline(s)
    PROVE  RowBeforeMenus' /\ (config' = NoRow) = (config = NoRow)
<1>0. TypeOK /\ RowBeforeMenus /\ SessionOK(s)
  BY SessionsOK DEF IInv
<1>1. CASE config = NoRow
  <2>1. at[s] \in {"unopened", "ended"} /\ choice = NewRow
    BY <1>0, <1>1 DEF RowBeforeMenus
  <2>2. /\ OpenWithoutRow(s) \/ \E i \in DOMAIN pressed[s] : Lose(s, i)
    BY <1>1, <2>1 DEF Use, Work, Deadline, Open, SendPress, MenuPressed, Pick, Listen,
       OpenPage, LoadPage, PageTimesOut, Save, Respond, Clear, MenuTimesOut, Over
  <2>3. /\ config' = config /\ choice' = choice
        /\ \A t \in Sessions : at'[t] = at[t] \/ at'[t] = "ended"
    BY <1>0, <2>2 DEF OpenWithoutRow, Lose, ghosts, TypeOK, Go
  <2> QED
    BY <1>0, <1>1, <2>1, <2>3 DEF RowBeforeMenus
<1>2. CASE config # NoRow
  <2>1. config' = config \/ config' \in Targets
    BY <1>0 DEF Use, Work, Deadline, Open, OpenWithoutRow, SendPress, Lose, MenuPressed, Pick,
       Listen, OpenPage, LoadPage, PageTimesOut, Save, Respond, Clear, MenuTimesOut, TypeOK
  <2>2. config' # NoRow
    BY <1>2, <2>1, GuildLogAssumption
  <2> QED
    BY <1>2, <2>2 DEF RowBeforeMenus
<1> QED
  BY <1>1, <1>2

\* A choice is kept by the step of a session that leaves the choices, the row and
\* the copies of open menus, and saves nothing.
LEMMA QuietStep ==
    ASSUME TypeOK, ChoicesKept, NEW s \in Sessions, config # NoRow,
           UNCHANGED <<config, choice, stale, lost, copy>>,
           at[s] # "saving",
           \A t \in Sessions \ {s} : at'[t] = at[t] /\ editing'[t] = editing[t],
           at[s] \in Over => at'[s] \in Over
    PROVE  ChoicesKept'
<1>1. Pending \subseteq Pending'
  BY DEF Pending
<1> QED
  BY <1>1 DEF ChoicesKept

LEMMA ChoiceStep ==
    ASSUME IInv, NEW s \in Sessions, Use(s) \/ Work(s) \/ Deadline(s)
    PROVE  ChoicesKept'
<1>0. TypeOK /\ ChoicesKept /\ SessionOK(s)
  BY SessionsOK DEF IInv
<1>1. CASE config = NoRow
  BY <1>1, RowStep DEF ChoicesKept
<1> SUFFICES ASSUME config # NoRow PROVE ChoicesKept'
  BY <1>1
<1>2. CASE Open(s)
  <2>1. /\ UNCHANGED <<config, choice, lost, editing>> /\ at[s] = "unopened"
        /\ copy'[s] = config /\ stale'[s] = lost \cup Pending /\ at'[s] # "saving"
    BY <1>0, <1>2 DEF Open, TypeOK, Set, Go
  <2>2. \A t \in Sessions \ {s} : at'[t] = at[t] /\ copy'[t] = copy[t] /\ stale'[t] = stale[t]
    BY <1>0, <1>2 DEF Open, TypeOK, Set, Go
  <2>3. Pending' = Pending
    <3>1. {t \in Sessions : at'[t] = "saving"} = {t \in Sessions : at[t] = "saving"}
      BY <2>1, <2>2
    <3> QED
      BY <2>1, <3>1 DEF Pending
  <2> QED
    BY <1>0, <2>1, <2>2, <2>3 DEF ChoicesKept
<1>3. ASSUME NEW i \in DOMAIN pressed[s], Pick(s, i) PROVE ChoicesKept'
  <2>1. /\ at[s] = "page" /\ editing[s] \in Events /\ pressed[s][i] \in Press
        /\ UNCHANGED <<config, editing, lost>> /\ at'[s] = "saving"
        /\ \A t \in Sessions \ {s} : at'[t] = at[t]
    BY <1>0, <1>3 DEF Pick, TypeOK, Go
  <2>2. Pending \subseteq Pending' /\ editing[s] \in Pending'
    BY <2>1 DEF Pending
  <2>3. \A t \in Sessions : at'[t] \notin Over => at[t] \notin Over
    BY <2>1 DEF Over
  <2>4. ASSUME NEW c, Choose(s, editing[s], c) PROVE ChoicesKept'
    <3> DEFINE e == editing[s]
    <3>1. /\ choice'[e] = c /\ \A f \in Events \ {e} : choice'[f] = choice[f]
          /\ copy'[s][e] = c /\ \A f \in Events \ {e} : copy'[s][f] = copy[s][f]
          /\ \A t \in Sessions \ {s} : copy'[t] = copy[t]
      BY <1>0, <2>1, <2>4 DEF Choose, TypeOK, Targets
    <3>2. /\ stale'[s] = stale[s] \ {e}
          /\ \A t \in Sessions \ {s} : stale'[t] = stale[t] \cup {e}
      BY <1>0, <2>4 DEF Choose
    <3> HIDE DEF e
    <3>3. e = editing[s]
      BY DEF e
    <3> QED
      BY <1>0, <2>1, <2>2, <2>3, <3>1, <3>2, <3>3 DEF ChoicesKept
  <2>5. CASE UNCHANGED <<copy, choice, stale>>
    BY <1>0, <2>1, <2>5, QuietStep DEF Over
  <2> QED
    BY <1>3, <2>4, <2>5, Zenon DEF Pick
<1>4. CASE Save(s)
  <2>1. /\ at[s] = "saving" /\ UNCHANGED <<copy, choice, stale>>
        /\ \A t \in Sessions \ {s} : at'[t] = at[t] /\ editing'[t] = editing[t]
    BY <1>0, <1>4 DEF Save, TypeOK, Go, Set
  <2>2. \A t \in Sessions : at'[t] \notin Over => at[t] \notin Over
    BY <2>1 DEF Over
  <2>3. CASE config' = copy[s] /\ lost' = stale[s]
    BY <1>0, <2>1, <2>2, <2>3 DEF ChoicesKept, Over
  <2>4. CASE config' = config /\ lost' = lost \cup ({editing[s]} \cap Events)
    <3>1. lost \cup Pending \subseteq lost' \cup Pending'
      BY <2>1, <2>4 DEF Pending
    <3> QED
      BY <1>0, <2>1, <2>2, <2>4, <3>1 DEF ChoicesKept
  <2> QED
    BY <1>4, <2>3, <2>4 DEF Save
<1>5. ASSUME NEW p \in Press, SendPress(s, p) PROVE ChoicesKept'
  BY <1>0, <1>5 DEF SendPress, ChoicesKept, Pending
<1>6. ASSUME NEW i \in DOMAIN pressed[s], Lose(s, i) PROVE ChoicesKept'
  BY <1>0, <1>6 DEF Lose, ChoicesKept, Pending, ghosts
<1>7. ASSUME NEW i \in DOMAIN pressed[s], MenuPressed(s, i) PROVE ChoicesKept'
  <2>1. /\ UNCHANGED <<config, choice, stale, lost, copy>> /\ at[s] = "menu"
        /\ \A t \in Sessions \ {s} : at'[t] = at[t] /\ editing'[t] = editing[t]
    BY <1>0, <1>7 DEF MenuPressed, TypeOK, Go, Set, ghosts
  <2> QED
    BY <1>0, <2>1, QuietStep DEF Over
<1>8. CASE OpenWithoutRow(s)
  BY <1>8 DEF OpenWithoutRow
<1>9. CASE Listen(s) \/ OpenPage(s) \/ LoadPage(s) \/ PageTimesOut(s)
           \/ Respond(s) \/ Clear(s) \/ MenuTimesOut(s)
  <2>1. /\ UNCHANGED <<config, choice, stale, lost, copy, editing>>
        /\ at[s] \notin Over \cup {"saving"}
        /\ \A t \in Sessions \ {s} : at'[t] = at[t]
    BY <1>0, <1>9 DEF Listen, OpenPage, LoadPage, PageTimesOut, Respond, Clear, MenuTimesOut,
       TypeOK, Go, ghosts, Over
  <2> QED
    BY <1>0, <2>1, QuietStep
<1> QED
  BY <1>2, <1>3, <1>4, <1>5, <1>6, <1>7, <1>8, <1>9 DEF Use, Work, Deadline

\* A step of the guild beside the menus: the row is made with no channel, which is
\* what the users chose.
LEMMA BesideStep ==
    ASSUME IInv, GuildNext, UNCHANGED menu
    PROVE  IInv'
<1>0. GuildTypeOK /\ TypeOK
  BY DEF IInv, GuildIInv
<1>1. GuildIInv'
  BY GuildStep DEF IInv
<1>2. /\ config' = config \/ (config = NoRow /\ config' = NewRow)
      /\ setting' = setting /\ (faults' = faults \/ faults' # 0)
  BY <1>0, FaultFacts DEF GuildNext, Join, Leave, Available, MinutePasses, CreateGuild, CreateGuildFails,
     LogJoin
<1>3. TypeOK'
  BY <1>0, <1>2 DEF TypeOK, menu, ghosts
<1>4. RowBeforeMenus'
  BY <1>2, NewRowIsTargets DEF IInv, RowBeforeMenus, menu, ghosts
<1>5. ASSUME NEW t \in Sessions PROVE SessionOK(t)'
  BY <1>2, SessionsOK DEF SessionOK, AnswersFollow, OnePress, menu, ghosts
<1>6. ChoicesKept'
  <2>1. CASE config' = config
    BY <2>1 DEF IInv, ChoicesKept, Pending, menu, ghosts
  <2>2. CASE config = NoRow /\ config' = NewRow
    BY <2>2 DEF IInv, RowBeforeMenus, ChoicesKept, Over, menu, ghosts
  <2> QED
    BY <1>2, <2>1, <2>2
<1> QED
  BY <1>1, <1>3, <1>4, <1>5, <1>6
     DEF IInv, SessionOK, ClearedUnlessPageEnded, CrashTakesSecondPress

LEMMA NextInvariant == IInv /\ [Next]_vars => IInv'
<1> SUFFICES ASSUME IInv, [Next]_vars PROVE IInv'
  OBVIOUS
<1>1. ASSUME NEW s \in Sessions, Use(s) \/ Work(s) \/ Deadline(s) PROVE IInv'
  <2>1. TypeOK' /\ config' \in Targets \cup {NoRow}
    BY <1>1, TypeStep
  <2>2. RowBeforeMenus' /\ ChoicesKept'
    BY <1>1, RowStep, ChoiceStep
  <2>3. GuildIInv'
    <3>1. /\ UNCHANGED <<setting, guild>> /\ faults' \in 0..MaxFaults
          /\ (config' = NoRow) = (config = NoRow)
      BY <1>1, RowStep, SessionFrame
    <3> QED
      BY <2>1, <3>1, MenusBeside DEF IInv
  <2>4. ASSUME NEW t \in Sessions PROVE SessionOK(t)'
    BY <1>1, OthersStay, UsedSessionOK, WorkedSessionOK
  <2> QED
    BY <2>1, <2>2, <2>3, <2>4 DEF IInv, SessionOK, ClearedUnlessPageEnded, CrashTakesSecondPress
<1>2. CASE GuildNext /\ UNCHANGED menu
  BY <1>2, BesideStep
<1>3. CASE UNCHANGED vars
  BY <1>3 DEF vars, menu, guild, ghosts, IInv, TypeOK, GuildIInv, GuildTypeOK, HandlersLog,
     RowMadeOnce, Asked, AloneInTime, JoinsHandled, RowBeforeMenus, AnswersFollow, OnePress,
     ChoicesKept, Pending, ClearedUnlessPageEnded, CrashTakesSecondPress
<1> QED
  BY <1>1, <1>2, <1>3 DEF Next
-----------------------------------------------------------------------------
\* IInv holds in every state of every run.
THEOREM Invariance == Spec => []IInv
BY InitInvariant, NextInvariant, PTL DEF Spec

\* commands/config/channels.go, whole copies written back: the row holds what was
\* chosen last for each event, but for choices whose save failed and those undone
\* by the save of a menu that had read the row before.
THEOREM ChoicesStay == Spec => []ChoicesKept
<1>1. IInv => ChoicesKept
  BY DEF IInv
<1> QED
  BY <1>1, Invariance, PTL

\* channels.go:241: without failures, a session that has ended has cleared its
\* components, but for one whose page ended with no press.
THEOREM SessionsClear == Spec => []ClearedUnlessPageEnded
<1>1. IInv => ClearedUnlessPageEnded
  BY DEF IInv
<1> QED
  BY <1>1, Invariance, PTL

\* The panic at hctx.Ctx() is reached by a second press on one menu or page, and by
\* no timeout and no failed request.
THEOREM OnlySecondPressCrashes == Spec => []CrashTakesSecondPress
<1>1. IInv => CrashTakesSecondPress
  BY DEF IInv
<1> QED
  BY <1>1, Invariance, PTL

\* guildCreate: a join is logged once, however often GUILD_CREATE comes and in
\* whatever order its handlers run, and the menus beside it do not change that.
THEOREM JoinsLoggedOnce == Spec => []JoinLoggedOnce
<1>1. IInv => JoinLoggedOnce
  BY InvariantLogsOnce DEF IInv
<1> QED
  BY <1>1, Invariance, PTL
=============================================================================
