--------------------------- MODULE HatRegistryProofs ---------------------------
(***************************************************************************)
(* HatRegistry under any interleaving of equips: the types, and the two    *)
(* facts about the active hat that survive the missing lock.  Both follow  *)
(* from one property of the shared record, which every synchronous part of *)
(* equip hands on to the next.                                             *)
(*                                                                         *)
(* The last section is about deployments that call equip one at a time,    *)
(* with hats that load and build: what the missing lock costs the others.  *)
(***************************************************************************)
EXTENDS HatDiscipline, TLAPS, FiniteSetTheorems

\* The shared record is well formed: the clients are finitely many (so they
\* can be counted), no router without a hat, and the active hat's tools are
\* registered.
Sound(r) ==
    /\ r \in Scope
    /\ IsFiniteSet(r.clients)
    /\ r.active = NoHat => r.hooks = NoHat
    /\ r.active # NoHat => \A u \in HatTools[r.active] : r.tools[u] # NoHat

\* An equip call that awaits something is for a hat.
SoundOps == {o \in Ops : o.stage \in {"unequip", "teardown", "connect"} => o.hat \in Hats}

HatIInv == Sound(equipped) /\ op \in [Tasks -> SoundOps]

\* The places an equip call can be put to are typed.
LEMMA PlacesTyped ==
    /\ \A stage \in {"off", "done", "failed"} : Ended(stage) \in SoundOps
    /\ \A stage \in Stages, h \in Hats : Sound(equipped) => At(stage, h) \in SoundOps
<1>1. \A stage \in {"off", "done", "failed"} : Ended(stage) \in SoundOps
  BY DEF Ended, Ops, SoundOps, Stages
<1>2. Sound(equipped) => Cardinality(equipped.clients) \in Nat
  BY FS_CardinalityType DEF Sound
<1> QED
  BY <1>1, <1>2 DEF At, Ops, SoundOps

\* The initial record is well formed.
LEMMA HatInitSound == HatInit => HatIInv
<1>1. IsFiniteSet({})
  BY FS_EmptySet
<1> QED
  BY <1>1, PlacesTyped DEF HatInit, HatIInv, Sound, Scope

\* Wiping the services of the other tasks keeps their places typed.
LEMMA WipedTyped ==
    ASSUME NEW t, op \in [Tasks -> SoundOps]
    PROVE  WipedBy(t) \in [Tasks -> SoundOps]
BY DEF WipedBy, Ops, SoundOps

\* What unequip leaves is well formed.
LEMMA UnequippedSound ==
    ASSUME Sound(equipped)
    PROVE  Sound(Unequipped)
<1>1. IsFiniteSet({})
  BY FS_EmptySet
<1> QED
  BY <1>1 DEF Unequipped, Sound, Scope

\* The last part of equip keeps the record well formed, also if it fails.
LEMMA RegisterSound ==
    ASSUME HatAssumption,
           NEW t \in Tasks, NEW h \in Hats, NEW s, NEW ops, NEW lost,
           Sound(s), ops \in [Tasks -> SoundOps],
           Register(t, h, s, ops, lost)
    PROVE  HatIInv'
<1>1. \A us \in SUBSET Tools : Overlay(s.tools, h, us) \in [Tools -> Hats \cup {NoHat}]
  BY DEF Overlay, Sound, Scope
<1>2. HatTools[h] \in SUBSET Tools
  BY DEF HatAssumption
<1>3. CASE /\ equipped' = [s EXCEPT !.active = h,
                                    !.tools = Overlay(@, h, HatTools[h]),
                                    !.hooks = IF h \in WebhookHats THEN h ELSE @]
           /\ op' = [ops EXCEPT ![t] = Ended("done")]
  <2>1. equipped' \in Scope
    BY <1>1, <1>2, <1>3 DEF Sound, Scope
  <2>2. /\ equipped'.clients = s.clients
        /\ equipped'.active = h
        /\ equipped'.tools = Overlay(s.tools, h, HatTools[h])
    BY <1>3 DEF Sound, Scope
  <2>3. \A u \in HatTools[h] : equipped'.tools[u] = h
    BY <2>2, <1>2 DEF Overlay
  <2>4. h # NoHat
    BY DEF HatAssumption
  <2>5. op' \in [Tasks -> SoundOps]
    BY <1>3, PlacesTyped DEF Stages
  <2> QED
    BY <2>1, <2>2, <2>3, <2>4, <2>5 DEF HatIInv, Sound
<1>4. ASSUME NEW us \in SUBSET HatTools[h],
             equipped' = [s EXCEPT !.tools = Overlay(@, h, us)],
             op' = [ops EXCEPT ![t] = Ended("failed")]
      PROVE  HatIInv'
  <2>1. equipped' \in Scope
    BY <1>1, <1>2, <1>4 DEF Sound, Scope
  <2>2. /\ equipped'.clients = s.clients
        /\ equipped'.active = s.active
        /\ equipped'.hooks = s.hooks
        /\ equipped'.tools = Overlay(s.tools, h, us)
    BY <1>4 DEF Sound, Scope
  <2>3. h # NoHat
    BY DEF HatAssumption
  <2>4. s.active # NoHat => HatTools[s.active] \subseteq Tools
    BY DEF HatAssumption, Sound, Scope
  <2>5. s.active # NoHat => \A u \in HatTools[s.active] : equipped'.tools[u] # NoHat
    BY <2>2, <2>3, <2>4 DEF Overlay, Sound
  <2>6. op' \in [Tasks -> SoundOps]
    BY <1>4, PlacesTyped DEF Stages
  <2> QED
    BY <2>1, <2>2, <2>5, <2>6 DEF HatIInv, Sound
<1> QED
  BY <1>3, <1>4 DEF Register

\* So does building the services, whether it waits for a server or not.
LEMMA ServicesSound ==
    ASSUME HatAssumption, HatIInv,
           NEW t \in Tasks, NEW h \in Hats, NEW s, Sound(s),
           Services(t, h, s)
    PROVE  HatIInv'
<1> DEFINE torn == [s EXCEPT !.clients = {}]
<1>1. Sound(torn)
  <2>1. IsFiniteSet({})
    BY FS_EmptySet
  <2> QED
    BY <2>1 DEF Sound, Scope
<1>2. WipedBy(t) \in [Tasks -> SoundOps]
  BY WipedTyped DEF HatIInv
<1>3. CASE /\ equipped' = torn
           /\ op' = [WipedBy(t) EXCEPT ![t] = At("connect", h)]
  <2>1. At("connect", h) \in SoundOps
    BY PlacesTyped DEF HatIInv, Stages
  <2> QED
    BY <1>1, <1>2, <1>3, <2>1 DEF HatIInv
<1>4. CASE Register(t, h, torn, WipedBy(t), FALSE)
  BY <1>1, <1>2, <1>4, RegisterSound
<1> QED
  BY <1>3, <1>4 DEF Services

\* And loading the hat.
LEMMA LoadSound ==
    ASSUME HatAssumption, HatIInv,
           NEW t \in Tasks, NEW h \in Hats, NEW s, NEW ops,
           Sound(s), ops \in [Tasks -> SoundOps],
           Load(t, h, s, ops)
    PROVE  HatIInv'
<1>1. CASE equipped' = s /\ op' = [ops EXCEPT ![t] = Ended("failed")]
  BY <1>1, PlacesTyped DEF HatIInv, Stages
<1>2. CASE equipped' = s /\ op' = [WipedBy(t) EXCEPT ![t] = At("teardown", h)]
  BY <1>2, PlacesTyped, WipedTyped DEF HatIInv, Stages
<1>3. CASE Services(t, h, s)
  BY <1>3, ServicesSound
<1> QED
  BY <1>1, <1>2, <1>3 DEF Load

\* Beginning an equip keeps the invariant.
LEMMA BeginEquipSound ==
    ASSUME HatAssumption, HatIInv, NEW t \in Tasks, NEW h \in Hats,
           BeginEquip(t, h)
    PROVE  HatIInv'
<1>1. WipedBy(t) \in [Tasks -> SoundOps]
  BY WipedTyped DEF HatIInv
<1>2. CASE /\ op' = [WipedBy(t) EXCEPT ![t] = At("unequip", h)]
           /\ UNCHANGED equipped
  BY <1>1, <1>2, PlacesTyped DEF HatIInv, Stages
<1>3. CASE Load(t, h, Unequipped, WipedBy(t))
  BY <1>1, <1>3, LoadSound, UnequippedSound DEF HatIInv
<1>4. CASE Load(t, h, equipped, op)
  BY <1>4, LoadSound DEF HatIInv
<1> QED
  BY <1>2, <1>3, <1>4 DEF BeginEquip

\* An equip that goes on after an await keeps the invariant.
LEMMA ResumesSound ==
    ASSUME HatAssumption, HatIInv, NEW t \in Tasks, Resumes(t)
    PROVE  HatIInv'
<1>1. op[t].hat \in Hats
  BY DEF HatIInv, SoundOps, Resumes, UnequipResumes, TeardownResumes, ConnectReturns,
         ConnectFails
<1>2. CASE /\ op' = [op EXCEPT ![t] = Ended("failed")]
           /\ UNCHANGED equipped
  BY <1>2, PlacesTyped DEF HatIInv, Stages
<1>3. CASE Load(t, op[t].hat, Unequipped, op)
  BY <1>1, <1>3, LoadSound, UnequippedSound DEF HatIInv
<1>4. CASE Services(t, op[t].hat, equipped)
  BY <1>1, <1>4, ServicesSound DEF HatIInv
<1>5. CASE ConnectReturns(t)
  <2> DEFINE s == [equipped EXCEPT !.clients = @ \cup {op[t].hat}]
  <2>1. IsFiniteSet(equipped.clients \cup {op[t].hat})
    BY FS_AddElement DEF HatIInv, Sound
  <2>2. Sound(s)
    BY <2>1, <1>1 DEF HatIInv, Sound, Scope
  <2> QED
    BY <2>2, <1>1, <1>5, RegisterSound DEF ConnectReturns, HatIInv
<1> QED
  BY <1>2, <1>3, <1>4, <1>5
     DEF Resumes, UnequipResumes, TeardownResumes, ConnectFails, RaiseDisturbed

\* The invariant is inductive.
LEMMA HatIInvInductive == HatAssumption /\ HatIInv /\ [HatNext]_hatVars => HatIInv'
<1> SUFFICES ASSUME HatAssumption, HatIInv, [HatNext]_hatVars
             PROVE  HatIInv'
  OBVIOUS
<1>1. CASE UNCHANGED hatVars
  BY <1>1 DEF hatVars, HatIInv, Sound
<1>2. ASSUME NEW t \in Tasks, NEW h \in Hats, BeginEquip(t, h)
      PROVE  HatIInv'
  BY <1>2, BeginEquipSound
<1>3. ASSUME NEW t \in Tasks, Resumes(t)
      PROVE  HatIInv'
  BY <1>3, ResumesSound
<1> QED
  BY <1>1, <1>2, <1>3 DEF HatNext

\* What the invariant says of the active hat.
LEMMA HatIInvImplies ==
    ASSUME HatIInv
    PROVE  HatTypeOK /\ ActiveHatHasItsTools /\ NoOrphanRouter
BY DEF HatIInv, Sound, SoundOps, HatTypeOK, ActiveHatHasItsTools, NoOrphanRouter,
       Registered

\* Types hold in every interleaving of any number of equips of any hats.
THEOREM HatTypeCorrect == HatSpec => []HatTypeOK
<1>1. HatInit => HatIInv
  BY HatInitSound
<1>2. HatIInv /\ [HatNext]_hatVars => HatIInv'
  BY HatAssumption, HatIInvInductive
<1>3. HatIInv => HatTypeOK
  BY HatIInvImplies
<1> QED
  BY <1>1, <1>2, <1>3, PTL DEF HatSpec

\* An active hat can always serve its requests: whichever equips overlap, fail
\* half-way or raise, every tool the active hat names is registered.
THEOREM ActiveHatServes == HatSpec => []ActiveHatHasItsTools
<1>1. HatInit => HatIInv
  BY HatInitSound
<1>2. HatIInv /\ [HatNext]_hatVars => HatIInv'
  BY HatAssumption, HatIInvInductive
<1>3. HatIInv => ActiveHatHasItsTools
  BY HatIInvImplies
<1> QED
  BY <1>1, <1>2, <1>3, PTL DEF HatSpec

\* No webhook is routed without a hat, whichever equips overlap.
THEOREM RouterNeedsHat == HatSpec => []NoOrphanRouter
<1>1. HatInit => HatIInv
  BY HatInitSound
<1>2. HatIInv /\ [HatNext]_hatVars => HatIInv'
  BY HatAssumption, HatIInvInductive
<1>3. HatIInv => NoOrphanRouter
  BY HatIInvImplies
<1> QED
  BY <1>1, <1>2, <1>3, PTL DEF HatSpec

-----------------------------------------------------------------------------
(* Disciplined deployments.                                                *)

\* The shared record of a disciplined deployment: what belongs to the active hat
\* and nothing else.
Whole(r) ==
    /\ r.tools = [u \in Tools |-> IF r.active # NoHat /\ u \in HatTools[r.active]
                                  THEN r.active ELSE NoHat]
    /\ r.hooks = IF r.active \in WebhookHats THEN r.active ELSE NoHat
    /\ r.clients = {r.active} \cap RemoteHats

\* One equip at a time, for a hat that builds; no hat is active while it connects,
\* and nobody has taken its services.  The second teardown finds nothing to close.
Alone ==
    /\ \A t, u \in Tasks : Awaiting(t) /\ Awaiting(u) => t = u
    /\ \A t \in Tasks : Awaiting(t) =>
          /\ op[t].stage \in {"unequip", "connect"}
          /\ op[t].hat \in Hats \ BrokenHats
          /\ ~op[t].wiped
          /\ op[t].stage = "connect" => equipped.active = NoHat /\ op[t].hat \in RemoteHats

DisciplineInv == HatIInv /\ (disciplined => Whole(equipped) /\ Alone)

\* Nobody awaits but perhaps t, and t is put to the place o.
Only(t, o) == /\ op' = [op EXCEPT ![t] = o]
              /\ \A u \in Tasks \ {t} : ~Awaiting(u)

\* Nobody else can lose services.
LEMMA WipesNobody ==
    ASSUME NEW t \in Tasks, op \in [Tasks -> SoundOps], \A u \in Tasks \ {t} : ~Awaiting(u)
    PROVE  WipedBy(t) = op
BY DEF WipedBy, Awaiting

\* A task put to a place where it awaits nothing leaves nobody awaiting.
LEMMA EndedAlone ==
    ASSUME NEW t \in Tasks, op \in [Tasks -> SoundOps], NEW stage \in {"done", "failed"},
           Only(t, Ended(stage))
    PROVE  Alone'
BY DEF Only, Alone, Awaiting, Ended

\* The last part of equip, for a hat that builds, makes the record whole again.
LEMMA RegisterWhole ==
    ASSUME HatAssumption, NEW t \in Tasks, NEW h \in Hats \ BrokenHats, NEW s,
           op \in [Tasks -> SoundOps], \A u \in Tasks \ {t} : ~Awaiting(u),
           s \in Scope, s.active = NoHat,
           s.tools = [u \in Tools |-> NoHat], s.hooks = NoHat,
           s.clients = {h} \cap RemoteHats,
           Register(t, h, s, op, FALSE)
    PROVE  Whole(equipped') /\ Alone'
<1>1. /\ equipped' = [s EXCEPT !.active = h, !.tools = Overlay(@, h, HatTools[h]),
                               !.hooks = IF h \in WebhookHats THEN h ELSE @]
      /\ Only(t, Ended("done"))
  BY DEF Register, Only
<1>2. /\ equipped'.active = h /\ equipped'.clients = {h} \cap RemoteHats
      /\ equipped'.tools = Overlay(s.tools, h, HatTools[h])
      /\ equipped'.hooks = IF h \in WebhookHats THEN h ELSE NoHat
  BY <1>1 DEF Scope
<1>3. h # NoHat /\ HatTools[h] \subseteq Tools
  BY DEF HatAssumption
<1> QED
  BY <1>1, <1>2, <1>3, EndedAlone DEF Whole, Overlay

\* A whole record without a hat is bare.
LEMMA BareRecord ==
    ASSUME HatAssumption, NEW s, Whole(s), s.active = NoHat
    PROVE  s.tools = [u \in Tools |-> NoHat] /\ s.hooks = NoHat /\ s.clients = {}
BY DEF Whole, HatAssumption

\* Building the services of such a record.
LEMMA ServicesWhole ==
    ASSUME HatAssumption, NEW t \in Tasks, NEW h \in Hats \ BrokenHats, NEW s,
           op \in [Tasks -> SoundOps], \A u \in Tasks \ {t} : ~Awaiting(u),
           s \in Scope, Whole(s), s.active = NoHat,
           Services(t, h, s)
    PROVE  Whole(equipped') /\ Alone'
<1> DEFINE torn == [s EXCEPT !.clients = {}]
<1>1. WipedBy(t) = op
  BY WipesNobody
<1>2. torn = s
  BY BareRecord DEF Scope
<1>3. CASE h \in RemoteHats /\ equipped' = torn /\ op' = [WipedBy(t) EXCEPT ![t] = At("connect", h)]
  <2>1. Only(t, At("connect", h))
    BY <1>1, <1>3 DEF Only
  <2>2. equipped' = s
    BY <1>2, <1>3
  <2> HIDE DEF torn
  <2>3. Whole(equipped')
    BY <2>2
  <2>4. Alone'
    BY <1>3, <2>1, <2>2 DEF Only, Alone, Awaiting, At
  <2> QED
    BY <2>3, <2>4
<1>4. CASE h \notin RemoteHats /\ Register(t, h, torn, WipedBy(t), FALSE)
  <2>1. s.clients = {h} \cap RemoteHats
    BY <1>4, BareRecord
  <2> QED
    BY <1>1, <1>2, <1>4, <2>1, BareRecord, RegisterWhole
<1> QED
  BY <1>3, <1>4 DEF Services

LEMMA LoadWhole ==
    ASSUME HatAssumption, NEW t \in Tasks, NEW h \in Hats \ BrokenHats, NEW s,
           op \in [Tasks -> SoundOps], \A u \in Tasks \ {t} : ~Awaiting(u),
           s \in Scope, Whole(s), s.active = NoHat,
           Load(t, h, s, op)
    PROVE  Whole(equipped') /\ Alone'
<1>1. CASE equipped' = s /\ op' = [op EXCEPT ![t] = Ended("failed")]
  BY <1>1, EndedAlone DEF Only
<1>2. CASE Services(t, h, s)
  BY <1>2, ServicesWhole
<1> QED
  BY <1>1, <1>2, BareRecord DEF Load

\* What unequip leaves is whole.
LEMMA UnequippedWhole ==
    ASSUME HatAssumption, equipped \in Scope
    PROVE  Unequipped \in Scope /\ Whole(Unequipped) /\ Unequipped.active = NoHat
BY DEF HatAssumption, Unequipped, Scope, Whole

LEMMA BeginWhole ==
    ASSUME HatAssumption, DisciplineInv, disciplined,
           NEW t \in Tasks, NEW h \in Hats, MayEquip(h), BeginEquip(t, h)
    PROVE  Whole(equipped') /\ Alone'
<1>1. op \in [Tasks -> SoundOps] /\ equipped \in Scope /\ h \notin BrokenHats
      /\ \A u \in Tasks : ~Awaiting(u)
  BY DEF DisciplineInv, HatIInv, Sound, MayEquip
<1>2. WipedBy(t) = op
  BY <1>1, WipesNobody
<1>3. CASE op' = [WipedBy(t) EXCEPT ![t] = At("unequip", h)] /\ UNCHANGED equipped
  BY <1>1, <1>2, <1>3 DEF Alone, Awaiting, At, DisciplineInv
<1>4. CASE Load(t, h, Unequipped, WipedBy(t))
  BY <1>1, <1>2, <1>4, UnequippedWhole, LoadWhole
<1>5. CASE equipped.active = NoHat /\ Load(t, h, equipped, op)
  BY <1>1, <1>5, LoadWhole DEF DisciplineInv
<1> QED
  BY <1>3, <1>4, <1>5 DEF BeginEquip

LEMMA ResumesWhole ==
    ASSUME HatAssumption, DisciplineInv, disciplined, NEW t \in Tasks, Resumes(t)
    PROVE  Whole(equipped') /\ Alone'
<1>1. op \in [Tasks -> SoundOps] /\ equipped \in Scope /\ Whole(equipped)
  BY DEF DisciplineInv, HatIInv, Sound
<1>2. Awaiting(t)
  BY DEF Resumes, UnequipResumes, TeardownResumes, ConnectReturns, ConnectFails, Awaiting
<1>3. \A u \in Tasks \ {t} : ~Awaiting(u)
  BY <1>2 DEF DisciplineInv, Alone
<1>4. /\ op[t].hat \in Hats \ BrokenHats /\ op[t].wiped = FALSE
      /\ op[t].stage \in {"unequip", "connect"}
      /\ op[t].stage = "connect" => equipped.active = NoHat /\ op[t].hat \in RemoteHats
  BY <1>1, <1>2 DEF DisciplineInv, Alone, SoundOps, Ops
<1>5. CASE op' = [op EXCEPT ![t] = Ended("failed")] /\ UNCHANGED equipped
  BY <1>1, <1>3, <1>5, EndedAlone DEF Only
<1>6. CASE Load(t, op[t].hat, Unequipped, op)
  BY <1>1, <1>3, <1>4, <1>6, UnequippedWhole, LoadWhole
<1>7. CASE ConnectReturns(t)
  <2> DEFINE s == [equipped EXCEPT !.clients = @ \cup {op[t].hat}]
  <2>1. equipped.active = NoHat /\ op[t].hat \in RemoteHats
    BY <1>4, <1>7 DEF ConnectReturns
  <2>2. /\ s \in Scope /\ s.active = NoHat /\ s.hooks = NoHat
        /\ s.tools = [u \in Tools |-> NoHat]
        /\ s.clients = {op[t].hat} \cap RemoteHats
    BY <1>1, <1>4, <2>1, BareRecord DEF Scope
  <2>3. Register(t, op[t].hat, s, op, FALSE)
    BY <1>4, <1>7 DEF ConnectReturns
  <2> HIDE DEF s
  <2> QED
    BY <1>1, <1>3, <1>4, <2>2, <2>3, RegisterWhole
<1> QED
  BY <1>4, <1>5, <1>6, <1>7
     DEF Resumes, UnequipResumes, TeardownResumes, ConnectFails, RaiseDisturbed

\* A deployment that is disciplined stays whole.
LEMMA DisciplineInductive ==
    HatAssumption /\ DisciplineInv /\ [DisciplineNext]_<<hatVars, disciplined>>
        => DisciplineInv'
<1> SUFFICES ASSUME HatAssumption, DisciplineInv, [DisciplineNext]_<<hatVars, disciplined>>
             PROVE  DisciplineInv'
  OBVIOUS
<1>1. CASE UNCHANGED <<hatVars, disciplined>>
  BY <1>1 DEF hatVars, DisciplineInv, HatIInv, Sound, Whole, Alone, Awaiting
<1>2. CASE DisciplineNext
  <2>1. HatIInv' /\ disciplined' = disciplined
    BY <1>2, HatIInvInductive DEF DisciplineInv, DisciplineNext, HatNext
  <2>2. ASSUME disciplined PROVE Whole(equipped') /\ Alone'
    BY <1>2, <2>2, BeginWhole, ResumesWhole DEF DisciplineNext
  <2> QED
    BY <2>1, <2>2 DEF DisciplineInv
<1> QED
  BY <1>1, <1>2

LEMMA DisciplineInitInv == HatAssumption /\ DisciplineInit => DisciplineInv
<1> SUFFICES ASSUME HatAssumption, DisciplineInit PROVE DisciplineInv
  OBVIOUS
<1>1. HatIInv
  BY HatInitSound DEF DisciplineInit
<1>2. Whole(equipped)
  BY DEF DisciplineInit, HatInit, Whole, HatAssumption
<1>3. Alone
  BY DEF DisciplineInit, HatInit, Alone, Awaiting, Ended
<1> QED
  BY <1>1, <1>2, <1>3 DEF DisciplineInv

\* No overlap of hats (ADR-010): a disciplined deployment never holds the tools
\* of two hats, whatever fails on the way (HatRegistry.equip).
THEOREM HatsDoNotOverlap == DisciplineSpec => []NoOverlap
<1>1. DisciplineInit => DisciplineInv
  BY DisciplineInitInv, HatAssumption
<1>2. DisciplineInv /\ [DisciplineNext]_<<hatVars, disciplined>> => DisciplineInv'
  BY DisciplineInductive, HatAssumption
<1>3. DisciplineInv => NoOverlap
  BY DEF DisciplineInv, Whole, NoOverlap, Owners
<1> QED
  BY <1>1, <1>2, <1>3, PTL DEF DisciplineSpec

\* Between two equips of a disciplined deployment exactly what belongs to the
\* active hat is registered (HatRegistry.equip, unequip).
THEOREM ActiveHatStaysWhole == DisciplineSpec => []ActiveHatIsWhole
<1>1. DisciplineInit => DisciplineInv
  BY DisciplineInitInv, HatAssumption
<1>2. DisciplineInv /\ [DisciplineNext]_<<hatVars, disciplined>> => DisciplineInv'
  BY DisciplineInductive, HatAssumption
<1>3. DisciplineInv => ActiveHatIsWhole
  BY DEF DisciplineInv, Whole, ActiveHatIsWhole
<1> QED
  BY <1>1, <1>2, <1>3, PTL DEF DisciplineSpec

\* No client of a former hat stays open in a disciplined deployment
\* (ServiceRegistry.teardown).
THEOREM ClientsAreClosed == DisciplineSpec => []NoLeakedClient
<1>1. DisciplineInit => DisciplineInv
  BY DisciplineInitInv, HatAssumption
<1>2. DisciplineInv /\ [DisciplineNext]_<<hatVars, disciplined>> => DisciplineInv'
  BY DisciplineInductive, HatAssumption
<1>3. DisciplineInv => NoLeakedClient
  <2> SUFFICES ASSUME DisciplineInv, disciplined PROVE NoLeakedClient
    BY DEF NoLeakedClient
  <2>1. equipped.clients = {} \/ equipped.clients = {equipped.active}
    BY DEF DisciplineInv, Whole
  <2>2. Cardinality({}) = 0 /\ Cardinality({equipped.active}) = 1
    BY FS_EmptySet, FS_Singleton
  <2> QED
    BY <2>1, <2>2 DEF DisciplineInv, Whole, NoLeakedClient
<1> QED
  BY <1>1, <1>2, <1>3, PTL DEF DisciplineSpec

\* A deployment with its choice of discipline is a registry: what is proved of
\* every interleaving of equips holds of it.
THEOREM DeploymentIsRegistry == DisciplineSpec => HatSpec
<1>1. DisciplineInit => HatInit
  BY DEF DisciplineInit
<1>2. [DisciplineNext]_<<hatVars, disciplined>> => [HatNext]_hatVars
  BY DEF DisciplineNext, HatNext, hatVars
<1> QED
  BY <1>1, <1>2, PTL DEF DisciplineSpec, HatSpec
=============================================================================
