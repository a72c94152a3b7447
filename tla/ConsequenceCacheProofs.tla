------------------------ MODULE ConsequenceCacheProofs ------------------------
(***************************************************************************)
(* The tree cache for any hats, tools, lifetimes and number of concurrent  *)
(* analyses and equips.                                                    *)
(*                                                                         *)
(* The properties speak of calls that have returned.  The invariant adds   *)
(* where their trees come from: a call under way knows the hat of its      *)
(* engine, and every cached tree was answered to the call that generated   *)
(* it, at the time and under the hat it carries.                           *)
(***************************************************************************)
EXTENDS ConsequenceCache, TLAPS

Engines == [hat : Hats, cache : SUBSET Trees]

\* A tree in the cache of engine e, the calls being cs.
TreeOK(cs, e, t) ==
    /\ t \in Trees
    /\ t.hat = e.hat
    /\ cs[t.by].stage = "done"
    /\ cs[t.by].ended = t.at

EngineOK(cs, e) ==
    /\ e \in Engines
    /\ \A t \in e.cache : TreeOK(cs, e, t)
    /\ \A s, t \in e.cache : s.cand = t.cand => s = t

\* Call c has returned: its tree is its own, or another call's that is young
\* enough.
DoneOK(cs, c, call) ==
    /\ call.for = c /\ call.tree.cand = call.cand /\ call.tree.hat = call.hat
    /\ call.ended \in Nat /\ call.engine = 0
    /\ call.settled /\ call.tree.by # c =>
           /\ call.cand # Situation
           /\ call.tree.by \in Calls /\ cs[call.tree.by].stage = "done"
           /\ call.ended - cs[call.tree.by].ended < Lifetime(call.hat, call.cand.tool)

GenerateOK(es, call) ==
    /\ call.engine \in 1..Len(es)
    /\ call.hat = es[call.engine].hat
    /\ call.ttl # 0 => call.cand \in Candidates

\* What is known of a call, the engines being es and the calls cs.
CallOK(es, cs, c, call) ==
    /\ DOMAIN call = DOMAIN Idle
    /\ call.stage \in {"off", "generate", "done", "failed"}
    /\ call.ttl \in Nat
    /\ call.stage = "generate" => GenerateOK(es, call)
    /\ call.stage = "done" => DoneOK(cs, c, call)
    /\ call.stage \in {"off", "failed"} => call.engine = 0

CacheInv ==
    /\ now \in Nat /\ tools \in Hats \cup {NoHat}
    /\ engines \in Seq(Engines)
    /\ \A i \in 1..Len(engines) : EngineOK(calls, engines[i])
    /\ calls = [c \in Calls |-> calls[c]]
    /\ \A c \in Calls : CallOK(engines, calls, c, calls[c])

-----------------------------------------------------------------------------

LEMMA CacheInvGives ==
    ASSUME CacheInv
    PROVE  CacheTypeOK /\ ReturnsOwnTree /\ SharedTreeIsFresh /\ NoTreeOfFormerHat
<1>1. CacheTypeOK
  <2>1. \A i \in 1..Len(engines) : \A s, t \in engines[i].cache :
            SameKey(s.cand, t.cand) => s = t
    BY DEF CacheInv, EngineOK, SameKey
  <2>2. \A c \in Calls : /\ calls[c].stage \in {"off", "generate", "done", "failed"}
                         /\ calls[c].engine \in 0..Len(engines)
                         /\ calls[c].ttl \in Nat
    <3> SUFFICES ASSUME NEW c \in Calls
                 PROVE  /\ calls[c].stage \in {"off", "generate", "done", "failed"}
                        /\ calls[c].engine \in 0..Len(engines)
                        /\ calls[c].ttl \in Nat
      OBVIOUS
    <3>1. Len(engines) \in Nat /\ CallOK(engines, calls, c, calls[c])
      BY DEF CacheInv
    <3>2. CASE calls[c].stage = "generate"
      <4>1. calls[c].engine \in 1..Len(engines)
        BY <3>1, <3>2 DEF CallOK, GenerateOK
      <4> QED  BY <3>1, <4>1 DEF CallOK
    <3>3. CASE calls[c].stage # "generate"
      <4>1. calls[c].engine = 0
        BY <3>1, <3>3 DEF CallOK, DoneOK
      <4> QED  BY <3>1, <4>1 DEF CallOK
    <3> QED  BY <3>2, <3>3
  <2> QED  BY <2>1, <2>2 DEF CacheInv, CacheTypeOK, Engines
<1>2. ReturnsOwnTree /\ NoTreeOfFormerHat
  BY DEF CacheInv, CallOK, DoneOK, ReturnsOwnTree, NoTreeOfFormerHat, Done
<1>3. SharedTreeIsFresh
  BY DEF CacheInv, CallOK, DoneOK, SharedTreeIsFresh, Done
<1> QED  BY <1>1, <1>2, <1>3

LEMMA CacheInvInit == CacheInit => CacheInv
<1> SUFFICES ASSUME CacheInit PROVE CacheInv
  OBVIOUS
<1>1. \A c \in Calls : CallOK(engines, calls, c, Idle)
  BY DEF CallOK, Idle
<1> QED  BY <1>1 DEF CacheInit, CacheInv

\* A lifetime is a number of seconds.
LEMMA LifetimeIsNat ==
    ASSUME NEW h \in Hats \cup {NoHat}, NEW u \in Tools PROVE Lifetime(h, u) \in Nat
BY CacheAssumption DEF Lifetime

-----------------------------------------------------------------------------
\* What one step may do: it leaves calls that have returned as they are, and
\* keeps the hat of every engine.

Settled ==
    /\ \A c \in Calls : calls[c].stage = "done" => calls'[c] = calls[c]
    /\ Len(engines') >= Len(engines)
    /\ \A i \in 1..Len(engines) : engines'[i].hat = engines[i].hat

LEMMA OldCallsStay ==
    ASSUME CacheInv, Settled, engines' \in Seq(Engines),
           NEW c \in Calls, calls'[c] = calls[c]
    PROVE  CallOK(engines', calls', c, calls'[c])
<1>1. CallOK(engines, calls, c, calls[c])
  BY DEF CacheInv
<1>2. Len(engines) \in Nat /\ Len(engines') \in Nat
  BY DEF CacheInv
<1>3. ASSUME calls[c].stage = "generate" PROVE GenerateOK(engines', calls'[c])
  BY <1>1, <1>2, <1>3 DEF CallOK, GenerateOK, Settled
<1>4. ASSUME calls[c].stage = "done" PROVE DoneOK(calls', c, calls'[c])
  BY <1>1, <1>4 DEF CallOK, DoneOK, Settled, Lifetime
<1> QED  BY <1>1, <1>3, <1>4 DEF CallOK

LEMMA OldTreesStay ==
    ASSUME CacheInv, Settled, NEW i \in 1..Len(engines),
           NEW t \in engines[i].cache, NEW e, e.hat = engines[i].hat
    PROVE  TreeOK(calls', e, t)
<1>1. TreeOK(calls, engines[i], t)
  BY DEF CacheInv, EngineOK
<1>2. t.by \in Calls
  BY <1>1 DEF TreeOK, Trees
<1> QED  BY <1>1, <1>2 DEF TreeOK, Settled

\* A step that only moves one call which has not returned.
LEMMA OneCallMoves ==
    ASSUME CacheInv, NEW c \in Calls, calls[c].stage # "done", NEW call,
           calls' = [calls EXCEPT ![c] = call], UNCHANGED <<now, tools, engines>>,
           CallOK(engines', calls', c, call)
    PROVE  CacheInv'
<1>1. \A b \in Calls : calls'[b] = IF b = c THEN call ELSE calls[b]
  BY DEF CacheInv
<1>2. Settled /\ engines' \in Seq(Engines)
  BY <1>1 DEF Settled, CacheInv
<1>3. \A b \in Calls : CallOK(engines', calls', b, calls'[b])
  BY <1>1, <1>2, OldCallsStay
<1>4. ASSUME NEW i \in 1..Len(engines) PROVE EngineOK(calls', engines'[i])
  <2>1. \A t \in engines[i].cache : TreeOK(calls', engines'[i], t)
    BY <1>2, OldTreesStay
  <2> QED  BY <2>1 DEF CacheInv, EngineOK
<1>5. calls' = [b \in Calls |-> calls'[b]]
  BY DEF CacheInv
<1> QED  BY <1>3, <1>4, <1>5 DEF CacheInv

-----------------------------------------------------------------------------

LEMMA EquipKeeps ==
    ASSUME CacheInv, NEW h \in Hats, Equip(h)
    PROVE  CacheInv'
<1> DEFINE e == [hat |-> h, cache |-> {}]
<1>1. e \in Engines /\ engines' = Append(engines, e) /\ calls' = calls
  BY DEF Equip, Engines
<1>2. /\ engines' \in Seq(Engines) /\ Len(engines') = Len(engines) + 1
      /\ \A i \in 1..Len(engines) : engines'[i] = engines[i]
      /\ engines'[Len(engines) + 1] = e
  BY <1>1 DEF CacheInv
<1>3. Settled
  BY <1>1, <1>2 DEF Settled, CacheInv
<1>4. \A c \in Calls : CallOK(engines', calls', c, calls'[c])
  BY <1>1, <1>2, <1>3, OldCallsStay
<1>5. ASSUME NEW i \in 1..Len(engines') PROVE EngineOK(calls', engines'[i])
  <2>1. CASE i \in 1..Len(engines)
    <3>1. \A t \in engines[i].cache : TreeOK(calls', engines'[i], t)
      BY <1>2, <1>3, <2>1, OldTreesStay
    <3> QED  BY <1>2, <2>1, <3>1 DEF CacheInv, EngineOK
  <2>2. CASE i = Len(engines) + 1
    <3>1. engines'[i] = e /\ e.cache = {}
      BY <1>2, <2>2
    <3> HIDE DEF e
    <3> QED  BY <1>1, <3>1 DEF EngineOK
  <2> QED  BY <1>2, <2>1, <2>2 DEF CacheInv
<1> QED  BY <1>1, <1>2, <1>4, <1>5 DEF CacheInv, Equip

LEMMA ClockKeeps ==
    ASSUME CacheInv, Tick \/ EquipStalls \/ UNCHANGED cacheVars
    PROVE  CacheInv'
<1>1. now' \in Nat /\ tools' \in Hats \cup {NoHat} /\ UNCHANGED <<engines, calls>>
  BY DEF CacheInv, Tick, EquipStalls, cacheVars
<1>2. Settled /\ engines' \in Seq(Engines)
  BY <1>1 DEF Settled, CacheInv
<1>3. \A c \in Calls : CallOK(engines', calls', c, calls'[c])
  BY <1>1, <1>2, OldCallsStay
<1>4. ASSUME NEW i \in 1..Len(engines) PROVE EngineOK(calls', engines'[i])
  <2>1. \A t \in engines[i].cache : TreeOK(calls', engines'[i], t)
    BY <1>1, <1>2, OldTreesStay
  <2> QED  BY <1>1, <2>1 DEF CacheInv, EngineOK
<1> QED  BY <1>1, <1>2, <1>3, <1>4 DEF CacheInv

-----------------------------------------------------------------------------
\* A call begins.

LEMMA GenerateKeeps ==
    ASSUME CacheInv, NEW c \in Calls, calls[c].stage = "off", engines # <<>>,
           NEW a, NEW ttl \in Nat, ttl # 0 => a \in Candidates, Generate(c, a, ttl)
    PROVE  CacheInv'
<1>1. /\ calls' = [calls EXCEPT ![c] = Begin(a, ttl)]
      /\ UNCHANGED <<now, tools, engines>>
  BY DEF Generate
<1>2. Current \in 1..Len(engines)
  BY DEF Current, CacheInv
<1>3. /\ Begin(a, ttl).stage = "generate" /\ Begin(a, ttl).engine = Current
      /\ Begin(a, ttl).hat = engines[Current].hat
      /\ Begin(a, ttl).ttl = ttl /\ Begin(a, ttl).cand = a
      /\ DOMAIN Begin(a, ttl) = DOMAIN Idle
  BY DEF Begin, Idle
<1>4. CallOK(engines', calls', c, Begin(a, ttl))
  BY <1>1, <1>2, <1>3 DEF CallOK, GenerateOK
<1> QED  BY <1>1, <1>4, OneCallMoves

LEMMA HitKeeps ==
    ASSUME CacheInv, NEW c \in Calls, calls[c].stage = "off", engines # <<>>,
           NEW a \in Candidates, Hit(c, a, Lifetime(tools, a.tool))
    PROVE  CacheInv'
<1> DEFINE ttl == Lifetime(tools, a.tool)
<1>1. PICK tree \in Cached(a) :
         /\ Young(tree, ttl)
         /\ calls' = [calls EXCEPT ![c] = Answered(Begin(a, ttl), tree, c)]
         /\ UNCHANGED <<now, tools, engines>>
  BY DEF Hit
<1> DEFINE call == Answered(Begin(a, ttl), tree, c)
<1>2. Current \in 1..Len(engines) /\ now \in Nat
  BY DEF Current, CacheInv
<1>3. /\ call.stage = "done" /\ call.tree = tree /\ call.for = c /\ call.ended = now
      /\ call.engine = 0 /\ call.ttl = 0 /\ call.cand = a
      /\ call.hat = engines[Current].hat
      /\ call.settled = (tools = engines[Current].hat)
      /\ DOMAIN call = DOMAIN Idle
  BY DEF Answered, Begin, Idle
<1>4. tree \in engines[Current].cache /\ tree.cand = a
  BY DEF Cached, SameKey
<1>5. /\ tree \in Trees /\ tree.hat = engines[Current].hat
      /\ calls[tree.by].stage = "done" /\ calls[tree.by].ended = tree.at
  BY <1>2, <1>4 DEF CacheInv, EngineOK, TreeOK
<1>6. tree.by \in Calls /\ tree.by # c /\ calls'[tree.by] = calls[tree.by]
  BY <1>1, <1>5 DEF Trees, CacheInv
<1>7. a # Situation /\ a.tool \in Tools
  BY CacheAssumption
<1>8. now - tree.at < ttl
  BY <1>1 DEF Young
<1>9. CallOK(engines', calls', c, call)
  <2>1. DoneOK(calls', c, call)
    <3>1. call.settled => Lifetime(tools, a.tool) = Lifetime(call.hat, call.cand.tool)
      BY <1>3
    <3> HIDE DEF call
    <3>2. call.settled => call.ended - calls'[tree.by].ended
                              < Lifetime(call.hat, call.cand.tool)
      BY <1>3, <1>5, <1>6, <1>8, <3>1
    <3> QED  BY <1>2, <1>3, <1>4, <1>5, <1>6, <1>7, <3>2 DEF DoneOK
  <2> HIDE DEF call
  <2> QED  BY <1>3, <2>1 DEF CallOK
<1> QED  BY <1>1, <1>9, OneCallMoves

LEMMA StartsKeeps ==
    ASSUME CacheInv, NEW c \in Calls, Starts(c)
    PROVE  CacheInv'
<1>1. calls[c].stage = "off" /\ engines # <<>>
  BY DEF Starts
<1>2. ASSUME NEW a \in Candidates, Analyze(c, a) PROVE CacheInv'
  <2>1. Lifetime(tools, a.tool) \in Nat
    BY LifetimeIsNat, CacheAssumption DEF CacheInv
  <2> QED  BY <1>1, <1>2, <2>1, HitKeeps, GenerateKeeps DEF Analyze
<1>3. ASSUME AnalyzeSituation(c) PROVE CacheInv'
  BY <1>1, <1>3, GenerateKeeps DEF AnalyzeSituation
<1> QED  BY <1>2, <1>3 DEF Starts

-----------------------------------------------------------------------------
\* A generation ends.

LEMMA GenerateFailsKeeps ==
    ASSUME CacheInv, NEW c \in Calls, GenerateFails(c)
    PROVE  CacheInv'
<1> DEFINE call == [Idle EXCEPT !.stage = "failed"]
<1>1. /\ calls[c].stage = "generate" /\ calls' = [calls EXCEPT ![c] = call]
      /\ UNCHANGED <<now, tools, engines>>
  BY DEF GenerateFails
<1>2. CallOK(engines', calls', c, call)
  BY DEF CallOK, Idle
<1> QED  BY <1>1, <1>2, OneCallMoves

LEMMA GenerateReturnsKeeps ==
    ASSUME CacheInv, NEW c \in Calls, GenerateReturns(c)
    PROVE  CacheInv'
<1> DEFINE old  == calls[c]
           tree == Generated(c)
           call == Answered(old, tree, c)
<1>1. /\ old.stage = "generate" /\ calls' = [calls EXCEPT ![c] = call]
      /\ UNCHANGED <<now, tools>>
  BY DEF GenerateReturns
<1>2. /\ old.engine \in 1..Len(engines) /\ old.hat = engines[old.engine].hat
      /\ old.ttl # 0 => old.cand \in Candidates
  BY <1>1 DEF CacheInv, CallOK, GenerateOK
<1>3. tree.by = c /\ tree.cand = old.cand /\ tree.hat = old.hat /\ tree.at = now
  BY DEF Generated
<1>4. DOMAIN old = DOMAIN Idle
  BY DEF CacheInv, CallOK
<1>5. /\ call.stage = "done" /\ call.tree = tree /\ call.for = c /\ call.ended = now
      /\ call.engine = 0 /\ call.ttl = 0 /\ call.cand = old.cand /\ call.hat = old.hat
      /\ DOMAIN call = DOMAIN Idle
  <2> HIDE DEF old, tree
  <2> QED  BY <1>4 DEF Answered, Idle
<1>6. calls'[c] = call /\ \A b \in Calls \ {c} : calls'[b] = calls[b]
  BY <1>1 DEF CacheInv
<1>7. DoneOK(calls', c, call)
  <2>1. call.tree.by = c /\ call.tree.cand = call.cand /\ call.tree.hat = call.hat
    BY <1>3, <1>5
  <2>2. call.ended \in Nat
    BY <1>5 DEF CacheInv
  <2> HIDE DEF call
  <2> QED  BY <1>5, <2>1, <2>2 DEF DoneOK
<1>8. CASE old.ttl = 0
  <2>1. UNCHANGED <<now, tools, engines>>
    BY <1>1, <1>8 DEF GenerateReturns
  <2>2. CallOK(engines', calls', c, call)
    <3> HIDE DEF call
    <3> QED  BY <1>5, <1>7 DEF CallOK
  <2> HIDE DEF call
  <2> QED  BY <1>1, <2>1, <2>2, OneCallMoves
<1>9. CASE old.ttl # 0
  <2> DEFINE n == old.engine
             cache == Stored(engines[n].cache, tree)
  <2>1. engines' = [engines EXCEPT ![n].cache = cache]
    BY <1>9 DEF GenerateReturns
  <2>2. EngineOK(calls, engines[n]) /\ engines[n] \in Engines
    BY <1>2 DEF CacheInv, EngineOK
  <2>3. tree \in Trees
    <3>1. now \in Nat /\ old.cand \in Candidates /\ old.hat \in Hats
      BY <1>2, <1>9, <2>2 DEF CacheInv, EngineOK, Engines
    <3> QED  BY <3>1 DEF Generated, Trees
  <2>4. cache \in SUBSET Trees
    BY <2>2, <2>3 DEF Stored, EngineOK, Engines
  <2>5. /\ engines' \in Seq(Engines) /\ Len(engines') = Len(engines)
        /\ \A i \in 1..Len(engines) : i # n => engines'[i] = engines[i]
        /\ engines'[n] \in Engines /\ engines'[n].hat = engines[n].hat
        /\ engines'[n].cache = cache
    <3> DEFINE new == [engines[n] EXCEPT !.cache = cache]
    <3>1. new \in Engines /\ new.hat = engines[n].hat /\ new.cache = cache
      <4> HIDE DEF n, cache
      <4> QED  BY <2>2, <2>4 DEF Engines
    <3>2. engines' = [engines EXCEPT ![n] = new]
      BY <2>1
    <3>3. n \in 1..Len(engines) /\ engines \in Seq(Engines)
      BY <1>2 DEF CacheInv
    <3> HIDE DEF new, n
    <3>4. /\ engines' \in Seq(Engines) /\ Len(engines') = Len(engines)
          /\ engines'[n] = new
          /\ \A i \in 1..Len(engines) : i # n => engines'[i] = engines[i]
      BY <3>1, <3>2, <3>3
    <3> HIDE DEF cache
    <3> QED  BY <3>1, <3>4
  <2>6. Settled
    BY <1>1, <1>6, <2>5 DEF Settled, CacheInv
  <2>7. ASSUME NEW b \in Calls PROVE CallOK(engines', calls', b, calls'[b])
    <3>1. CASE b = c
      <4> HIDE DEF call
      <4> QED  BY <1>5, <1>6, <1>7, <3>1 DEF CallOK
    <3>2. CASE b # c
      BY <1>6, <2>5, <2>6, <3>2, OldCallsStay
    <3> QED  BY <3>1, <3>2
  <2>8. ASSUME NEW i \in 1..Len(engines) PROVE EngineOK(calls', engines'[i])
    <3>1. engines'[i].hat = engines[i].hat /\ engines'[i] \in Engines
      BY <2>5, <2>6 DEF Settled, CacheInv
    <3>2. \A t \in engines[i].cache : TreeOK(calls', engines'[i], t)
      BY <2>6, <3>1, OldTreesStay
    <3>3. CASE i # n
      BY <2>5, <3>1, <3>2, <3>3 DEF CacheInv, EngineOK
    <3>4. CASE i = n
      <4>1. TreeOK(calls', engines'[i], tree)
        <5>1. calls'[c].stage = "done" /\ calls'[c].ended = now
          BY <1>5, <1>6
        <5> HIDE DEF tree, old
        <5> QED  BY <1>2, <1>3, <2>3, <2>5, <3>4, <5>1 DEF TreeOK
      <4>2. engines'[i].cache = {t \in engines[i].cache : t.cand # tree.cand} \cup {tree}
        BY <2>5, <3>4 DEF Stored, SameKey
      <4>3. \A s, t \in engines[i].cache : s.cand = t.cand => s = t
        BY DEF CacheInv, EngineOK
      <4> HIDE DEF tree
      <4> QED  BY <3>1, <3>2, <4>1, <4>2, <4>3 DEF EngineOK
    <3> QED  BY <3>3, <3>4
  <2>9. calls' = [b \in Calls |-> calls'[b]]
    BY <1>1 DEF CacheInv
  <2> QED  BY <1>1, <2>5, <2>7, <2>8, <2>9 DEF CacheInv
<1> QED  BY <1>8, <1>9

LEMMA CacheInvNext == CacheInv /\ [CacheNext]_cacheVars => CacheInv'
BY EquipKeeps, ClockKeeps, StartsKeeps, GenerateReturnsKeeps, GenerateFailsKeeps
   DEF CacheNext

LEMMA CacheInvAlways == CacheSpec => []CacheInv
BY CacheInvInit, CacheInvNext, PTL DEF CacheSpec

-----------------------------------------------------------------------------

\* Every variable keeps its type, and no cache of an engine ever holds two trees
\* under one key (ConsequenceEngine._cache).
THEOREM CacheTypeCorrect == CacheSpec => []CacheTypeOK
BY CacheInvAlways, CacheInvGives, PTL

\* Every call of analyze returns a tree for its own candidate, bound to it,
\* however the calls, the equips and the clock interleave (ADR-033).
THEOREM CallsReturnTheirOwnTree == CacheSpec => []ReturnsOwnTree
BY CacheInvAlways, CacheInvGives, PTL

\* A shared tree is younger than the lifetime its tool declares, and a tree of
\* a tool with lifetime 0 is never shared (consequence_cache_ttl).
THEOREM SharedTreesAreFresh == CacheSpec => []SharedTreeIsFresh
BY CacheInvAlways, CacheInvGives, PTL

\* A tree made under one hat is never returned to a call of another, also when
\* its generation ends after the next equip (ADR-033).
THEOREM NoTreeOutlivesItsHat == CacheSpec => []NoTreeOfFormerHat
BY CacheInvAlways, CacheInvGives, PTL
=============================================================================
