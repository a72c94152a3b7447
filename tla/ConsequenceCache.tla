---------------------------- MODULE ConsequenceCache ----------------------------
(***************************************************************************)
(* The consequence tree cache of ConsequenceEngine.analyze (ADR-033).  The *)
(* lifetime of a tree is resolved from the live tool registry before the   *)
(* lookup; a miss awaits the LLM and then stores its tree.  Every equip    *)
(* that succeeds builds a new engine with an empty cache, while analyses   *)
(* under way go on with the engine they began on.                          *)
(*                                                                         *)
(* A tree is known by its origin: the call that had it generated, the hat  *)
(* whose prompts were used, and the time.  Its nodes are what the LLM says,*)
(* and the hit counts are left out.                                        *)
(***************************************************************************)
EXTENDS Integers, Sequences, FiniteSets

CONSTANTS
    Hats, NoHat,
    Tools,
    Candidates,      \* [tool, shape]: a tool and the shape of its parameters
    Situation,       \* the synthetic candidate of analyze_situation
    Declared,        \* [Hats -> [Tools -> lifetimes]]: consequence_cache_ttl
    Undeclared,      \* None, also for a tool the hat does not have
    DefaultTtl,      \* consequence_cache_ttl_seconds
    MaxCalls, MaxEquips, MaxTime   \* bounds of the exploration

ASSUME CacheAssumption ==
    /\ NoHat \notin Hats
    /\ \A a \in Candidates : a.tool \in Tools
    /\ Situation \notin Candidates
    /\ Undeclared \notin Nat
    /\ Declared \in [Hats -> [Tools -> Nat \cup {Undeclared}]]
    /\ DefaultTtl \in Nat
    /\ MaxCalls \in Nat /\ MaxEquips \in Nat /\ MaxTime \in Nat

VARIABLES
    now,       \* time.monotonic()
    tools,     \* the hat whose tools the registry holds
    engines,   \* every engine built so far, each with its hat and its cache
    calls      \* per call of analyze or analyze_situation, where it is

cacheVars == <<now, tools, engines, calls>>

\* Calls are numbered as they begin.
Calls == 1..MaxCalls

Current == Len(engines)

NoTree == [by |-> 0, cand |-> Situation, hat |-> NoHat, at |-> 0]

Idle == [stage |-> "off", cand |-> Situation, engine |-> 0, hat |-> NoHat,
         settled |-> FALSE, ttl |-> 0, tree |-> NoTree, for |-> 0, ended |-> 0]

CacheInit ==
    /\ now = 0
    /\ tools = NoHat
    /\ engines = <<>>
    /\ calls = [c \in Calls |-> Idle]

Tick ==
    /\ now < MaxTime
    /\ now' = now + 1
    /\ UNCHANGED <<tools, engines, calls>>

-----------------------------------------------------------------------------
\* Equipping a hat (AgentLoop.equip_hat).

\* Mutant: the engine is kept and clear_cache called, as its docstring says.
EquipClearing(h) ==
    /\ Len(engines) < MaxEquips
    /\ tools' = h
    /\ engines' = IF engines = <<>> THEN <<[hat |-> h, cache |-> {}]>>
                  ELSE [engines EXCEPT ![Current] = [hat |-> h, cache |-> {}]]
    /\ UNCHANGED <<now, calls>>

\* The hat's tools are registered and the pipeline is rebuilt.
Equip(h) ==
    /\ Len(engines) < MaxEquips
    /\ tools' = h
    /\ engines' = Append(engines, [hat |-> h, cache |-> {}])
    /\ UNCHANGED <<now, calls>>

\* An equip is under way, or has failed: no tools or those of another hat are
\* registered, and the engine is still the old one.
EquipStalls ==
    /\ \E h \in Hats \cup {NoHat} : h # tools /\ tools' = h
    /\ UNCHANGED <<now, engines, calls>>

-----------------------------------------------------------------------------
\* ConsequenceEngine.analyze.

Lifetime(h, u) ==
    IF h = NoHat \/ Declared[h][u] = Undeclared THEN DefaultTtl ELSE Declared[h][u]

\* Mutant: only the tool names a tree.
SameTool(a, b) == a.tool = b.tool

\* _cache_key: an engine has one hat, so tool and shape name a tree.
SameKey(a, b) == a = b

Cached(a) == {tree \in engines[Current].cache : SameKey(tree.cand, a)}

Young(tree, ttl) == now - tree.at < ttl

Begin(a, ttl) ==
    [Idle EXCEPT !.stage = "generate", !.cand = a, !.engine = Current, !.hat = engines[Current].hat,
                 !.settled = (tools = engines[Current].hat), !.ttl = ttl]

\* The engine builds its prompts and awaits the LLM.
Generate(c, a, ttl) ==
    /\ calls' = [calls EXCEPT ![c] = Begin(a, ttl)]
    /\ UNCHANGED <<now, tools, engines>>

Answered(call, tree, c) ==
    [call EXCEPT !.stage = "done", !.tree = tree, !.for = c, !.ended = now,
                 !.engine = 0, !.ttl = 0]

\* Mutant: a hit starts the lifetime of the tree anew.
HitRenewing(c, a, ttl) ==
    \E tree \in Cached(a) :
        /\ Young(tree, ttl)
        /\ calls' = [calls EXCEPT ![c] = Answered(Begin(a, ttl), tree, c)]
        /\ engines' = [engines EXCEPT ![Current].cache =
                          (@ \ {tree}) \cup {[tree EXCEPT !.at = now]}]
        /\ UNCHANGED <<now, tools>>

\* A hit is answered at once, the tree bound to the candidate of this call.
Hit(c, a, ttl) ==
    \E tree \in Cached(a) :
        /\ Young(tree, ttl)
        /\ calls' = [calls EXCEPT ![c] = Answered(Begin(a, ttl), tree, c)]
        /\ UNCHANGED <<now, tools, engines>>

Analyze(c, a) ==
    LET ttl == Lifetime(tools, a.tool)
    IN  \/ Hit(c, a, ttl)
        \/ /\ \A tree \in Cached(a) : ~Young(tree, ttl)
           /\ Generate(c, a, ttl)

\* analyze_situation looks nothing up and stores nothing.
AnalyzeSituation(c) == Generate(c, Situation, 0)

Starts(c) ==
    /\ calls[c].stage = "off"
    /\ engines # <<>>
    /\ \A b \in 1..c - 1 : calls[b].stage # "off"
    /\ \/ \E a \in Candidates : Analyze(c, a)
       \/ AnalyzeSituation(c)

Generated(c) ==
    [by |-> c, cand |-> calls[c].cand, hat |-> calls[c].hat, at |-> now]

\* Mutant: an entry already there is kept beside the new one.
StoredBeside(cache, tree) == cache \cup {tree}

\* The new tree takes the place of the entry with its key, if there is one.
Stored(cache, tree) ==
    {t \in cache : ~SameKey(t.cand, tree.cand)} \cup {tree}

\* The LLM answers: the tree is stored, unless its lifetime is 0, in the cache
\* of the engine the call began on.
GenerateReturns(c) ==
    LET tree == Generated(c)
    IN  /\ calls[c].stage = "generate"
        /\ calls' = [calls EXCEPT ![c] = Answered(@, tree, c)]
        /\ engines' = IF calls[c].ttl = 0 THEN engines
                      ELSE [engines EXCEPT ![calls[c].engine].cache = Stored(@, tree)]
        /\ UNCHANGED <<now, tools>>

\* The LLM fails or writes no JSON: the turn ends with an exception.
GenerateFails(c) ==
    /\ calls[c].stage = "generate"
    /\ calls' = [calls EXCEPT ![c] = [Idle EXCEPT !.stage = "failed"]]
    /\ UNCHANGED <<now, tools, engines>>

CacheNext == \/ \E h \in Hats : Equip(h)
             \/ EquipStalls
             \/ Tick
             \/ \E c \in Calls : Starts(c) \/ GenerateReturns(c) \/ GenerateFails(c)

CacheSpec == CacheInit /\ [][CacheNext]_cacheVars

-----------------------------------------------------------------------------

Trees == [by : Calls, cand : Candidates, hat : Hats, at : Nat]

\* Every variable has its type, and a cache holds one tree for a key.
CacheTypeOK ==
    /\ now \in Nat /\ tools \in Hats \cup {NoHat}
    /\ engines \in Seq([hat : Hats, cache : SUBSET Trees])
    /\ \A i \in 1..Len(engines) : \A s, t \in engines[i].cache :
           SameKey(s.cand, t.cand) => s = t
    /\ \A c \in Calls : /\ calls[c].stage \in {"off", "generate", "done", "failed"}
                        /\ calls[c].engine \in 0..Len(engines)
                        /\ calls[c].ttl \in Nat

Done(c) == calls[c].stage = "done"

\* Whatever it shares, a call returns a tree for its own candidate: generated
\* for the same tool and the same shape of parameters, and bound to this call,
\* so that the audit names the parameters of this turn (ADR-033).
ReturnsOwnTree ==
    \A c \in Calls : Done(c) =>
        /\ calls[c].for = c
        /\ calls[c].tree.cand = calls[c].cand

\* A tree made for another call is younger than the lifetime its tool declares;
\* one whose lifetime is 0 is never shared.  While an equip is under way the
\* registry does not know the tool and the default lifetime takes its place.
SharedTreeIsFresh ==
    \A c \in Calls :
        LET t == calls[c].tree
        IN  Done(c) /\ calls[c].settled /\ t.by # c =>
                /\ calls[c].cand # Situation
                /\ \E b \in Calls : /\ b = t.by /\ Done(b)
                                    /\ calls[c].ended - calls[b].ended
                                           < Lifetime(calls[c].hat, calls[c].cand.tool)

\* No tree outlives its hat (ADR-033): a call that began after an equip returns
\* a tree made with the prompts of that hat, also when a generation of the hat
\* before ends after the equip.
NoTreeOfFormerHat ==
    \A c \in Calls : Done(c) => calls[c].tree.hat = calls[c].hat
=============================================================================
