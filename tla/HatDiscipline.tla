----------------------------- MODULE HatDiscipline -----------------------------
(***************************************************************************)
(* HatRegistry with and without discipline.  Nothing in the code keeps two *)
(* equips apart, but a deployment may: its first equip is over before the  *)
(* next begins, and its hats all build.  Whether it does is chosen at the  *)
(* start.  What an equip owes only to disciplined callers is stated here,  *)
(* next to what HatRegistry owes to all.                                   *)
(***************************************************************************)
EXTENDS HatRegistry

VARIABLE disciplined

DisciplineInit == HatInit /\ disciplined \in BOOLEAN

\* A disciplined caller waits for the equip under way, and has whole hats.
MayEquip(h) == disciplined => /\ \A u \in Tasks : ~Awaiting(u)
                              /\ h \notin BrokenHats

DisciplineNext ==
    /\ \E t \in Tasks : \/ \E h \in Hats : MayEquip(h) /\ BeginEquip(t, h)
                        \/ Resumes(t)
    /\ UNCHANGED disciplined

DisciplineSpec ==
    DisciplineInit /\ [][DisciplineNext]_<<hatVars, disciplined>> /\ HatFairness

-----------------------------------------------------------------------------

Owners == {equipped.tools[u] : u \in Tools} \ {NoHat}

Quiescent == \A t \in Tasks : ~Awaiting(t)

\* No overlap of hats (ADR-010): with discipline the registry never holds the
\* tools of two hats, not even in the middle of an equip or after one that
\* failed to load or to connect.
NoOverlap == disciplined => \A a, b \in Owners : a = b

\* The active hat is whole: with discipline, while a hat is active and no equip
\* is under way, exactly its tools are registered, each one its own, and the
\* webhook router is its router or none.
ActiveHatIsWhole ==
    disciplined /\ Quiescent /\ equipped.active # NoHat =>
        /\ \A u \in Tools : equipped.tools[u] =
               IF u \in HatTools[equipped.active] THEN equipped.active ELSE NoHat
        /\ equipped.hooks = IF equipped.active \in WebhookHats
                            THEN equipped.active ELSE NoHat

\* No client outlives its hat: with discipline the only MCP client open between
\* two equips is the one of the last hat that got as far as its services.
NoLeakedClient ==
    disciplined /\ Quiescent =>
        /\ Cardinality(equipped.clients) <= 1
        /\ equipped.active # NoHat =>
               equipped.clients = {equipped.active} \cap RemoteHats
=============================================================================
