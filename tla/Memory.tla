-------------------------------- MODULE Memory --------------------------------
(***************************************************************************)
(* The memory provider: the connection to SurrealDB that its callers open  *)
(* lazily and share, and what they store there.  An extraction stores an   *)
(* episode, then its entities, then its relationships, one by one.  The    *)
(* in-memory provider needs no connection and never suspends.              *)
(***************************************************************************)
EXTENDS Integers, Sequences

CONSTANTS
    Found,         \* bound: entities that a search finds
    Extractions    \* <<n, m>>: entities and relationships that the LLM extracts

ASSUME MemoryAssumption == Found \in Nat /\ Extractions \subseteq Nat \X Nat

VARIABLES
    db,        \* SurrealMemoryProvider._db: none, being opened, or ready for use
    stored     \* <<turn, item>>: what the extraction of a turn has stored

memoryVars == <<db, stored>>

\* Whether a caller of _connect opens the connection; every later one finds an
\* object in _db and goes on with it, opened or not.
Opens == db = "none"

Connecting == db' = IF Opens THEN "opening" ELSE db

\* connect, signin and use are done.
Connected == db' = "ready"

\* What recall asks for, n entities being found: the search, and per entity, of
\* the first three, its episodes and relationships.
Recall(n) == <<<<"search", 0>>>>
             \o [i \in 1..2 * (IF n < 3 THEN n ELSE 3) |->
                     <<IF i % 2 = 1 THEN "episodes" ELSE "edges", (i + 1) \div 2>>]

\* Mutant: relationships before the entities they relate.
ItemsByName(n, m) == <<<<"episode", 0>>>> \o [i \in 1..m |-> <<"relationship", i>>]
                                        \o [i \in 1..n |-> <<"entity", i>>]

\* What extract_and_store stores of n entities and m relationships.
Items(n, m) == <<<<"episode", 0>>>> \o [i \in 1..n |-> <<"entity", i>>]
                                    \o [i \in 1..m |-> <<"relationship", i>>]

Writes == {"episode", "entity", "relationship"}

\* The database does what it is asked, over a connection that is ready.
Stores(turn, item) ==
    /\ db = "ready"
    /\ stored' = IF item[1] \in Writes THEN stored \cup {<<turn, item>>} ELSE stored

\* The in-memory provider stores everything at once.
StoresAll(turn, items) == stored' = stored \cup {<<turn, items[i]>> : i \in DOMAIN items}
=============================================================================
