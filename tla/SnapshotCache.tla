---------------------------- MODULE SnapshotCache ----------------------------
(***************************************************************************)
(* The response cache of the gold API (api/src/cache.py): a bounded LRU    *)
(* whose entries all belong to one Iceberg snapshot id.  Each operation    *)
(* holds the lock from beginning to end.  Snapshot ids count up, 0 is None.*)
(***************************************************************************)
EXTENDS Integers, SequencesExt

CONSTANT MaxEntries   \* capacity

ASSUME CacheAssumption == MaxEntries \in Nat \ {0}

VARIABLES cacheId,   \* the snapshot the entries are scoped to
          entries    \* [key, value], least recently used first

cacheVars == <<cacheId, entries>>

CacheInit == cacheId = 0 /\ entries = <<>>

Cached(key) == \E i \in DOMAIN entries : entries[i].key = key

Place(key) == CHOOSE i \in DOMAIN entries : entries[i].key = key

EntryOf(key) == entries[Place(key)]

Without(key) == IF Cached(key) THEN RemoveAt(entries, Place(key)) ELSE entries

\* Entries after a lookup under a snapshot id: a hit becomes the most recent.
Touched(key) == IF Cached(key) THEN Append(Without(key), EntryOf(key)) ELSE entries

Hit(id, key) == id = cacheId /\ Cached(key)

Get(id, key) ==
    /\ cacheId' = id
    /\ entries' = IF id = cacheId THEN Touched(key) ELSE <<>>

LastN(seq, n) == IF Len(seq) <= n THEN seq ELSE SubSeq(seq, Len(seq) - n + 1, Len(seq))

\* Mutant: a value built under another snapshot joins the entries there are.
MutantPut(id, key, value) ==
    /\ entries' = LastN(Append(Without(key), [key |-> key, value |-> value]),
                        MaxEntries)
    /\ UNCHANGED cacheId

\* Mutant: nothing is evicted.
MutantPutUnbounded(id, key, value) ==
    /\ cacheId' = id
    /\ LET kept == IF id = cacheId THEN Without(key) ELSE <<>>
       IN  entries' = Append(kept, [key |-> key, value |-> value])

Put(id, key, value) ==
    /\ cacheId' = id
    /\ LET kept == IF id = cacheId THEN Without(key) ELSE <<>>
       IN  entries' = LastN(Append(kept, [key |-> key, value |-> value]), MaxEntries)
=============================================================================
