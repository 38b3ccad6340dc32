------------------------------ MODULE RefCache ------------------------------
(***************************************************************************)
(* What pdlfs's LRUCache (lru.h) promises the code that uses it, with      *)
(* every entry charged 1, as all of DeltaFS charges them.                  *)
(*                                                                         *)
(* A handle is an Entry.  It is counted: one reference per client that     *)
(* holds it and one of the cache's own while it is "in" the cache.  An     *)
(* entry whose last reference goes is deleted (refs = 0 means the entry    *)
(* is free memory).  Entries that only the cache references are idle and   *)
(* any of them may be evicted; which one is LRUCache's business.           *)
(*                                                                         *)
(* The actions constrain key, refs and cached only, so that a component    *)
(* instantiates this module and conjoins them with its own updates.        *)
(***************************************************************************)
EXTENDS Naturals, FiniteSets

CONSTANTS Entry,     \* the addresses a handle may have
          Key,       \* the keys entries are looked up by
          Capacity   \* how many entries the cache may hold

VARIABLES key,       \* key[e]: the key entry e was inserted under
          refs,      \* refs[e]: references on e; 0 when e is free memory
          cached     \* the entries that are "in" the cache

cacheVars == <<key, refs, cached>>

TypeOK == /\ key \in [Entry -> Key]
          /\ refs \in [Entry -> Nat]
          /\ cached \in SUBSET Entry

Live == {e \in Entry : refs[e] > 0}

Idle == {e \in cached : refs[e] = 1}

\* No entry in the cache has this key.
Miss(k) == \A e \in cached : key[e] # k

Init == /\ key \in [Entry -> Key]
        /\ refs = [e \in Entry |-> 0]
        /\ cached = {}

\* Add a client reference to a live entry.
Ref(e) == /\ refs' = [refs EXCEPT ![e] = @ + 1]
          /\ UNCHANGED <<key, cached>>

\* Find key k in the cache and hand out a reference to its entry.
Lookup(k, e) == /\ e \in cached
                /\ key[e] = k
                /\ Ref(e)

\* Give a client reference back; the entry is deleted when it was the last.
Release(e) == /\ refs' = [refs EXCEPT ![e] = @ - 1]
              /\ UNCHANGED <<key, cached>>

\* The references left when the cache gives up those it has on the entries of S.
Dropped(S) == [e \in Entry |-> IF e \in S THEN refs[e] - 1 ELSE refs[e]]

\* A cache that holds the entries of S can take one more.
HasRoom(S) == Cardinality(S) < Capacity

\* Put a new entry under key k and hand a reference to it to the client.  An
\* entry already cached under k leaves the cache.  When that leaves no room, one
\* idle entry goes; when none is idle, the new entry is not cached at all.
Insert(k, e) ==
    LET old  == {x \in cached : key[x] = k}
        kept == cached \ old
    IN /\ refs[e] = 0
       /\ key' = [key EXCEPT ![e] = k]
       /\ \/ /\ HasRoom(kept)
             /\ cached' = kept \cup {e}
             /\ refs' = [Dropped(old) EXCEPT ![e] = 2]
          \/ /\ ~HasRoom(kept)
             /\ \E victim \in kept \cap Idle :
                   /\ cached' = (kept \ {victim}) \cup {e}
                   /\ refs' = [Dropped(old \cup {victim}) EXCEPT ![e] = 2]
          \/ /\ ~HasRoom(kept)
             /\ kept \cap Idle = {}
             /\ cached' = kept
             /\ refs' = [Dropped(old) EXCEPT ![e] = 1]

\* Take the entries of S, all of them cached, out of the cache.
Evict(S) == /\ cached' = cached \ S
            /\ refs' = Dropped(S)
            /\ UNCHANGED key

\* A client only releases what it holds.
Next == \/ \E e \in Entry, k \in Key : Insert(k, e) \/ Lookup(k, e)
        \/ \E e \in Live : Ref(e)
        \/ \E e \in Live : refs[e] > (IF e \in cached THEN 1 ELSE 0) /\ Release(e)
        \/ \E S \in SUBSET cached : Evict(S)

Spec == Init /\ [][Next]_cacheVars
=============================================================================
