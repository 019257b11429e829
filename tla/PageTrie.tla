------------------------------ MODULE PageTrie ------------------------------
(***************************************************************************)
(* What a prefix cache promises its callers, page by page: the state       *)
(* machine over the operators of PrefixTrie.  A request is handed the      *)
(* longest cached prefix of its prompt (a shorter one where recurrent      *)
(* state caps the match) and keeps it locked; what a request computed is   *)
(* added without touching what is there; what nobody locked may go, leaves *)
(* first.  RadixCache implements this specification, and KVScheduler is    *)
(* written against it.                                                     *)
(***************************************************************************)
EXTENDS PrefixTrie

CONSTANTS Users, Streams, NoHandle

VARIABLES
    capped,   \* may a match be cut short?
    tree,     \* path -> page
    refs,     \* path -> ref_count
    held      \* user -> the path it holds locked, or NoHandle

vars == <<capped, tree, refs, held>>

Init ==
    /\ capped \in BOOLEAN
    /\ tree = << >> /\ refs = << >>
    /\ held = [u \in Users |-> NoHandle]

Offers(ids) ==
    IF capped THEN { PathTo(ids, k) : k \in 0..MatchedPages(tree, ids) }
    ELSE {MatchPrefix(tree, ids)}

Admit(u) ==
    /\ held[u] = NoHandle
    /\ \E s \in Streams : \E h \in Offers(SubSeq(s, 1, Len(s) - 1)) :
          /\ held' = [held EXCEPT ![u] = h]
          /\ refs' = Lock(refs, h)
          /\ UNCHANGED <<capped, tree>>

\* The paths of ids the trie lacked have a page now, and the trie keeps
\* every page it had, one path each.
Adds(ids) ==
    /\ DOMAIN tree' = DOMAIN tree \cup PathsOf(ids)
    /\ \A n \in DOMAIN tree : tree'[n] = tree[n]
    /\ \A m, n \in DOMAIN tree' : tree'[m] = tree'[n] => m = n

Cache(u) ==
    /\ held[u] # NoHandle
    /\ \E s \in Streams : \E k \in 0..(Len(s) \div PageSize) :
          LET ids == PathTo(s, k)
          IN  /\ held' = [held EXCEPT ![u] = ids]
              /\ Adds(ids)
              /\ refs' = Lock(Unlock(InsertRefs(refs, ids), held[u]), ids)
    /\ UNCHANGED capped

Finish(u) ==
    /\ held[u] # NoHandle
    /\ held' = [held EXCEPT ![u] = NoHandle]
    /\ \E s \in Streams : \E k \in 0..(Len(s) \div PageSize) :
          LET ids == PathTo(s, k)
          IN  Adds(ids) /\ refs' = Unlock(InsertRefs(refs, ids), held[u])
    /\ UNCHANGED capped

Evict ==
    /\ UNCHANGED <<capped, held>>
    /\ \E gone \in EvictionSets(refs, 1) :
          tree' = Without(tree, gone) /\ refs' = Without(refs, gone)

Next == Evict \/ \E u \in Users : Admit(u) \/ Cache(u) \/ Finish(u)

Spec == Init /\ [][Next]_vars
=============================================================================
