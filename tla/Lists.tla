-------------------------------- MODULE Lists --------------------------------
(* The doubly linked lists of src/FFND/dl_lists.c: a ring of nodes with one    *)
(* head node, which carries no data.  Any node of a ring stands for the list.  *)
(*                                                                            *)
(* Malloc gives a node that is not in use.  That it may fail is left out: the *)
(* functions return NULL before they have changed anything.                   *)
EXTENDS Integers, Sequences, FiniteSets, SequencesExt

CONSTANTS
    Nodes,      \* the memory for nodes
    Items,      \* variables, formats, ...: what nodes carry
    Similar,    \* pairs of items which the comparison of list_replace_items takes for the same
    Nil

\* Memory is finite, and no node is NULL; the comparison may be any function
ASSUME NodesAssumption == IsFiniteSet(Nodes) /\ Nil \notin Nodes \cup Items

VARIABLES
    kind,       \* data.type: "head", "none" (a new node), "data"; "free": not allocated
    next, prev, \* the pointers
    item,       \* data.u
    destroyed,  \* the items that have been destroyed
    walk        \* list_replace_items: the list, its two walkers, and what it began with

listVars == <<kind, next, prev, item, destroyed, walk>>

NotWalking == [on |-> FALSE, at |-> Nil, walker |-> Nil, before |-> <<>>, lost |-> {}]

ListsInit ==
    /\ kind = [n \in Nodes |-> "free"]
    /\ next = [n \in Nodes |-> Nil] /\ prev = [n \in Nodes |-> Nil]
    /\ item = [n \in Nodes |-> Nil]
    /\ destroyed = {} /\ walk = NotWalking

Allocated == {n \in Nodes : kind[n] # "free"}
Free == Nodes \ Allocated
Malloc == CHOOSE n \in Nodes : Free = {} \/ n \in Free

\* dll_rewind: go on to the head
Rewind(n) ==
    LET after[i \in 0 .. Cardinality(Nodes)] == IF i = 0 THEN n ELSE next[after[i - 1]]
    IN  after[CHOOSE i \in DOMAIN after :
                  /\ kind[after[i]] = "head"
                  /\ \A j \in 0 .. i - 1 : kind[after[j]] # "head"]
First(n) == next[Rewind(n)]

\* The nodes behind the head, in order
Ring(h) ==
    LET after[i \in 0 .. Cardinality(Nodes)] == IF i = 0 THEN next[h] ELSE next[after[i - 1]]
        size == CHOOSE i \in DOMAIN after :
                    after[i] = h /\ \A j \in 0 .. i - 1 : after[j] # h
    IN  [i \in 1 .. size |-> after[i - 1]]

-----------------------------------------------------------------------------
(* Building *)

\* dll_node_create
Blank_Stale(n) == item
Blank(n) == [item EXCEPT ![n] = Nil]

\* dll_init
Create(n) ==
    /\ n \in Free /\ n = Malloc
    /\ kind' = [kind EXCEPT ![n] = "head"]
    /\ next' = [next EXCEPT ![n] = n] /\ prev' = [prev EXCEPT ![n] = n]
    /\ item' = Blank(n)
    /\ UNCHANGED <<destroyed, walk>>

\* dll_insert: a new node before n
Linked_NextOnly(new, n) ==
    /\ next' = [next EXCEPT ![new] = n, ![prev[n]] = new]
    /\ prev' = [prev EXCEPT ![new] = prev[n]]
Linked(new, n) ==
    /\ next' = [next EXCEPT ![new] = n, ![prev[n]] = new]
    /\ prev' = [prev EXCEPT ![new] = prev[n], ![n] = new]
Insert(n) ==
    /\ n \in Allocated
    /\ Free # {}
    /\ kind' = [kind EXCEPT ![Malloc] = "none"]
    /\ item' = Blank(Malloc)
    /\ Linked(Malloc, n)
    /\ UNCHANGED <<destroyed, walk>>

\* dll_add: to the end of the list
Add(n) == n \in Allocated /\ Insert(Rewind(n))

\* dll_assign
Assign(n, x) ==
    /\ kind[n] = "none"
    /\ kind' = [kind EXCEPT ![n] = "data"]
    /\ item' = [item EXCEPT ![n] = x]
    /\ UNCHANGED <<next, prev, destroyed, walk>>

-----------------------------------------------------------------------------
(* Deleting *)

\* dll_disconnect_node
Disconnected_Halfway(n) ==
    /\ next' = [next EXCEPT ![prev[n]] = next[n], ![n] = Nil]
    /\ prev' = [prev EXCEPT ![n] = Nil]
Disconnected(n) ==
    /\ next' = [next EXCEPT ![prev[n]] = next[n], ![n] = Nil]
    /\ prev' = [prev EXCEPT ![next[n]] = prev[n], ![n] = Nil]
Freed(n) == kind' = [kind EXCEPT ![n] = "free"]

\* dll_destroy_data: a node without a type is a failed assertion
WithDestroyed_Next(n) == destroyed \cup {item[next[n]]}
WithDestroyed(n) == destroyed \cup {item[n]}
Delete(n) ==
    /\ kind[n] = "data"
    /\ Disconnected(n) /\ Freed(n)
    /\ destroyed' = WithDestroyed(n)
    /\ UNCHANGED <<item, walk>>

\* dll_delete_node: the caller keeps the data
DeleteNode(n) ==
    /\ kind[n] \in {"data", "none"}
    /\ Disconnected(n) /\ Freed(n)
    /\ UNCHANGED <<item, destroyed, walk>>

\* dll_free_holdings and dll_free_list: first node after first node, and the head
AllFreed(h) ==
    LET gone == Range(Ring(h)) \cup {h} IN
    /\ kind' = [n \in Nodes |-> IF n \in gone THEN "free" ELSE kind[n]]
    /\ next' = [n \in Nodes |-> IF n \in gone THEN Nil ELSE next[n]]
    /\ prev' = [n \in Nodes |-> IF n \in gone THEN Nil ELSE prev[n]]
FreeHoldings(n) ==
    /\ n \in Allocated
    /\ \A m \in Range(Ring(Rewind(n))) : kind[m] = "data"
    /\ AllFreed(Rewind(n))
    /\ destroyed' = destroyed \cup {item[m] : m \in Range(Ring(Rewind(n)))}
    /\ UNCHANGED <<item, walk>>
FreeList(n) ==
    /\ n \in Allocated
    /\ AllFreed(Rewind(n))
    /\ UNCHANGED <<item, destroyed, walk>>

-----------------------------------------------------------------------------
(* list_replace_items: of items that are the same only the last one is kept.   *)
(* It deletes nodes of the list it walks.                                     *)

Contents(h) == [i \in DOMAIN Ring(h) |-> item[Ring(h)[i]]]

BeginReplace(n) ==
    /\ n \in Allocated
    /\ \A m \in Range(Ring(Rewind(n))) : kind[m] = "data"
    /\ walk' = [on |-> TRUE, at |-> First(n), walker |-> Nil,
                before |-> Contents(Rewind(n)), lost |-> {}]
    /\ UNCHANGED <<kind, next, prev, item, destroyed>>

EndReplace ==
    /\ walk.on /\ kind[walk.at] = "head"
    /\ walk' = NotWalking
    /\ UNCHANGED <<kind, next, prev, item, destroyed>>

\* list_walker starts behind list
StartWalker ==
    /\ walk.on /\ kind[walk.at] # "head" /\ walk.walker = Nil
    /\ walk' = [walk EXCEPT !.walker = next[walk.at]]
    /\ UNCHANGED <<kind, next, prev, item, destroyed>>

\* The same item comes again: back to the node before, delete, and on
Resume_Behind(n) == next[n]
Resume(n) == prev[n]
Replace ==
    /\ walk.on /\ walk.walker # Nil /\ kind[walk.walker] # "head"
    /\ <<item[walk.at], item[walk.walker]>> \in Similar
    /\ Disconnected(walk.at) /\ Freed(walk.at)
    /\ destroyed' = WithDestroyed(walk.at)
    /\ walk' = [walk EXCEPT !.at = next'[Resume(walk.at)], !.walker = Nil,
                            !.lost = @ \cup {item[walk.at]}]
    /\ UNCHANGED item

PassOn_FromItem ==
    /\ walk.on /\ walk.walker # Nil /\ kind[walk.walker] # "head"
    /\ <<item[walk.at], item[walk.walker]>> \notin Similar
    /\ walk' = [walk EXCEPT !.walker = next[walk.at]]
    /\ UNCHANGED <<kind, next, prev, item, destroyed>>
PassOn ==
    /\ walk.on /\ walk.walker # Nil /\ kind[walk.walker] # "head"
    /\ <<item[walk.at], item[walk.walker]>> \notin Similar
    /\ walk' = [walk EXCEPT !.walker = next[@]]
    /\ UNCHANGED <<kind, next, prev, item, destroyed>>

NextItem ==
    /\ walk.on /\ walk.walker # Nil /\ kind[walk.walker] = "head"
    /\ walk' = [walk EXCEPT !.at = next[@], !.walker = Nil]
    /\ UNCHANGED <<kind, next, prev, item, destroyed>>

Replacing == StartWalker \/ Replace \/ PassOn \/ NextItem \/ EndReplace

Held == {item[n] : n \in Allocated} \ {Nil}
ListCalls ==
    /\ ~walk.on
    /\ \E n \in Nodes :
         \/ Create(n) \/ Insert(n) \/ Add(n) \/ Delete(n) \/ DeleteNode(n)
         \/ FreeHoldings(n) \/ FreeList(n) \/ BeginReplace(n)
         \/ \E x \in Items \ (Held \cup destroyed) : Assign(n, x)

ListsNext == ListCalls \/ Replacing
ListsSpec == ListsInit /\ [][ListsNext]_listVars /\ WF_listVars(Replacing)

-----------------------------------------------------------------------------
(* Properties *)

Heads == {n \in Nodes : kind[n] = "head"}

\* Every node in use is in the ring of one head, and the pointers backward are
\* those forward reversed (dll_insert, dll_disconnect_node).
RingsClosed ==
    /\ \A n \in Allocated : /\ next[n] \in Allocated /\ prev[n] \in Allocated
                            /\ prev[next[n]] = n /\ next[prev[n]] = n
    /\ \A n \in Allocated \ Heads : \E h \in Heads : n \in Range(Ring(h))
    /\ \A h \in Heads : Range(Ring(h)) \cap Heads = {}

\* No item is held by two nodes, nor held after it has been destroyed.
OwnedOnce ==
    /\ \A m, n \in Allocated : item[m] = item[n] /\ item[m] # Nil => m = n
    /\ Held \cap destroyed = {}

\* When list_replace_items is done, the items that are gone are those that come
\* again later, and none else.
Superseded ==
    {walk.before[i] : i \in {j \in DOMAIN walk.before :
        \E k \in j + 1 .. Len(walk.before) : <<walk.before[j], walk.before[k]>> \in Similar}}
LastKept == [][walk.on /\ ~walk'.on => walk.lost = Superseded]_listVars

\* list_replace_items comes to the end of the list that it shortens.
ReplaceEnds == walk.on ~> ~walk.on

\* What a list carries: its nodes that have been assigned an item
Filled(s) ==
    LET got[i \in 0 .. Len(s)] ==
          IF i = 0 THEN <<>> ELSE IF s[i] = Nil THEN got[i - 1] ELSE Append(got[i - 1], s[i])
    IN  got[Len(s)]
Carried == [h \in Heads |-> Filled(Contents(h))]

\* The lists are the sequences of ItemLists, and their rings are whole.
Abstract == INSTANCE ItemLists WITH Lists <- Nodes, content <- Carried
KeepsSequences == [](RingsClosed /\ OwnedOnce) /\ Abstract!Spec
=============================================================================
