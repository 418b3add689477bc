------------------------------ MODULE ItemLists ------------------------------
(* What the lists of src/FFND/dl_lists.c promise: each list is a sequence of   *)
(* items, an item is in one list at a time, and an item that has been         *)
(* destroyed is in none.                                                      *)
EXTENDS Sequences, SequencesExt

CONSTANTS Lists, Items

VARIABLES
    content,    \* the lists that exist, each with its sequence of items
    destroyed   \* the items that exist no more

Listed == UNION {Range(content[l]) : l \in DOMAIN content}
Unused == Items \ (Listed \cup destroyed)

Init == content = <<>> /\ destroyed = {}

Create == \E l \in Lists \ DOMAIN content :
    /\ content' = [m \in DOMAIN content \cup {l} |-> IF m = l THEN <<>> ELSE content[m]]
    /\ UNCHANGED destroyed
\* At a place of a list
Insert == \E l \in DOMAIN content, x \in Unused : \E i \in 1 .. Len(content[l]) + 1 :
    /\ content' = [content EXCEPT ![l] = InsertAt(@, i, x)]
    /\ UNCHANGED destroyed
\* From a place of a list, with or without its data
TakeOut == \E l \in DOMAIN content : \E i \in 1 .. Len(content[l]) :
    /\ content' = [content EXCEPT ![l] = RemoveAt(@, i)]
    /\ destroyed' \in {destroyed, destroyed \cup {content[l][i]}}
Drop == \E l \in DOMAIN content :
    /\ content' = [m \in DOMAIN content \ {l} |-> content[m]]
    /\ destroyed' \in {destroyed, destroyed \cup Range(content[l])}

Next == Create \/ Insert \/ TakeOut \/ Drop
Spec == Init /\ [][Next]_<<content, destroyed>>
=============================================================================
