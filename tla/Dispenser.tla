------------------------------ MODULE Dispenser ------------------------------
(***************************************************************************)
(* What a warm pool promises to its callers, with the refiller, the        *)
(* channel, the runtime calls and the order of the stack abstracted away:  *)
(* items that were never seen before are put in stock, each is taken at    *)
(* most once, and closing empties the stock for good.                      *)
(***************************************************************************)
CONSTANT Items

VARIABLES stock, taken, used, open

dispenserVars == <<stock, taken, used, open>>

Init == stock = {} /\ taken = {} /\ used = {} /\ open = TRUE

(* An item stays used for ever: no item is stocked twice.                  *)
Stock(item) ==
    /\ open /\ item \notin used
    /\ stock' = stock \cup {item}
    /\ used' = used \cup {item}
    /\ UNCHANGED <<taken, open>>

Take(item) ==
    /\ open /\ item \in stock
    /\ stock' = stock \ {item}
    /\ taken' = taken \cup {item}
    /\ UNCHANGED <<used, open>>

Close ==
    /\ open
    /\ open' = FALSE
    /\ stock' = {}
    /\ UNCHANGED <<taken, used>>

(* An item that was made and never reaches the stock.                      *)
Spoil(item) ==
    /\ item \notin used
    /\ used' = used \cup {item}
    /\ UNCHANGED <<stock, taken, open>>

Next == Close \/ \E item \in Items : Stock(item) \/ Take(item) \/ Spoil(item)

Spec == Init /\ [][Next]_dispenserVars
=============================================================================
