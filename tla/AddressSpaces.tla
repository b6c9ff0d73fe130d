---------------------------- MODULE AddressSpaces ---------------------------
(***************************************************************************)
(* What virtual memory promises to processes: each has a partial function  *)
(* from pages to contents of its own.  Nothing a process stores, maps or   *)
(* unmaps shows in another one, a page just mapped is zero or comes from   *)
(* the binary, and a child starts with a copy of its parent's pages.       *)
(* Module Paging implements it with frames, three-level page tables and a  *)
(* TLB.                                                                    *)
(***************************************************************************)
CONSTANTS
    Space,      \* the address spaces
    Vpn,        \* the pages of an address space
    Fresh,      \* what a page just mapped may contain
    Contents    \* what can be stored in a page

VARIABLE memory     \* per space: page -> contents

Nothing == [v \in {} |-> Fresh]

Init == memory = [s \in Space |-> Nothing]

\* What can happen to the pages m of one space: they become n.
Map(m, n) ==
    \E v \in Vpn \ DOMAIN m, x \in Fresh :
        n = [w \in DOMAIN m \cup {v} |-> IF w = v THEN x ELSE m[w]]

Unmap(m, n) == \E v \in DOMAIN m : n = [w \in DOMAIN m \ {v} |-> m[w]]

\* A store, or one that crosses pages.
Store(m, n) ==
    /\ DOMAIN n = DOMAIN m
    /\ \E x \in Contents : \A v \in DOMAIN m : n[v] \in {m[v], x}

Fork(m, n) == m = Nothing /\ \E p \in Space : n = memory[p]

Clear(m, n) == n = Nothing

Change(m, n) == Map(m, n) \/ Unmap(m, n) \/ Store(m, n) \/ Fork(m, n) \/ Clear(m, n)

Next ==
    \E s \in Space :
        /\ \A t \in Space \ {s} : memory'[t] = memory[t]
        /\ Change(memory[s], memory'[s])

Spec == Init /\ [][Next]_memory
=============================================================================
