----------------------------- MODULE PeriodBooks -----------------------------
(***************************************************************************)
(* What the ledger promises its readers, without requests and without      *)
(* snapshots of the database: every month is a book of journal entries,    *)
(* written in the order of their numbers.  Entries are only ever appended, *)
(* and only to an open book.  Closing seals the book together with a       *)
(* balance; a sealed book and its balance do not change until the month is *)
(* reopened.  A month disappears only when its predecessor is reopened.    *)
(***************************************************************************)
EXTENDS Naturals, Sequences

CONSTANTS
    LastMonth,  \* the calendar months are 1..LastMonth
    Entry       \* journal entries

Month == 1 .. LastMonth

VARIABLES
    state,    \* month -> "none", "open" or "sealed"
    book,     \* month -> its entries, by number
    balance   \* month -> the entries its sealed balance adds up

booksVars == <<state, book, balance>>

Init ==
    /\ state = [m \in Month |-> "none"]
    /\ book = [m \in Month |-> <<>>]
    /\ balance = [m \in Month |-> {}]

OpenMonth(m) ==
    /\ state[m] = "none"
    /\ state' = [state EXCEPT ![m] = "open"]
    /\ UNCHANGED <<book, balance>>

Write(m, e) ==
    /\ state[m] = "open"
    /\ book' = [book EXCEPT ![m] = Append(@, e)]
    /\ UNCHANGED <<state, balance>>

Seal(m, S) ==
    /\ state[m] = "open"
    /\ state' = [state EXCEPT ![m] = "sealed"]
    /\ balance' = [balance EXCEPT ![m] = S]
    /\ UNCHANGED book

Unseal(m) ==
    /\ state[m] = "sealed"
    /\ state' = [state EXCEPT ![m] = "open"]
    /\ balance' = [balance EXCEPT ![m] = {}]
    /\ UNCHANGED book

\* Reopening m takes its successor back when that was opened too early.
UnsealAndDiscard(m) ==
    /\ state[m] # "none"
    /\ state[m + 1] = "open"
    /\ state' = [state EXCEPT ![m] = "open", ![m + 1] = "none"]
    /\ book' = [book EXCEPT ![m + 1] = <<>>]
    /\ balance' = [balance EXCEPT ![m] = {}]

Next ==
    \E m \in Month :
        \/ OpenMonth(m)
        \/ \E e \in Entry : Write(m, e)
        \/ \E S \in SUBSET Entry : Seal(m, S)
        \/ Unseal(m)
        \/ m + 1 \in Month /\ UnsealAndDiscard(m)

Spec == Init /\ [][Next]_booksVars
=============================================================================
