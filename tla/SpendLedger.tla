---------------------------- MODULE SpendLedger -----------------------------
(***************************************************************************)
(* What the spend store promises, without its rows, versions, items, two    *)
(* phases per pot or recovery loop: a claim takes the same amount from      *)
(* every pot it draws on, in one step; it is decided at most once; and it   *)
(* is closed at most once, at exactly what was decided, by moving the       *)
(* difference in every one of its pots.  A claim may be let go at the       *)
(* operator's risk, and a charge that arrives later is still taken.         *)
(* AccountingLedger shows that Accounting implements this module.           *)
(***************************************************************************)
EXTENDS Integers

CONSTANTS
  Reservation,  \* who may claim money
  Pot,          \* what money is taken from
  Amount        \* what may be claimed or charged

VARIABLES
  claims,       \* per reservation: its state, pots, money held, charge decided
  taken         \* per pot: the money held by or charged to claims on it

State == {"none", "open", "due", "risk", "closed"}

NoClaim == [state |-> "none", pots |-> {}, hold |-> 0, charge |-> 0]

Init ==
  /\ claims = [r \in Reservation |-> NoClaim]
  /\ taken = [p \in Pot |-> 0]

Become(r, state, pots, hold, charge) ==
  claims' = [claims EXCEPT ![r] = [state |-> state, pots |-> pots,
                                   hold |-> hold, charge |-> charge]]

Move(pots, n) ==
  taken' = [p \in Pot |-> IF p \in pots THEN taken[p] + n ELSE taken[p]]

Undecided == {"open", "risk"}

Make(r, pots, n) ==
  /\ claims[r].state = "none"
  /\ Become(r, "open", pots, n, 0)
  /\ Move(pots, n)

\* The charge is recorded; no money moves yet.
Decide(r, n) ==
  /\ claims[r].state \in Undecided
  /\ Become(r, "due", claims[r].pots, claims[r].hold, n)
  /\ UNCHANGED taken

Closing(r, n) ==
  /\ Become(r, "closed", claims[r].pots, n, n)
  /\ Move(claims[r].pots, n - claims[r].hold)

\* The recorded charge is taken.
Close(r) ==
  /\ claims[r].state = "due"
  /\ Closing(r, claims[r].charge)

\* An operator decides and closes at once.
Resolve(r, n) ==
  /\ claims[r].state \in Undecided
  /\ Closing(r, n)

\* An operator lets the money go although a charge may still arrive.
LetGo(r) ==
  /\ claims[r].state = "open"
  /\ Become(r, "risk", claims[r].pots, 0, claims[r].charge)
  /\ Move(claims[r].pots, - claims[r].hold)

Next ==
  \E r \in Reservation :
    \/ \E pots \in SUBSET Pot, n \in Amount : Make(r, pots, n)
    \/ \E n \in Amount \cup {0} : Decide(r, n) \/ Resolve(r, n)
    \/ Close(r)
    \/ LetGo(r)

Spec == Init /\ [][Next]_<<claims, taken>>

=============================================================================
