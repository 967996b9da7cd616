--------------------------- MODULE PaymentPromise ---------------------------
(***************************************************************************)
(* What online payments promise, with no attempts, pages or jobs in sight: *)
(* money a customer gave is written down as one payment, or refused with a *)
(* reason for a person to decide on; nothing is written, and nothing is    *)
(* refused, that no customer paid.  Checkout implements this.              *)
(***************************************************************************)
CONSTANT Attempts

VARIABLES money,   \* what the provider took for each attempt
          books    \* what the shop's books say of it

vars == <<money, books>>

Init == /\ money = [a \in Attempts |-> "none"]
        /\ books = [a \in Attempts |-> "silent"]

\* The customer pays a.
Take(a) == /\ money[a] = "none"
           /\ money' = [money EXCEPT ![a] = "taken"]
           /\ UNCHANGED books

\* a's payment is written; a refusal may be overtaken by a run that wrote it.
Write(a) == /\ money[a] = "taken" /\ books[a] # "written"
            /\ books' = [books EXCEPT ![a] = "written"]
            /\ UNCHANGED money

\* a's payment is refused, and left to a person.
Refuse(a) == /\ money[a] = "taken" /\ books[a] = "silent"
             /\ books' = [books EXCEPT ![a] = "refused"]
             /\ UNCHANGED money

Next == \E a \in Attempts : Take(a) \/ Write(a) \/ Refuse(a)

Spec == Init /\ [][Next]_vars
=============================================================================
