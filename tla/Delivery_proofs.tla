--------------------------- MODULE Delivery_proofs ---------------------------
(***************************************************************************)
(* What the promise of Delivery amounts to, for any set of items.          *)
(***************************************************************************)
EXTENDS Delivery, TLAPS

OnceInv == log \in Seq(SUBSET Item) /\ EnteredOnce

LEMMA EnterOnce ==
  ASSUME OnceInv, NEW S \in SUBSET Item, Enter(S)
  PROVE  OnceInv'
<1>1. log \in Seq(SUBSET Item) /\ log' = Append(log, S) /\ doubted' = doubted
  BY DEF OnceInv, Enter
<1>2. /\ log' \in Seq(SUBSET Item)
      /\ \A i \in DOMAIN log' : \/ i \in DOMAIN log /\ log'[i] = log[i]
                                \/ i = Len(log) + 1 /\ log'[i] = S
  <2>1. log' \in Seq(SUBSET Item) /\ Len(log) \in Nat
    BY <1>1
  <2>2. DOMAIN log' = 1 .. Len(log) + 1 /\ DOMAIN log = 1 .. Len(log)
    BY <1>1
  <2>3. log'[Len(log) + 1] = S
    BY <1>1
  <2>4. \A i \in 1 .. Len(log) : log'[i] = log[i]
    BY <1>1
  <2> QED
    BY <2>1, <2>2, <2>3, <2>4
<1>3. \A i \in DOMAIN log : log[i] \cap S \subseteq doubted
  BY DEF Enter, Entered
<1>4. EnteredOnce'
  BY <1>1, <1>2, <1>3 DEF OnceInv, EnteredOnce
<1> QED
  BY <1>2, <1>4 DEF OnceInv

(* No item is entered twice unless a call about it went unanswered: neither  *)
(* giving up, nor accepting more, nor the order of the batches changes that. *)
THEOREM NeverEnteredTwice == Spec => []EnteredOnce
<1>1. Init => OnceInv
  BY DEF Init, OnceInv, EnteredOnce
<1>2. OnceInv /\ [Next]_vars => OnceInv'
  <2> SUFFICES ASSUME OnceInv, [Next]_vars PROVE OnceInv'
    OBVIOUS
  <2>1. ASSUME NEW S \in SUBSET Item, Enter(S) PROVE OnceInv'
    BY <2>1, EnterOnce
  <2>2. CASE log' = log /\ doubted \subseteq doubted'
    BY <2>2 DEF OnceInv, EnteredOnce
  <2> QED
    BY <2>1, <2>2 DEF Next, Accept, Doubt, Drop, vars
<1>3. OnceInv => EnteredOnce
  BY DEF OnceInv
<1> QED
  BY <1>1, <1>2, <1>3, PTL DEF Spec
=============================================================================
