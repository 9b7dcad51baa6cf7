--------------------------- MODULE DeliveryPromise ---------------------------
(***************************************************************************)
(* What the webhook queue promises its producers, whatever crashes and     *)
(* whoever races: a delivery it has accepted is owed until a receiver has  *)
(* accepted it or it has been dead-lettered.  A settled delivery may be    *)
(* owed again (a duplicate) and a settled delivery may stop being owed; an *)
(* unsettled one may not.                                                  *)
(***************************************************************************)
EXTENDS Naturals

CONSTANT Deliveries  \* the <<endpoint, message>> pairs

VARIABLES owed,      \* deliveries the queue still holds
          settled    \* deliveries accepted by a receiver or dead-lettered

promiseVars == <<owed, settled>>

PromiseInit == owed = {} /\ settled = {}

\* Deliveries enter the queue: fresh ones, or copies of settled ones.
Accept(K) == owed' = owed \cup K /\ UNCHANGED settled

\* A receiver accepts a delivery, or it is dead-lettered.
Settle(k) == k \in owed \cup settled /\ settled' = settled \cup {k} /\ UNCHANGED owed

\* The queue forgets a delivery, once it is settled.
Forget(k) == k \in settled /\ owed' = owed \ {k} /\ UNCHANGED settled

PromiseNext ==
    \/ \E K \in SUBSET Deliveries : Accept(K)
    \/ \E k \in Deliveries : Settle(k) \/ Forget(k)

PromiseSpec == PromiseInit /\ [][PromiseNext]_promiseVars
=============================================================================
