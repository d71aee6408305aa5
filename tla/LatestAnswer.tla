---------------------------- MODULE LatestAnswer ----------------------------
(***************************************************************************)
(* What a part of the page that asks the server promises, however it asks: *)
(* it shows nothing, or one answer of the server.  What it shows changes   *)
(* only to an answer to the newest question, which is never older than an  *)
(* answer to the same question before it, or to nothing.                   *)
(***************************************************************************)
EXTENDS Naturals

CONSTANTS Questions, Nothing

VARIABLES version,    \* what the server knows
          question,   \* what the page asks now
          shown       \* the answer it shows


Init == version \in Nat /\ question \in Questions /\ shown = Nothing

Learn == /\ version' = version + 1
         /\ UNCHANGED <<question, shown>>
Ask == /\ question' \in Questions
       /\ shown' \in {shown, Nothing}
       /\ UNCHANGED version
Show == /\ \E v \in 0..version :
              /\ shown # Nothing /\ shown.to = question => shown.at <= v
              /\ shown' = [to |-> question, at |-> v]
        /\ UNCHANGED <<version, question>>
Forget == /\ shown' = Nothing
          /\ UNCHANGED <<version, question>>

Next == Learn \/ Ask \/ Show \/ Forget
Spec == Init /\ [][Next]_<<version, question, shown>>
=============================================================================
