------------------------------ MODULE RequestReply ------------------------------
(***************************************************************************)
(* What the gateway promises its agent, whatever the servers do: lines     *)
(* that ask for a reply get one each, in the order they were sent, and     *)
(* every one gets it unless a line that is not text ends the session.      *)
(***************************************************************************)
EXTENDS Sequences, Naturals

VARIABLES
    asked,      \* lines that ask for a reply, [line, id], by their numbers
    answered,   \* replies so far, by what they answer
    garbled,    \* a line that is not text was sent
    serving     \* the gateway has not ended

vars == <<asked, answered, garbled, serving>>

Init == asked = {} /\ answered = <<>> /\ garbled = FALSE /\ serving = TRUE

Waiting == {q \in asked : \A i \in DOMAIN answered : answered[i] # q}

Ask ==
    /\ \E q \in asked' : asked' = asked \cup {q} /\ \A p \in asked : p.line < q.line
    /\ UNCHANGED <<answered, garbled, serving>>

Garble == garbled' = TRUE /\ UNCHANGED <<asked, answered, serving>>

Answer ==
    /\ serving
    /\ \E q \in Waiting :
         /\ \A p \in Waiting : q.line <= p.line
         /\ answered' = Append(answered, q)
    /\ UNCHANGED <<asked, garbled, serving>>

Stop ==
    /\ serving /\ (garbled \/ Waiting = {})
    /\ serving' = FALSE
    /\ UNCHANGED <<asked, answered, garbled>>

Next == Ask \/ Garble \/ Answer \/ Stop

Spec == Init /\ [][Next]_vars /\ WF_vars(Answer)
=============================================================================
