------------------------------- MODULE MailStore -------------------------------
(***************************************************************************)
(* What the server promises to whoever sends a letter through it: a letter *)
(* gets one copy for every box it is for.  A copy is first kept, then shown *)
(* to the readers of its box, and one for a foreign domain is taken away    *)
(* when it has been sent on.  Copies are made and shown before the letter   *)
(* is answered, and it is answered once; 250 says that every copy is kept,  *)
(* and what is kept stays.                                                  *)
(***************************************************************************)
EXTENDS Naturals, Sequences

CONSTANTS Letters, Users, Domains, MaxCopies

VARIABLES
    boxes,     \* the boxes that each letter is for
    stage,     \* how far each copy has come
    answer     \* what was said about each letter

svars == <<boxes, stage, answer>>

Copies == Letters \X (1 .. MaxCopies)
Stages == {"none", "kept", "shown", "taken"}

StoreInit ==
    /\ boxes = [l \in Letters |-> <<>>]
    /\ stage = [c \in Copies |-> "none"]
    /\ answer = [l \in Letters |-> "none"]

Accept(l, bs) ==
    /\ answer[l] = "none"
    /\ boxes' = [boxes EXCEPT ![l] = bs]
    /\ answer' = [answer EXCEPT ![l] = "sent"]
    /\ UNCHANGED stage

Keep(c) ==
    /\ answer[c[1]] = "sent" /\ c[2] \in DOMAIN boxes[c[1]]
    /\ stage[c] = "none"
    /\ stage' = [stage EXCEPT ![c] = "kept"]
    /\ UNCHANGED <<boxes, answer>>

Show(c) ==
    /\ answer[c[1]] = "sent"
    /\ stage[c] = "kept"
    /\ stage' = [stage EXCEPT ![c] = "shown"]
    /\ UNCHANGED <<boxes, answer>>

Take(c) ==
    /\ stage[c] = "shown" /\ boxes[c[1]][c[2]] \in Domains
    /\ stage' = [stage EXCEPT ![c] = "taken"]
    /\ UNCHANGED <<boxes, answer>>

Acknowledge(l) ==
    /\ answer[l] = "sent"
    /\ \A i \in DOMAIN boxes[l] : stage[<<l, i>>] # "none"
    /\ answer' = [answer EXCEPT ![l] = "250"]
    /\ UNCHANGED <<boxes, stage>>

Refuse(l) ==
    /\ answer[l] = "sent"
    /\ answer' = [answer EXCEPT ![l] = "451"]
    /\ UNCHANGED <<boxes, stage>>

StoreNext ==
    \/ \E l \in Letters : Acknowledge(l) \/ Refuse(l)
    \/ \E l \in Letters, n \in 0 .. MaxCopies :
         \E bs \in [1 .. n -> Users \cup Domains] : Accept(l, bs)
    \/ \E c \in Copies : Keep(c) \/ Show(c) \/ Take(c)

StoreSpec == StoreInit /\ [][StoreNext]_svars
===============================================================================
