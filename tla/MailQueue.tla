------------------------------ MODULE MailQueue ------------------------------
(***************************************************************************)
(* What the e-mail outbox promises about one queued mail, whoever sends it *)
(* and however often a sender dies: at-least-once delivery.  A mail counts *)
(* as sent only when a copy has left; a queued mail is otherwise dropped,  *)
(* and what is settled stays settled.  A sender that outlived its lease    *)
(* may still let a copy go after that.                                     *)
(***************************************************************************)
EXTENDS Naturals

CONSTANT Mails

VARIABLES
    mail,           \* "absent", "queued", "sent" or "dropped"
    left            \* whether a copy has left for the recipient

mailVars == <<mail, left>>

Init == mail = [m \in Mails |-> "absent"] /\ left = [m \in Mails |-> FALSE]

Queue(m) == mail[m] = "absent" /\ mail' = [mail EXCEPT ![m] = "queued"] /\ UNCHANGED left
Leave(m) == mail[m] # "absent" /\ left' = [left EXCEPT ![m] = TRUE] /\ UNCHANGED mail
Sent(m)  == mail[m] = "queued" /\ left[m] /\ mail' = [mail EXCEPT ![m] = "sent"] /\ UNCHANGED left
Drop(m)  == mail[m] = "queued" /\ mail' = [mail EXCEPT ![m] = "dropped"] /\ UNCHANGED left

Next == \E m \in Mails : Queue(m) \/ Leave(m) \/ Sent(m) \/ Drop(m)

Spec == Init /\ [][Next]_mailVars
=============================================================================
