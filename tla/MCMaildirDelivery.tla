--------------------------- MODULE MCMaildirDelivery --------------------------
(* Instances of MaildirDelivery for TLC.                                    *)
EXTENDS MaildirDelivery

Symmetry ==
    Permutations(Workers) \cup Permutations(Letters)
      \cup Permutations(Users) \cup Permutations(Domains)
===============================================================================
