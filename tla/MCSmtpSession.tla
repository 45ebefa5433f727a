----------------------------- MODULE MCSmtpSession -----------------------------
(* Instances of SmtpSession for TLC.  The addresses are interchangeable.    *)
EXTENDS SmtpSession, TLC

Symmetry == Permutations(Mailboxes)
===============================================================================
