--------------------------- MODULE MCOtpLivraison ---------------------------
(***************************************************************************)
(* Requests one after the other in two environments: every provider but the *)
(* webhook of WhatsApp; and only the keys of Twilio, without its service.   *)
(* Since the SDK may be missing in both, each branch of sendCode is taken.  *)
(***************************************************************************)
EXTENDS OtpLivraison, TLC

Environnements ==
    {[smtp |-> TRUE, cles |-> TRUE, service |-> TRUE, urls |-> {"sms"}],
     [smtp |-> FALSE, cles |-> TRUE, service |-> FALSE, urls |-> {}]}
=============================================================================
