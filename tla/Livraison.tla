----------------------------- MODULE Livraison -----------------------------
(***************************************************************************)
(* AuthMessageService: by which provider a code reaches its user.           *)
(*                                                                          *)
(* A code goes out by SMTP, by Twilio or by a webhook; or by none of them   *)
(* ("local"), and the answer to the request then shows it.  One call of     *)
(* sendCode awaits at most one provider, so it is one step.                 *)
(***************************************************************************)
EXTENDS Integers, FiniteSets

CONSTANT Configurations \* environments the process is started in

Messageries == {"sms", "whatsapp"}
Canaux == {"email"} \cup Messageries
Remises == {"smtp", "twilio", "webhook", "local"}

\* A provider takes the message, refuses it, or takes it and the answer is lost.
Issues == {"accepte", "refuse", "perdu"}

Configuration ==
    [smtp : BOOLEAN,          \* MAIL_HOST, MAIL_PORT and a sender
     cles : BOOLEAN,          \* TWILIO_ACCOUNT_SID, TWILIO_AUTH_TOKEN
     service : BOOLEAN,       \* TWILIO_SERVICE_SID
     urls : SUBSET Messageries] \* SMS_PROVIDER_URL, WHATSAPP_PROVIDER_URL

ASSUME ConfigurationsAssumption == Configurations \subseteq Configuration

VARIABLES
    config,  \* environment of this process
    twilio,  \* twilioClientLoaded, and whether twilioClient is one
    remis,   \* history: codes a provider took
    voies    \* history: modes of the deliveries by SMS and WhatsApp

varsLivraison == <<config, twilio, remis, voies>>

InitLivraison ==
    /\ config \in Configurations
    /\ twilio = [charge |-> FALSE, client |-> FALSE]
    /\ remis = {}
    /\ voies = {}
-----------------------------------------------------------------------------
\* Variant: the client is used for the message that loads it, and not kept.
GetTwilioClientPerdu(client) ==
    \/ /\ twilio.charge
       /\ client = twilio.client
       /\ UNCHANGED twilio
    \/ /\ ~twilio.charge
       /\ client \in {config.cles, FALSE}
       /\ twilio' = [charge |-> TRUE, client |-> FALSE]

\* The client is made at the first message and kept; without the keys, or when
\* the SDK is missing or rejects them, there is none from then on.
GetTwilioClient(client) ==
    \/ /\ twilio.charge
       /\ client = twilio.client
       /\ UNCHANGED twilio
    \/ /\ ~twilio.charge
       /\ client \in {config.cles, FALSE}
       /\ twilio' = [charge |-> TRUE, client |-> client]

\* The call of the provider, which ends in mode reussi or echoue.
Remettre(code, mode, reussi, echoue) ==
    \E issue \in Issues :
        /\ remis' = IF issue = "refuse" THEN remis ELSE remis \cup {code}
        /\ mode = IF issue = "accepte" THEN reussi ELSE echoue

\* Variant: a failure of SMTP is only logged.
SendEmailSansRepli(code, mode) ==
    \/ ~config.smtp /\ mode = "local" /\ UNCHANGED remis
    \/ config.smtp /\ Remettre(code, mode, "smtp", "smtp")

SendEmail(code, mode) ==
    \/ ~config.smtp /\ mode = "local" /\ UNCHANGED remis
    \/ config.smtp /\ Remettre(code, mode, "smtp", "local")

\* Twilio if there is a client, an error 503 without its service; else the
\* webhook of the channel, if it has one.
SendWebhookMessage(canal, code, mode) ==
    \E client \in BOOLEAN :
        /\ GetTwilioClient(client)
        /\ \/ /\ client /\ ~config.service
              /\ mode = "erreur" /\ UNCHANGED remis
           \/ /\ client /\ config.service
              /\ Remettre(code, mode, "twilio", "erreur")
           \/ /\ ~client /\ canal \notin config.urls
              /\ mode = "local" /\ UNCHANGED remis
           \/ /\ ~client /\ canal \in config.urls
              /\ Remettre(code, mode, "webhook", "erreur")

\* The code goes out by the channel; the result is the mode, or an error.
SendCode(canal, code, mode) ==
    /\ \/ /\ canal = "email"
          /\ SendEmail(code, mode)
          /\ UNCHANGED <<twilio, voies>>
       \/ /\ canal # "email"
          /\ SendWebhookMessage(canal, code, mode)
          /\ voies' = voies \cup ({mode} \ {"erreur"})
    /\ UNCHANGED config
-----------------------------------------------------------------------------
TypesLivraison ==
    /\ config \in Configurations
    /\ twilio \in [charge : BOOLEAN, client : BOOLEAN]
    /\ voies \subseteq Remises

\* A process that delivered an SMS or a WhatsApp message by Twilio never
\* delivers another one by a webhook, or shows its code, and the reverse,
\* although only the first call looks for the SDK.
FournisseurStable == "twilio" \in voies => voies = {"twilio"}
=============================================================================
