---------------------------- MODULE ChannelTypes ----------------------------
(***************************************************************************)
(* The types of channel: which configurations the typed models accept      *)
(* (app/types/channel_config), which keys a sender reads, and which        *)
(* answers of the service on the other side it takes for a success         *)
(* (app/channels/*.py).  No state.                                         *)
(*                                                                         *)
(* A configuration is the set of its keys.  An answer is a record of the   *)
(* HTTP status and whether the body says "ok"; Raised stands for a         *)
(* connection that fails, times out or answers with something unreadable.  *)
(***************************************************************************)
EXTENDS Integers

CONSTANT Raised

Types == {"telegram", "discord", "slack", "webhook", "email", "whatsapp", "exchange"}

\* Types the API can create, test and check.
KnownTypes == Types \ {"whatsapp"}

Answers == [status: {200, 201, 204, 404, 503}, ok: BOOLEAN] \union {Raised}

-----------------------------------------------------------------------------
\* Keys a configuration must have for parse_channel_config to accept it.

TelegramRequires == {"bot_token", "chat_id"}
DiscordRequires  == {"webhook_url"}
WebhookRequires  == {"url"}
WhatsAppRequires == {"account_sid", "auth_token", "from_number", "to_number"}
EmailRequires    == {"username", "password", "from_address", "to_addresses"}
SlackRequires    == {}
ExchangeRequires == {"exchange_id", "api_key", "api_secret"}

Requires ==
    [telegram |-> TelegramRequires, discord |-> DiscordRequires, webhook |-> WebhookRequires,
     whatsapp |-> WhatsAppRequires, email |-> EmailRequires, slack |-> SlackRequires,
     exchange |-> ExchangeRequires]

Accepted(type, config) == Requires[type] \subseteq config

-----------------------------------------------------------------------------
\* Keys a sender reads without a default: without one of them send itself raises.

EmailReads == {"smtp_host", "smtp_user", "smtp_password", "from_email", "to_email"}

SlackReads(config) == IF "webhook_url" \in config THEN {} ELSE {"bot_token", "channel_id"}

Reads(type, config) ==
    CASE type = "email" -> EmailReads
      [] type = "slack" -> SlackReads(config)
      [] OTHER          -> Requires[type]

-----------------------------------------------------------------------------
\* What each sender makes of the answer; an exception inside it is a failure like another.

WebhookSent(answer)  == answer.status \in 200..299
DiscordSent(answer)  == answer.status \in {200, 204}
WhatsAppSent(answer) == answer.status \in {200, 201}
TelegramSent(answer) == answer.status = 200 /\ answer.ok
SlackSent(answer)    == answer.status = 200 /\ answer.ok
EmailSent(answer)    == answer.ok

\* The exchange channel has a module of its own; here its order is placed or not.
Sent(type, config, answer) ==
    /\ Reads(type, config) \subseteq config
    /\ answer # Raised
    /\ CASE type = "webhook"  -> WebhookSent(answer)
         [] type = "discord"  -> DiscordSent(answer)
         [] type = "whatsapp" -> WhatsAppSent(answer)
         [] type = "telegram" -> TelegramSent(answer)
         [] type = "slack"    -> SlackSent(answer)
         [] type = "email"    -> EmailSent(answer)
         [] type = "exchange" -> answer.ok

-----------------------------------------------------------------------------
\* Health checks.  A webhook that answers at all is healthy; Slack's check by webhook is a
\* message like another.

WebhookHealthy(answer)  == answer.status < 500
DiscordHealthy(answer)  == answer.status = 200
WhatsAppHealthy(answer) == answer.status = 200
TelegramHealthy(answer) == answer.status = 200 /\ answer.ok
SlackHealthy(answer)    == answer.status = 200 /\ answer.ok
EmailHealthy(answer)    == answer.ok

Healthy(type, config, answer) ==
    /\ Reads(type, config) \subseteq config
    /\ answer # Raised
    /\ CASE type = "webhook"  -> WebhookHealthy(answer)
         [] type = "discord"  -> DiscordHealthy(answer)
         [] type = "whatsapp" -> WhatsAppHealthy(answer)
         [] type = "telegram" -> TelegramHealthy(answer)
         [] type = "slack"    -> SlackHealthy(answer)
         [] type = "email"    -> EmailHealthy(answer)
         [] type = "exchange" -> answer.ok

=============================================================================
