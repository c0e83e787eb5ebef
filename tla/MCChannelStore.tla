--------------------------- MODULE MCChannelStore ---------------------------
(* A small instance of ChannelStore for TLC: a Telegram channel with two      *)
(* subscriptions, an e-mail channel with the keys its sender reads, an        *)
(* exchange, and a webhook yet to be created; a behaviour has the             *)
(* transactions of one workload.                                              *)
EXTENDS ChannelStore

MCChans == 1..4
MCTypeOf == <<"telegram", "email", "exchange", "webhook">>
MCKeysOf == <<{"bot_token", "chat_id"}, EmailReads, ExchangeRequires, {"url"}>>

MCSubs == {"u1", "u2", "u3", "u4"}
MCChannelOf == [u \in MCSubs |-> CASE u = "u3" -> 2 [] u = "u4" -> 3 [] OTHER -> 1]

MCSessions == 1..4

For(kind, c) == [kind |-> kind, channel |-> c]

Given(existing, sessions) == [existing |-> existing, sessions |-> sessions]

MCWorkloads ==
    {Given({1, 2, 3}, <<For("signal", 0), For("update", 1), For("get", 1), For("update", 1)>>),
     Given({1, 3}, <<For("neutral", 0), For("update", 1), For("toggle", 1), For("test", 3)>>),
     Given({1, 2}, <<For("outcomes", 0), For("toggle", 1), For("check", 2), For("delete", 1)>>),
     Given({}, <<For("create", 4), For("get", 4), For("update", 4), For("check", 4)>>),
     Given({1, 2}, <<For("cron", 0), For("update", 1), For("delete", 2), For("signal", 0)>>),
     Given({1}, <<For("cron", 0), For("cron", 0), For("cron", 0), For("cron", 0)>>)}
=============================================================================
