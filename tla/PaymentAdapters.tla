--------------------------- MODULE PaymentAdapters ---------------------------
(***************************************************************************)
(* How the three payment adapters read a provider's webhook                *)
(* (app/payments/stripe.py, paddle.py, lemonsqueezy.py): the kind of event *)
(* its name stands for, and where in the payload the price is looked for.  *)
(* No state.  Requests are the provider's own: signatures verify.          *)
(***************************************************************************)

EventTypes == {"checkout", "created", "updated", "cancelled", "failed", "succeeded"}

\* _EVENT_MAP, as pairs.
StripeEvents ==
    {<<"checkout.session.completed", "checkout">>,
     <<"customer.subscription.created", "created">>,
     <<"customer.subscription.updated", "updated">>,
     <<"customer.subscription.deleted", "cancelled">>,
     <<"invoice.payment_failed", "failed">>,
     <<"invoice.payment_succeeded", "succeeded">>}

PaddleEvents ==
    {<<"transaction.completed", "checkout">>,
     <<"subscription.created", "created">>,
     <<"subscription.updated", "updated">>,
     <<"subscription.cancelled", "cancelled">>,
     <<"subscription.past_due", "failed">>,
     <<"transaction.payment_failed", "failed">>,
     <<"subscription.activated", "succeeded">>}

LemonSqueezyEvents ==
    {<<"order_created", "checkout">>,
     <<"subscription_created", "created">>,
     <<"subscription_updated", "updated">>,
     <<"subscription_cancelled", "cancelled">>,
     <<"subscription_expired", "cancelled">>,
     <<"subscription_payment_failed", "failed">>,
     <<"subscription_payment_success", "succeeded">>}

EventMap == [stripe |-> StripeEvents, paddle |-> PaddleEvents, lemonsqueezy |-> LemonSqueezyEvents]

PaymentProviders == DOMAIN EventMap

EventNames == UNION {{pair[1] : pair \in EventMap[p]} : p \in PaymentProviders}

NamesOfType(provider, type) == {pair[1] : pair \in {p \in EventMap[provider] : p[2] = type}}

\* A name no adapter has in its table.
UnknownName == "other"

-----------------------------------------------------------------------------
\* parse_webhook.  A payload is [name, items, lines, variant]: the last three are the price
\* in each of the places a price may stand, or none.

\* Stripe: the first item's price, or else the first line's.
StripePrice(payload, none) == IF payload.items # none THEN payload.items ELSE payload.lines

\* Paddle: the first item's price.
PaddlePrice(payload) == payload.items

\* Lemon Squeezy: the variant.
LemonSqueezyPrice(payload) == payload.variant

PriceFound(provider, payload, none) ==
    CASE provider = "stripe"       -> StripePrice(payload, none)
      [] provider = "paddle"       -> PaddlePrice(payload)
      [] provider = "lemonsqueezy" -> LemonSqueezyPrice(payload)

IsHandled(provider, payload) == \E p \in EventMap[provider] : p[1] = payload.name

TypeOfEvent(provider, payload) == (CHOOSE p \in EventMap[provider] : p[1] = payload.name)[2]

\* Where the provider puts the price of the subscription: a Stripe checkout names none, its
\* invoices have lines, and an order at Lemon Squeezy has no variant of its own.
Payload(provider, type, name, price, none) ==
    LET places == CASE provider = "stripe" -> IF type = "checkout" THEN {}
                                              ELSE IF type \in {"failed", "succeeded"} THEN {"lines"}
                                              ELSE {"items"}
                    [] provider = "paddle" -> {"items"}
                    [] provider = "lemonsqueezy" -> IF type = "checkout" THEN {} ELSE {"variant"}
    IN  [name |-> name,
         items |-> IF "items" \in places THEN price ELSE none,
         lines |-> IF "lines" \in places THEN price ELSE none,
         variant |-> IF "variant" \in places THEN price ELSE none]

=============================================================================
