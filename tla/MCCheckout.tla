---------------------------- MODULE MCCheckout ------------------------------
(* A small instance of Checkout for TLC: see README, "Runs and bounds".    *)
EXTENDS Checkout, TLC

\* Two subscriptions in two markets, and one-time payments of every kind
Pairs == {<<<<"ssub", "pro">>, <<"rsub", "team">>>>, <<<<"ssub", "team">>, <<"rsub", "pro">>>>,
          <<<<"order", None>>, <<"session", None>>>>, <<<<"link", None>>, <<"session", None>>>>}
=============================================================================
