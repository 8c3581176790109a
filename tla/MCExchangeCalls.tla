--------------------------- MODULE MCExchangeCalls ---------------------------
(* ExchangeCalls with the constants of MCExchange.                         *)
EXTENDS MCExchange, ExchangeCalls
=============================================================================
