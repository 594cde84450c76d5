----------------------------- MODULE MCAccount -----------------------------
EXTENDS Account

\* Shorter and longer than the decimals, with zeros at the end and inside.
SomeCosts == <<<<5, 0>>, <<1, 0, 0, 2, 0>>>>
=============================================================================
