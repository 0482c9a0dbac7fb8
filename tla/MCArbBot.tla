------------------------------ MODULE MCArbBot ------------------------------
EXTENDS ArbBot

\* A signal at the limits of its size and expected loss, and one too large; an
\* execution ends with a gain, a loss or the worst loss.
BotSignals == {[usd |-> 4, net |-> -1], [usd |-> 5, net |-> 2]}
BotMinProfit == -2
BotResults == {-4, 3}
BotFailedResults == {-4}
=============================================================================
