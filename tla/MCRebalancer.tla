---------------------------- MODULE MCRebalancer ----------------------------
EXTENDS Rebalancer

Balances == {b \in [free : 0..4, locked : 0..4] : b.free + b.locked <= 4}
\* Nothing is locked in a wallet.
SmallHoldings == {h \in [{"binance", "wallet"} -> Balances] : h["wallet"].locked = 0}
=============================================================================
