-------------------------- MODULE MCLedgerConsumer --------------------------
EXTENDS HistoryWait, TLC

CONSTANTS small, large

\* The last write says what no earlier one does, the one before it repeats.
MCContents == <<small, small, large>>
=============================================================================
