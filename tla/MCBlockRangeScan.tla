-------------------------- MODULE MCBlockRangeScan --------------------------
EXTENDS BlockRangeScan, TLC

E(tx, log, transfer, block) == [id |-> <<tx, log>>, transfer |-> transfer, block |-> block]

\* Two transfers of one transaction, a transaction that a reorganisation left
\* behind in an earlier block under another log index, an entry without one.
MCFirst  == {E("t1", 1, "x", 0), E("t1", 2, "y", 0), E("t2", 1, "z", 1), E("t2", 2, "z", 3),
             E("t3", 0, None, 4), E("t4", 1, "w", 5)}
\* A provider without t4 that has two entries in a later block: one more in
\* all than a result may have.
MCSecond == {x \in MCFirst : x.block # 5} \cup {E("t5", 1, "u", 6), E("t5", 2, "v", 6)}
MCIndex  == [p \in {"alchemy", "etherscan"} |-> IF p = "alchemy" THEN MCFirst ELSE MCSecond]
=============================================================================
