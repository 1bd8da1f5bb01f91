--------------------------- MODULE MCInventoryLevels ---------------------------
EXTENDS InventoryLevels, TLC

CONSTANTS r1, r2, w1, w2

AllKinds == {"add", "deduct", "adjust", "reserve", "release", "confirm", "transfer", "settings"}

Interchangeable == Permutations({r1, r2}) \cup Permutations({w1, w2})

OneWarehouse == Permutations({r1, r2})
===============================================================================
