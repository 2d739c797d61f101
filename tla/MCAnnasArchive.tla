--------------------------- MODULE MCAnnasArchive ---------------------------
EXTENDS AnnasArchive, TLC

CONSTANTS f1, f2, h1, h2, m1, m2, m3

TwoFetches == {f1, f2}
TwoHosts == {h1, h2}
TwoBudgets == {0, 2}
ThreeFiles == {m1, m2, m3}
MCSymmetry ==
  Permutations(TwoFetches) \union Permutations(ThreeFiles) \union Permutations(TwoHosts)
=============================================================================
