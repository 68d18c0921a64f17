--------------------------- MODULE MCPackageStore ---------------------------
EXTENDS PackageStore

\* Two change-set stores; generateMockPackages returns 5 or 6 packages (the
\* code's 5..24 cut to its two smallest values), so a selection made in the
\* larger set can fall outside a smaller one.
MCStores == {"cs1", "cs2"}
MCAmounts == {5, 6}
=============================================================================
