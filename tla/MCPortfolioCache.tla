-------------------------- MODULE MCPortfolioCache --------------------------
\* Instances of PortfolioCache for TLC.
EXTENDS PortfolioCache, FiniteSetsExt, TLC

\* PostgreSQL: a sequence.
Sequence(used, n) == n + 1

\* SQLite without AUTOINCREMENT: one more than the highest id in the table.  With
\* it in place of Sequence each of the four properties of PortfolioCache.cfg fails.
Highest(used, n) == Max(used \cup {0}) + 1

Symmetry == Permutations(User) \cup Permutations(Portfolio)
              \cup Permutations(Call)
=============================================================================
