----------------------------- MODULE MCRssFeeds -----------------------------
EXTENDS RssFeeds, TLC

\* A behaviour is followed as far as the properties say something of it.
SpecUntilUnseen == Init /\ [][Next /\ ~unseen']_vars

Symmetry == Permutations(Proc)
=============================================================================
