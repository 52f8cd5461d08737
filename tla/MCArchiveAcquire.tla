-------------------------- MODULE MCArchiveAcquire --------------------------
EXTENDS ArchiveAcquire

CONSTANTS r1, r2, crawl, routeA, routeB

MCCollections == <<crawl>>
MCRoutes == <<routeA, routeB>>

\* The selected record of either entry, a record that was not selected, both
\* selected records together, a record twice.
MCIndexes == {[lines |-> s] : s \in {<<Selected(1)>>, <<Selected(2)>>, <<Other>>,
                                     <<Selected(1), Selected(2)>>, <<Selected(2), Selected(2)>>}}

MCRanges == [of : {Selected(1), Selected(2), Other}, whole : BOOLEAN]
=============================================================================
