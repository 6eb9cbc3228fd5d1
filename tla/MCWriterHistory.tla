--------------------------- MODULE MCWriterHistory ---------------------------
EXTENDS WriterHistory, TLC
CONSTANTS k1, k2, r1, r2
Set(infos, lifespans) == [wrinfo : infos, lifespan : lifespans]
Volatile(depths) == {whc_make_wrinfo(FALSE, h, 0) : h \in depths}
TransientLocal(depths, sdepths) == {whc_make_wrinfo(TRUE, h, d) : h \in depths, d \in sdepths}
\* KEEP_ALL and KEEP_LAST, volatile and transient-local, with a history as
\* deep as, shallower and deeper than the durability service's.
MCSettings ==
    Set(Volatile({0}), {FALSE}) \cup Set(Volatile({2}), BOOLEAN)
    \cup Set(TransientLocal({1, 2}, {1, 2}) \cup TransientLocal({0}, {0, 1}), {FALSE})
    \cup Set(TransientLocal({2}, {1}), {TRUE})
Symmetry == Permutations({k1, k2}) \cup Permutations({r1, r2})
=============================================================================
