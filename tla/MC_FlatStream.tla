---------------------------- MODULE MC_FlatStream ----------------------------
EXTENDS FlatStream

\* Segments shorter and longer than the limit, one to three of them;
\* sequences of one or two segments are written in place, so the clip
\* crosses segment boundaries, and of three are copied.
MC_Limit == 2
MC_InPlaceSegs == 2
MC_MaxSegs == 3
MC_MaxSegLen == 3
=============================================================================
