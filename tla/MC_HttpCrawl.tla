----------------------------- MODULE MC_HttpCrawl -----------------------------
(* Two worker threads and three hosts: enough for the two workers to race  *)
(* on the index while both crawl, for one of them to go on to a second     *)
(* host after a timeout or a success, and for the other to run out.        *)
EXTENDS HttpCrawl

CONSTANTS w1, w2

MC_Workers == {w1, w2}
MC_NumHosts == 3
=============================================================================
