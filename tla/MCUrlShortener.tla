----------------------------- MODULE MCUrlShortener -----------------------------
(* Two servers, two clients, two identifiers and two URLs; the clients are *)
(* alike, the servers are alike, and so are the identifiers and the URLs.  *)
EXTENDS UrlShortener, TLC

Alike == Permutations(Clients) \cup Permutations(Servers)
           \cup Permutations(Ids) \cup Permutations(Urls)
=============================================================================
