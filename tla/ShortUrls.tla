------------------------------- MODULE ShortUrls -------------------------------
(***************************************************************************)
(* What the URL shortener promises: while there is a table, a short        *)
(* identifier that leads to a URL leads there for ever, and what somebody  *)
(* was told of a link is what the link does.  Only the removal of the      *)
(* whole table ends it.                                                    *)
(***************************************************************************)
CONSTANTS Ids, Urls, Free

VARIABLES open,      \* there is a table
          links,     \* where each identifier leads
          told       \* the links somebody was told of, as <<id, url>>

linkVars == <<open, links, told>>

NoLinks == [i \in Ids |-> Free]

LinksInit == open = FALSE /\ links = NoLinks /\ told = {}

CreateTable ==
  /\ ~open /\ open' = TRUE
  /\ UNCHANGED <<links, told>>

Add(i, u) ==
  /\ open /\ links[i] = Free
  /\ links' = [links EXCEPT ![i] = u]
  /\ UNCHANGED <<open, told>>

Tell(i) ==
  /\ open /\ links[i] # Free
  /\ told' = told \cup {<<i, links[i]>>}
  /\ UNCHANGED <<open, links>>

RemoveTable == open' = FALSE /\ links' = NoLinks /\ told' = {}

LinksNext ==
  \/ CreateTable \/ RemoveTable
  \/ \E i \in Ids : Tell(i) \/ \E u \in Urls : Add(i, u)

LinksSpec == LinksInit /\ [][LinksNext]_linkVars
=============================================================================
