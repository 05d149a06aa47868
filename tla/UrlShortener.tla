------------------------------ MODULE UrlShortener ------------------------------
(***************************************************************************)
(* apps/go/url-shortener: web servers over one table of a database.  A     *)
(* server connects, creates the table and serves three routes; requests of *)
(* several clients are handled at the same time, each with at most one     *)
(* statement to the database.  A statement may fail, or take effect and    *)
(* have its answer lost; a server may die and be started again; an answer  *)
(* may not reach the client, who may ask again; the table may be dropped   *)
(* behind the servers.                                                     *)
(*                                                                         *)
(* A URL that can be stored is a member of Urls.  Tables are numbered in   *)
(* the order of their creation, to tell an old link from a new one.        *)
(***************************************************************************)
EXTENDS Naturals

CONSTANTS Servers, Clients, Ids, Urls,
          Free,           \* no row with this identifier
          NoLink,         \* an answer without a link
          Relative,       \* input that parses, without a scheme or a host
          Unparsable,     \* input url.Parse refuses
          MaxRequests,    \* bound: requests
          MaxTables       \* bound: tables created

ASSUME ShortenerAssumption ==
  /\ Free \notin Urls /\ {Relative, Unparsable} \cap Urls = {}
  /\ MaxRequests \in Nat /\ MaxTables \in Nat

VARIABLES exists,    \* the table urls exists
          made,      \* the tables created so far; the last one is this number
          urls,      \* its rows: the URL of each identifier, or Free
          state,     \* state[s]: how far main has come on server s
          owned,     \* owned[s]: the table server s has created, 0 for none
          at,        \* at[c]: the handler that works for client c
          via,       \* via[c]: the server it runs on
          ask,       \* ask[c]: the form value or the identifier it was given
          answer,    \* answer[c]: what it has written
          asked,     \* requests so far
          told       \* the links that clients have received

tableVars   == <<exists, made, urls>>
serverVars  == <<state, owned>>
requestVars == <<at, via, ask, answer>>
shortVars   == <<tableVars, serverVars, requestVars, asked, told>>

NoRows   == [i \in Ids |-> Free]
NoAnswer == [status |-> 0, page |-> "none", link |-> NoLink]
Inputs   == Urls \cup {Relative, Unparsable}

ShortInit ==
  /\ exists = FALSE /\ made = 0 /\ urls = NoRows
  /\ state = [s \in Servers |-> "down"]
  /\ owned = [s \in Servers |-> 0]
  /\ at = [c \in Clients |-> "idle"]
  /\ via \in [Clients -> Servers] /\ ask = [c \in Clients |-> Relative]
  /\ answer = [c \in Clients |-> NoAnswer]
  /\ asked = 0 /\ told = {}

-----------------------------------------------------------------------------
(* main: a server that cannot connect is down again at once.               *)
Connect(s) ==
  /\ state[s] = "down"
  /\ state' = [state EXCEPT ![s] = "connected"]
  /\ UNCHANGED <<tableVars, owned, requestVars, asked, told>>

CreateTable ==
  /\ ~exists /\ made < MaxTables
  /\ exists' = TRUE /\ made' = made + 1

(* Mutant of Init: CREATE TABLE IF NOT EXISTS. *)
InitIfNotExists(s) ==
  /\ state[s] = "connected"
  /\ \/ CreateTable
     \/ exists /\ UNCHANGED <<exists, made>>
  /\ state' = [state EXCEPT ![s] = "initialized"]
  /\ owned' = [owned EXCEPT ![s] = made']
  /\ UNCHANGED <<urls, requestVars, asked, told>>

(* CREATE TABLE fails when there is a table; any error ends the process,   *)
(* also when the table was created and only the answer was lost.           *)
Init(s) ==
  /\ state[s] = "connected"
  /\ \/ /\ CreateTable
        /\ state' = [state EXCEPT ![s] = "initialized"]
        /\ owned' = [owned EXCEPT ![s] = made']
     \/ /\ CreateTable \/ UNCHANGED <<exists, made>>
        /\ state' = [state EXCEPT ![s] = "down"]
        /\ UNCHANGED owned
  /\ UNCHANGED <<urls, requestVars, asked, told>>

(* ListenAndServe; when it cannot listen the process ends, as in Crash. *)
Listen(s) ==
  /\ state[s] = "initialized"
  /\ state' = [state EXCEPT ![s] = "serving"]
  /\ UNCHANGED <<tableVars, owned, requestVars, asked, told>>

(* The process ends, and the requests it was working on with it. *)
Crash(s) ==
  LET Working(c) == at[c] # "idle" /\ via[c] = s
  IN  /\ state[s] # "down"
      /\ state' = [state EXCEPT ![s] = "down"]
      /\ owned' = [owned EXCEPT ![s] = 0]
      /\ at' = [c \in Clients |-> IF Working(c) THEN "idle" ELSE at[c]]
      /\ answer' = [c \in Clients |-> IF Working(c) THEN NoAnswer ELSE answer[c]]
      /\ UNCHANGED <<tableVars, via, ask, asked, told>>

(* RemoveAllTables, which the tests and an operator run. *)
RemoveAllTables ==
  /\ exists' = FALSE /\ urls' = NoRows
  /\ UNCHANGED <<made, serverVars, requestVars, asked, told>>

-----------------------------------------------------------------------------
(* A client sends a request to a route of a server. *)
Request(c, s, route, input) ==
  /\ at[c] = "idle" /\ state[s] = "serving" /\ asked < MaxRequests
  /\ at' = [at EXCEPT ![c] = route]
  /\ via' = [via EXCEPT ![c] = s]
  /\ ask' = [ask EXCEPT ![c] = input]
  /\ asked' = asked + 1
  /\ UNCHANGED <<tableVars, serverVars, answer, told>>

(* gin sends the status, 200 so far, with the first byte of a page, and    *)
(* has no use for a status that is set after it.                           *)
Page(page, link) == [status |-> 200, page |-> page, link |-> link]

AbortWithStatus(written, code) ==
  IF written.page = "none" THEN [written EXCEPT !.status = code] ELSE written

errorPage(code) == AbortWithStatus(Page("error", NoLink), code)

Reply(c, route, written) ==
  /\ at[c] = route
  /\ at' = [at EXCEPT ![c] = "reply"]
  /\ answer' = [answer EXCEPT ![c] = written]
  /\ UNCHANGED <<exists, made, serverVars, via, ask, asked, told>>

mainPage(c) == Reply(c, "mainPage", Page("form", NoLink)) /\ UNCHANGED urls

Link(i, u) == [id |-> i, url |-> u, table |-> made]

(* Mutants of PutURL: an identifier that is taken is overwritten, or the   *)
(* conflict is passed over.                                                *)
PutURLOverwriting(i, u) == exists /\ urls' = [urls EXCEPT ![i] = u]

PutURLPassingOver(i, u) ==
  exists /\ urls' = [urls EXCEPT ![i] = IF @ = Free THEN u ELSE @]

(* INSERT takes effect only on an identifier that is free. *)
PutURL(i, u) ==
  /\ exists /\ urls[i] = Free
  /\ urls' = [urls EXCEPT ![i] = u]

(* url.Parse returns nil with its error, parsedURL.Scheme panics before    *)
(* the error is looked at, and the recovery answers 500 without a page.    *)
refuseURL(c) ==
  /\ \/ ask[c] = Unparsable /\ Reply(c, "addURL", AbortWithStatus(NoAnswer, 500))
     \/ ask[c] = Relative /\ Reply(c, "addURL", errorPage(400))
  /\ UNCHANGED urls

(* Any identifier may be generated.  The row may be stored although the    *)
(* statement reports an error, or nothing is: no identifier, one that is   *)
(* taken, no table, no connection.                                         *)
addURL(c) ==
  /\ ask[c] \in Urls
  /\ \/ \E i \in Ids :
          /\ PutURL(i, ask[c])
          /\ \/ Reply(c, "addURL", Page("link", Link(i, ask[c])))
             \/ Reply(c, "addURL", errorPage(500))
     \/ Reply(c, "addURL", errorPage(500)) /\ UNCHANGED urls

(* GetURL finds the row, finds none, or fails. *)
redirect(c) ==
  /\ \/ /\ exists /\ ask[c] \in Ids /\ urls[ask[c]] # Free
        /\ Reply(c, "redirect",
                 [status |-> 308, page |-> "none", link |-> Link(ask[c], urls[ask[c]])])
     \/ /\ exists /\ ask[c] \in Ids /\ urls[ask[c]] = Free
        /\ Reply(c, "redirect", errorPage(404))
     \/ Reply(c, "redirect", errorPage(500))
  /\ UNCHANGED urls

(* The client receives the answer, or does not. *)
Answered(c) ==
  /\ at[c] = "reply"
  /\ at' = [at EXCEPT ![c] = "idle"]
  /\ answer' = [answer EXCEPT ![c] = NoAnswer]
  /\ told' \in {told, told \cup ({answer[c].link} \ {NoLink})}
  /\ UNCHANGED <<tableVars, serverVars, via, ask, asked>>

-----------------------------------------------------------------------------
Serve(c) == mainPage(c) \/ refuseURL(c) \/ addURL(c) \/ redirect(c)

ShortNext ==
  \/ \E s \in Servers : Connect(s) \/ Init(s) \/ Listen(s) \/ Crash(s)
  \/ \E c \in Clients : Serve(c) \/ Answered(c)
  \/ \E c \in Clients, s \in Servers :
       \/ Request(c, s, "mainPage", Relative)
       \/ \E u \in Inputs : Request(c, s, "addURL", u)
       \/ \E i \in Ids : Request(c, s, "redirect", i)
  \/ RemoveAllTables

ShortSpec == ShortInit /\ [][ShortNext]_shortVars

-----------------------------------------------------------------------------
(* The links of the table that exists now. *)
Current(links) == {l \in links : exists /\ l.table = made}

(* A link that a client was given, by the form or by a redirect (which     *)
(* browsers keep, as it is permanent), leads to its URL as long as its     *)
(* table is there: through collisions of identifiers, lost answers,        *)
(* repeated requests and restarts, on any server.                          *)
LinksKeepTheirTarget == \A l \in Current(told) : urls[l.id] = l.url

(* Two servers serve at the same time only if the table that one of them   *)
(* created was removed behind its back: who finds a table did not create   *)
(* it and ends, so that after a crash nobody serves the old links, while a *)
(* server whose table was removed goes on in the table of the next one.    *)
SharedOnlyAfterRemoval ==
  \A s, t \in Servers : state[s] = "serving" /\ state[t] = "serving" /\ s # t
                        => owned[s] < made \/ owned[t] < made

(* The servers together are a map of links that only grows: see ShortUrls. *)
Abstract == INSTANCE ShortUrls
  WITH open <- exists, links <- urls,
       told <- {<<l.id, l.url>> : l \in Current(told)}

ImplementsShortUrls == Abstract!LinksSpec

(* errorPage(ctx, http.StatusNotFound, ...), and the same with             *)
(* StatusBadRequest and StatusInternalServerError: a page that tells of an *)
(* error is sent with the status of an error.                              *)
ErrorsHaveTheirStatus ==
  \A c \in Clients : answer[c].page = "error" => answer[c].status >= 400
=============================================================================
