--------------------------- MODULE UrlShortenerProofs ---------------------------
(***************************************************************************)
(* The three properties of UrlShortener, for any servers, clients,         *)
(* identifiers, URLs and bounds.  A link that has been received is only    *)
(* right because it was right when the handler wrote it, and the table has *)
(* not been replaced since: the invariant speaks of answers under way too. *)
(***************************************************************************)
EXTENDS UrlShortener, TLAPS

LinkRecords == [id : Ids, url : Urls, table : Nat]
Pages       == {"none", "form", "link", "error"}
Written     == [status : Nat, page : Pages, link : LinkRecords \cup {NoLink}]

(* A link is of a table that was made, and holds if that one is there. *)
Holds(l) ==
  /\ l \in LinkRecords /\ l.table <= made
  /\ exists /\ l.table = made => urls[l.id] = l.url

TypesInv ==
  /\ made \in Nat
  /\ urls \in [Ids -> Urls \cup {Free}]
  /\ state \in [Servers -> {"down", "connected", "initialized", "serving"}] /\ owned \in [Servers -> Nat]
  /\ answer \in [Clients -> Written]

LinksInv ==
  /\ \A l \in told : Holds(l)
  /\ \A c \in Clients : answer[c].link # NoLink => Holds(answer[c].link)

(* A server that has created a table is the only one of it. *)
OwnersInv ==
  /\ \A s \in Servers : owned[s] <= made
  /\ \A s \in Servers : state[s] \in {"initialized", "serving"} => owned[s] # 0
  /\ \A s, t \in Servers : owned[s] # 0 /\ owned[s] = owned[t] => s = t

Inv == TypesInv /\ LinksInv /\ OwnersInv

-----------------------------------------------------------------------------
(* What the handlers write has the form of an answer. *)
LEMMA PageForm ==
  ASSUME NEW page \in Pages, NEW link \in LinkRecords \cup {NoLink}
  PROVE  Page(page, link) \in Written /\ Page(page, link).link = link
BY DEF Page, Written

LEMMA NoAnswerForm == NoAnswer \in Written /\ NoAnswer.link = NoLink
BY DEF NoAnswer, Written, Pages

LEMMA ErrorForm ==
  ASSUME NEW code \in Nat
  PROVE  /\ errorPage(code) \in Written /\ errorPage(code).link = NoLink
         /\ AbortWithStatus(NoAnswer, code) \in Written
         /\ AbortWithStatus(NoAnswer, code).link = NoLink
<1>1. errorPage(code) = Page("error", NoLink)
  BY DEF errorPage, AbortWithStatus, Page
<1>2. AbortWithStatus(NoAnswer, code) = [status |-> code, page |-> "none", link |-> NoLink]
  BY DEF AbortWithStatus, NoAnswer
<1> QED
  BY <1>1, <1>2, PageForm DEF Pages, Written

(* Rows are only added while the table stays, so that links go on holding. *)
LEMMA LinksGoOn ==
  ASSUME TypesInv, exists' = exists, made' = made,
         \A i \in Ids : urls[i] # Free => urls'[i] = urls[i],
         ShortenerAssumption, NEW l, Holds(l)
  PROVE  Holds(l)'
<1>1. l.id \in Ids /\ l.url \in Urls
  BY DEF Holds, LinkRecords
<1>2. exists /\ l.table = made => urls'[l.id] = l.url
  BY <1>1, ShortenerAssumption DEF Holds, ShortenerAssumption
<1> QED
  BY <1>2 DEF Holds

(* A new table, or none, makes every old link one of a table that is gone. *)
LEMMA LinksAreGone ==
  ASSUME TypesInv, NEW l, Holds(l),
         \/ CreateTable
         \/ exists' = FALSE /\ made' = made
  PROVE  Holds(l)'
BY DEF Holds, TypesInv, LinkRecords, CreateTable

(* Adding a row changes no row that is there. *)
LEMMA PutKeepsRows ==
  ASSUME TypesInv, NEW i \in Ids, NEW u \in Urls, PutURL(i, u), ShortenerAssumption
  PROVE  /\ urls' \in [Ids -> Urls \cup {Free}]
         /\ urls'[i] = u /\ exists
         /\ \A j \in Ids : urls[j] # Free => urls'[j] = urls[j]
BY DEF PutURL, TypesInv

-----------------------------------------------------------------------------
(* A handler that writes an answer whose link, if any, holds keeps Inv. *)
LEMMA ReplyKeepsInv ==
  ASSUME Inv, ShortenerAssumption, NEW c \in Clients, NEW route,
         NEW written \in Written,
         Reply(c, route, written),
         urls' \in [Ids -> Urls \cup {Free}],
         \A i \in Ids : urls[i] # Free => urls'[i] = urls[i],
         written.link # NoLink => Holds(written.link)'
  PROVE  Inv'
<1> USE DEF Inv
<1>1. /\ exists' = exists /\ made' = made /\ state' = state /\ owned' = owned
      /\ told' = told
      /\ answer' = [answer EXCEPT ![c] = written]
  BY DEF Reply, serverVars
<1>2. TypesInv'
  BY <1>1 DEF TypesInv
<1>3. ASSUME NEW l, Holds(l) PROVE Holds(l)'
  BY <1>1, <1>3, LinksGoOn
<1>4. ASSUME NEW d \in Clients, answer'[d].link # NoLink PROVE Holds(answer[d].link)'
  <2>1. CASE d = c
    <3>1. answer'[d] = written
      BY <1>1, <2>1 DEF TypesInv
    <3> QED
      BY <1>4, <3>1
  <2>2. CASE d # c
    <3>1. answer'[d] = answer[d]
      BY <1>1, <2>2 DEF TypesInv
    <3>2. PICK l : l = answer[d].link
      OBVIOUS
    <3>3. Holds(l)
      BY <1>4, <3>1, <3>2 DEF LinksInv
    <3> QED
      BY <1>3, <3>1, <3>2, <3>3
  <2> QED
    BY <2>1, <2>2
<1>5. LinksInv'
  BY <1>1, <1>3, <1>4 DEF LinksInv
<1>6. OwnersInv'
  BY <1>1 DEF OwnersInv
<1> QED
  BY <1>2, <1>5, <1>6

(* Steps that leave the table and the links alone keep LinksInv. *)
LEMMA LinksUntouched ==
  ASSUME Inv, ShortenerAssumption, UNCHANGED tableVars, told' = told,
         \A c \in Clients : answer'[c].link \in {answer[c].link, NoLink}
  PROVE  LinksInv'
<1>1. ASSUME NEW l, Holds(l) PROVE Holds(l)'
  BY <1>1, LinksGoOn DEF Inv, tableVars
<1>2. ASSUME NEW c \in Clients, answer'[c].link # NoLink PROVE Holds(answer[c].link)'
  <2>1. PICK l : l = answer[c].link
    OBVIOUS
  <2>2. answer'[c].link = l /\ Holds(l)
    BY <1>2, <2>1 DEF Inv, LinksInv
  <2> QED
    BY <1>1, <2>2
<1> QED
  BY <1>1, <1>2 DEF Inv, LinksInv

(* So do the ones that create or remove the table. *)
LEMMA LinksReset ==
  ASSUME Inv, CreateTable \/ (exists' = FALSE /\ made' = made),
         told' = told, answer' = answer
  PROVE  LinksInv'
<1>1. ASSUME NEW l, Holds(l) PROVE Holds(l)'
  BY <1>1, LinksAreGone DEF Inv
<1>2. ASSUME NEW c \in Clients, answer'[c].link # NoLink PROVE Holds(answer[c].link)'
  <2>1. PICK l : l = answer[c].link
    OBVIOUS
  <2>2. answer'[c].link = l /\ Holds(l)
    BY <1>2, <2>1 DEF Inv, LinksInv
  <2> QED
    BY <1>1, <2>2
<1> QED
  BY <1>1, <1>2 DEF Inv, LinksInv

-----------------------------------------------------------------------------
LEMMA ServerKeepsInv ==
  ASSUME Inv, ShortenerAssumption, NEW s \in Servers,
         Connect(s) \/ Init(s) \/ Listen(s) \/ Crash(s)
  PROVE  Inv'
<1> USE DEF Inv
<1>1. CASE Connect(s) \/ Listen(s)
  <2>1. TypesInv' /\ OwnersInv'
    BY <1>1 DEF Connect, Listen, TypesInv, OwnersInv, tableVars, requestVars
  <2>2. LinksInv'
    BY <1>1, LinksUntouched DEF Connect, Listen, requestVars
  <2> QED
    BY <2>1, <2>2
<1>2. CASE Init(s)
  <2>1. TypesInv'
    BY <1>2 DEF Init, CreateTable, TypesInv, requestVars
  <2>2. LinksInv'
    <3>1. CASE CreateTable
      BY <1>2, <3>1, LinksReset DEF Init, requestVars
    <3>2. CASE UNCHANGED <<exists, made>>
      BY <1>2, <3>2, LinksUntouched DEF Init, requestVars, tableVars
    <3> QED
      BY <1>2, <3>1, <3>2 DEF Init
  <2>3. OwnersInv'
    <3>1. CASE CreateTable /\ owned' = [owned EXCEPT ![s] = made']
               /\ state' = [state EXCEPT ![s] = "initialized"]
      BY <3>1 DEF CreateTable, TypesInv, OwnersInv
    <3>2. CASE (CreateTable \/ UNCHANGED <<exists, made>>)
               /\ state' = [state EXCEPT ![s] = "down"] /\ UNCHANGED owned
      BY <3>2 DEF CreateTable, TypesInv, OwnersInv
    <3> QED
      BY <1>2, <3>1, <3>2 DEF Init
  <2> QED
    BY <2>1, <2>2, <2>3
<1>3. CASE Crash(s)
  <2>1. TypesInv'
    BY <1>3, NoAnswerForm DEF Crash, TypesInv, tableVars
  <2>2. LinksInv'
    <3>1. \A c \in Clients : answer'[c].link \in {answer[c].link, NoLink}
      BY <1>3, NoAnswerForm DEF Crash
    <3> QED
      BY <1>3, <3>1, LinksUntouched DEF Crash
  <2>3. OwnersInv'
    BY <1>3 DEF Crash, TypesInv, OwnersInv, tableVars
  <2> QED
    BY <2>1, <2>2, <2>3
<1> QED
  BY <1>1, <1>2, <1>3

LEMMA RequestKeepsInv ==
  ASSUME Inv, ShortenerAssumption, NEW c \in Clients, NEW s \in Servers,
         NEW route, NEW input, Request(c, s, route, input)
  PROVE  Inv'
<1>1. TypesInv' /\ OwnersInv'
  BY DEF Inv, Request, TypesInv, OwnersInv, tableVars, serverVars
<1>2. LinksInv'
  BY LinksUntouched DEF Request
<1> QED
  BY <1>1, <1>2 DEF Inv

LEMMA RemovalKeepsInv ==
  ASSUME Inv, RemoveAllTables
  PROVE  Inv'
<1>1. TypesInv' /\ OwnersInv'
  BY DEF Inv, RemoveAllTables, TypesInv, OwnersInv, NoRows, serverVars, requestVars
<1>2. LinksInv'
  BY LinksReset DEF RemoveAllTables, requestVars
<1> QED
  BY <1>1, <1>2 DEF Inv

LEMMA ServeKeepsInv ==
  ASSUME Inv, ShortenerAssumption, NEW c \in Clients, Serve(c)
  PROVE  Inv'
<1> USE DEF Inv
<1>1. urls \in [Ids -> Urls \cup {Free}]
  BY DEF TypesInv
<1>2. ASSUME NEW code \in Nat, NEW route, Reply(c, route, errorPage(code)), UNCHANGED urls
      PROVE  Inv'
  BY <1>1, <1>2, ErrorForm, ReplyKeepsInv
<1>3. CASE mainPage(c)
  <2>1. Page("form", NoLink) \in Written /\ Page("form", NoLink).link = NoLink
    BY PageForm DEF Pages
  <2> QED
    BY <1>1, <1>3, <2>1, ReplyKeepsInv DEF mainPage
<1>4. CASE refuseURL(c)
  <2>1. CASE Reply(c, "addURL", AbortWithStatus(NoAnswer, 500))
    <3>1. /\ AbortWithStatus(NoAnswer, 500) \in Written
          /\ AbortWithStatus(NoAnswer, 500).link = NoLink
      BY ErrorForm
    <3> QED
      BY <1>1, <1>4, <2>1, <3>1, ReplyKeepsInv DEF refuseURL
  <2> QED
    BY <1>2, <1>4, <2>1 DEF refuseURL
<1>5. CASE addURL(c)
  <2>1. ASSUME NEW i \in Ids, NEW u \in Urls, u = ask[c], PutURL(i, u),
               NEW written \in Written, Reply(c, "addURL", written),
               \/ written = errorPage(500)
               \/ written = Page("link", Link(i, u))
        PROVE  Inv'
    <3>1. /\ urls' \in [Ids -> Urls \cup {Free}]
          /\ urls'[i] = u
          /\ \A j \in Ids : urls[j] # Free => urls'[j] = urls[j]
      BY <2>1, PutKeepsRows
    <3>2. /\ written.link # NoLink => written.link = Link(i, u)
          /\ exists' = exists /\ made' = made
      BY <2>1, ErrorForm DEF Page, Reply
    <3>3. PICK link : link = written.link
      OBVIOUS
    <3>4. link # NoLink => Holds(link)'
      BY <3>1, <3>2, <3>3 DEF Holds, Link, LinkRecords, TypesInv
    <3> QED
      BY <2>1, <3>1, <3>3, <3>4, ReplyKeepsInv
  <2>2. ASSUME NEW i \in Ids, ask[c] \in Urls, PutURL(i, ask[c]),
               \/ Reply(c, "addURL", Page("link", Link(i, ask[c])))
               \/ Reply(c, "addURL", errorPage(500))
        PROVE  Inv'
    <3>1. PICK u \in Urls : u = ask[c]
      BY <2>2
    <3>2. PICK link : link = Link(i, u)
      OBVIOUS
    <3>3. link \in LinkRecords
      BY <3>2 DEF Link, LinkRecords, TypesInv
    <3>4. Page("link", link) \in Written
      BY <3>3, PageForm DEF Pages
    <3>5. errorPage(500) \in Written
      BY ErrorForm
    <3> QED
      BY <2>1, <2>2, <3>1, <3>2, <3>4, <3>5
  <2> QED
    BY <1>2, <1>5, <2>2 DEF addURL
<1>6. CASE redirect(c)
  <2>1. ASSUME exists, ask[c] \in Ids, urls[ask[c]] # Free, UNCHANGED urls,
               Reply(c, "redirect", [status |-> 308, page |-> "none",
                                     link |-> Link(ask[c], urls[ask[c]])])
        PROVE  Inv'
    <3>1. PICK link : link = Link(ask[c], urls[ask[c]])
      OBVIOUS
    <3>2. /\ link \in LinkRecords /\ link.table = made
          /\ urls[link.id] = link.url
      BY <2>1, <3>1 DEF Link, LinkRecords, TypesInv
    <3>3. exists' = exists /\ made' = made
      BY <2>1 DEF Reply
    <3>4. Holds(link)'
      BY <2>1, <3>2, <3>3 DEF Holds, TypesInv
    <3>5. [status |-> 308, page |-> "none", link |-> link] \in Written
      BY <3>2 DEF Written, Pages
    <3> QED
      BY <1>1, <2>1, <3>1, <3>4, <3>5, ReplyKeepsInv
  <2> QED
    BY <1>2, <1>6, <2>1 DEF redirect
<1> QED
  BY <1>3, <1>4, <1>5, <1>6 DEF Serve

LEMMA AnsweredKeepsInv ==
  ASSUME Inv, ShortenerAssumption, NEW c \in Clients, Answered(c)
  PROVE  Inv'
<1> USE DEF Inv
<1>1. TypesInv' /\ OwnersInv'
  BY NoAnswerForm DEF Answered, TypesInv, OwnersInv, tableVars, serverVars
<1>2. ASSUME NEW l, Holds(l) PROVE Holds(l)'
  BY <1>2, LinksGoOn DEF Answered, tableVars
<1>3. \A l \in told' : l \in told \/ (answer[c].link # NoLink /\ l = answer[c].link)
  BY DEF Answered
<1>4. \A d \in Clients : answer'[d].link \in {answer[d].link, NoLink}
  BY NoAnswerForm DEF Answered, TypesInv
<1> QED
  BY <1>1, <1>2, <1>3, <1>4 DEF LinksInv

LEMMA InitInv == ShortenerAssumption /\ ShortInit => Inv
BY NoAnswerForm DEF ShortInit, Inv, TypesInv, LinksInv, OwnersInv, NoRows

LEMMA StepInv == Inv /\ ShortenerAssumption /\ [ShortNext]_shortVars => Inv'
<1> SUFFICES ASSUME Inv, ShortenerAssumption, [ShortNext]_shortVars PROVE Inv'
  OBVIOUS
<1>1. CASE UNCHANGED shortVars
  BY <1>1 DEF shortVars, tableVars, serverVars, requestVars, Inv, TypesInv, LinksInv,
     OwnersInv, Holds
<1>2. CASE ShortNext
  BY <1>2, ServerKeepsInv, ServeKeepsInv, AnsweredKeepsInv, RequestKeepsInv, RemovalKeepsInv
     DEF ShortNext
<1> QED
  BY <1>1, <1>2

THEOREM Invariance == ShortSpec => []Inv
BY InitInv, StepInv, ShortenerAssumption, PTL DEF ShortSpec

(* A link a client was given leads to its URL as long as its table is      *)
(* there.                                                                  *)
THEOREM LinksHold == ShortSpec => []LinksKeepTheirTarget
<1>1. Inv => LinksKeepTheirTarget
  BY DEF Inv, LinksInv, LinksKeepTheirTarget, Holds, Current
<1> QED
  BY <1>1, Invariance, PTL

(* Two servers serve at the same time only after the table of one of them  *)
(* was removed.  Tables are created once and by one server, so of two      *)
(* servers one has not created the last table.                             *)
THEOREM ServersShareAfterRemoval == ShortSpec => []SharedOnlyAfterRemoval
<1>1. Inv => SharedOnlyAfterRemoval
  <2> SUFFICES ASSUME Inv, NEW s \in Servers, NEW t \in Servers, s # t,
                      state[s] = "serving", state[t] = "serving"
               PROVE  owned[s] < made \/ owned[t] < made
    BY DEF SharedOnlyAfterRemoval
  <2>1. owned[s] # owned[t]
    BY DEF Inv, OwnersInv
  <2>2. owned[s] <= made /\ owned[t] <= made
    BY DEF Inv, OwnersInv
  <2>3. made \in Nat /\ owned[s] \in Nat /\ owned[t] \in Nat
    BY DEF Inv, TypesInv
  <2> QED
    BY <2>1, <2>2, <2>3
<1> QED
  BY <1>1, Invariance, PTL

-----------------------------------------------------------------------------
(* The refinement of ShortUrls. *)
Told == {<<l.id, l.url>> : l \in Current(told)}

LEMMA InitRefines == ShortInit => Abstract!LinksInit
BY DEF ShortInit, Abstract!LinksInit, Abstract!NoLinks, NoRows, Current

(* The links that were told stay the same when the table does. *)
LEMMA ToldUntouched ==
  ASSUME exists' = exists, made' = made, told' = told
  PROVE  Told' = Told
BY DEF Told, Current

LEMMA StepRefines == Inv /\ ShortenerAssumption /\ [ShortNext]_shortVars
                       => [Abstract!LinksNext]_(Abstract!linkVars)
<1> SUFFICES ASSUME Inv, ShortenerAssumption, [ShortNext]_shortVars
             PROVE  Abstract!LinksNext \/ UNCHANGED <<exists, urls, Told>>
  BY DEF Abstract!linkVars, Told
<1>1. ASSUME UNCHANGED tableVars, told' = told PROVE UNCHANGED <<exists, urls, Told>>
  BY <1>1, ToldUntouched DEF tableVars
<1>2. CASE UNCHANGED shortVars
  BY <1>1, <1>2 DEF shortVars
<1>3. ASSUME CreateTable, UNCHANGED <<urls, told>> PROVE Abstract!LinksNext
  <2>1. \A l \in told : l.table \in Nat /\ l.table <= made
    BY DEF Inv, LinksInv, Holds, LinkRecords
  <2>2. Current(told) = {} /\ Current(told)' = {}
    BY <1>3, <2>1 DEF Current, CreateTable, Inv, TypesInv
  <2>3. Told' = Told
    BY <2>2 DEF Told
  <2> QED
    BY <1>3, <2>3 DEF CreateTable, Abstract!LinksNext, Abstract!CreateTable, Told
<1>4. ASSUME NEW s \in Servers, Connect(s) \/ Init(s) \/ Listen(s) \/ Crash(s)
      PROVE  Abstract!LinksNext \/ UNCHANGED <<exists, urls, Told>>
  BY <1>1, <1>3, <1>4 DEF Connect, Init, Listen, Crash, tableVars
<1>5. ASSUME NEW c \in Clients, Serve(c)
      PROVE  Abstract!LinksNext \/ UNCHANGED <<exists, urls, Told>>
  <2>1. exists' = exists /\ made' = made /\ told' = told
    BY <1>5 DEF Serve, mainPage, refuseURL, addURL, redirect, Reply
  <2>2. Told' = Told
    BY <2>1, ToldUntouched
  <2>3. ASSUME NEW i \in Ids, ask[c] \in Urls, PutURL(i, ask[c]) PROVE Abstract!LinksNext
    BY <2>1, <2>2, <2>3 DEF PutURL, Abstract!LinksNext, Abstract!Add, Told
  <2>4. UNCHANGED urls \/ \E i \in Ids : ask[c] \in Urls /\ PutURL(i, ask[c])
    BY <1>5 DEF Serve, mainPage, refuseURL, addURL, redirect
  <2> QED
    BY <2>1, <2>2, <2>3, <2>4
<1>6. ASSUME NEW c \in Clients, Answered(c)
      PROVE  Abstract!LinksNext \/ UNCHANGED <<exists, urls, Told>>
  <2> DEFINE link == answer[c].link
  <2>1. UNCHANGED tableVars
    BY <1>6 DEF Answered
  <2>2. CASE told' = told
    BY <1>1, <2>1, <2>2
  <2>3. CASE told' = told \cup {link} /\ link # NoLink
    <3>1. Holds(link)
      BY <2>3 DEF Inv, LinksInv
    <3>2. CASE exists /\ link.table = made
      <4>1. urls[link.id] = link.url /\ link.id \in Ids /\ link.url \in Urls
        BY <3>1, <3>2 DEF Holds, LinkRecords
      <4>2. Current(told)' = Current(told) \cup {link}
        BY <2>1, <2>3, <3>2 DEF Current, tableVars
      <4>3. Told' = Told \cup {<<link.id, urls[link.id]>>}
        BY <4>1, <4>2 DEF Told
      <4>4. exists /\ urls[link.id] # Free /\ UNCHANGED <<exists, urls>>
        BY <2>1, <3>2, <4>1 DEF ShortenerAssumption, tableVars
      <4>5. \E i \in Ids : /\ exists /\ urls[i] # Free
                           /\ Told' = Told \cup {<<i, urls[i]>>}
                           /\ UNCHANGED <<exists, urls>>
        BY <4>1, <4>3, <4>4
      <4> QED
        BY <4>5 DEF Abstract!LinksNext, Abstract!Tell, Told
    <3>3. CASE ~(exists /\ link.table = made)
      <4>1. Current(told)' = Current(told)
        BY <2>1, <2>3, <3>3 DEF Current, tableVars
      <4> QED
        BY <2>1, <4>1 DEF Told, tableVars
    <3> QED
      BY <3>2, <3>3
  <2> QED
    BY <1>6, <2>2, <2>3 DEF Answered
<1>7. ASSUME NEW c \in Clients, NEW s \in Servers, NEW route, NEW input,
             Request(c, s, route, input)
      PROVE  UNCHANGED <<exists, urls, Told>>
  BY <1>1, <1>7 DEF Request
<1>8. CASE RemoveAllTables
  <2>1. Told' = {}
    BY <1>8 DEF RemoveAllTables, Told, Current
  <2> QED
    BY <1>8, <2>1 DEF RemoveAllTables, NoRows, Abstract!LinksNext, Abstract!RemoveTable,
       Abstract!NoLinks, Told
<1> QED
  BY <1>2, <1>4, <1>5, <1>6, <1>7, <1>8 DEF ShortNext

(* The servers implement the map of links. *)
THEOREM ServersImplementLinks == ShortSpec => ImplementsShortUrls
BY InitRefines, StepRefines, Invariance, ShortenerAssumption, PTL
   DEF ShortSpec, ImplementsShortUrls, Abstract!LinksSpec
=============================================================================
