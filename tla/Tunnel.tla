------------------------------- MODULE Tunnel -------------------------------
(***************************************************************************)
(* The data plane of one machine: HTTP requests and browser WebSockets     *)
(* relayed by the gateway (router.ts, nodes.ts) to the console agent        *)
(* (plugins/dsh-gateway-agent/src/index.js) and from there to dsh, with     *)
(* lost links and restarts of the gateway.                                 *)
(*                                                                         *)
(* Frames on a link are in order.  A link is lost on the agent's side at    *)
(* once; the gateway may still read what was in transit and notices later,  *)
(* perhaps when the agent has connected again.  Who may connect and what     *)
(* may be relayed is the subject of NodeRegistry and Sessions.              *)
(*                                                                         *)
(* A chunk of a response, or a message of a browser, is <<whose, number>>;  *)
(* the body of a request is <<request, 0>>.                                *)
(***************************************************************************)
EXTENDS Naturals, FiniteSets, Sequences

CONSTANTS
  Request, Browser,
  WithBody,             \* requests that have a body
  Page,                 \* requests answered by an HTML page
  Cut,                  \* pages whose chunks end within a character
  Chunks,               \* bound of the chunks of a response
  HtmlBufferCap,        \* chunks that HTML_BUFFER_CAP holds
  Messages, Replies,    \* bounds of the messages of a browser and of its socket
  MaxLinks, MaxBoots,   \* bounds of connections and restarts
  Nobody

ASSUME KindsGiven == WithBody \subseteq Request /\ Page \subseteq Request /\ Cut \subseteq Page
ASSUME BoundsGiven ==
  /\ Chunks \in Nat /\ HtmlBufferCap \in Nat /\ Messages \in Nat /\ Replies \in Nat
  /\ MaxLinks \in Nat /\ MaxBoots \in Nat
ASSUME PartiesFinite == IsFiniteSet(Request) /\ IsFiniteSet(Browser)
ASSUME PartiesDiffer == Request \cap Browser = {} /\ Nobody \notin Request \cup Browser

VARIABLES
  up, boots,            \* the gateway process
  channelSeq,           \* its last channel number
  streams, wsChannels,  \* whose a channel is
  response,             \* the response of each request, as the router writes it
  browser,              \* browser sockets
  node,                 \* the link of the live console entry, 0 if none
  link,                 \* each link: unused, open, lost (by the agent), closed
  down, toGateway,      \* frames in transit on each link
  agent,                \* the agent's own link, 0 if none
  pendingBodies,        \* requests whose body has not come, by channel
  wsUpstreams,          \* browsers with an upstream socket, by channel
  upstream,             \* HTTP requests to dsh
  socket                \* WebSockets to dsh

gateway == <<up, boots, channelSeq, streams, wsChannels, node>>
callers == <<response, browser>>
frames == <<link, down, toGateway, agent>>
tables == <<pendingBodies, wsUpstreams>>
dsh == <<upstream, socket>>
vars == <<gateway, callers, frames, tables, dsh>>

Link == 1..MaxLinks
Channel == 1..(Cardinality(Request) + Cardinality(Browser))
Whose == Request \cup Browser

(* Each party keeps its channel until the process ends.  A history, kept on       *)
(* dsh's side: the boot of the gateway a request or a socket was asked for in.     *)
NoResponse ==
  [st |-> "idle", channel |-> 0, head |-> "none", buffering |-> FALSE, buf |-> <<>>, out |-> <<>>]
NoBrowser == [st |-> "idle", channel |-> 0, n |-> 0, got |-> <<>>]
NoUpstream ==
  [st |-> "none", n |-> 0, retried |-> FALSE, channel |-> 0, link |-> 0, boot |-> 0, body |-> <<>>]
NoSocket ==
  [st |-> "none", n |-> 0, channel |-> 0, link |-> 0, boot |-> 0, queue |-> <<>>, got |-> <<>>]

Frame(type, c, data) == [type |-> type, channel |-> c, data |-> data]

(* What a socket that is not open is given is lost.                           *)
Down(F) == IF node # 0 /\ link[node] = "open" THEN [down EXCEPT ![node] = @ \o F] ELSE down
Up(k, F) == IF link[k] = "open" THEN [toGateway EXCEPT ![k] = @ \o F] ELSE toGateway
-------------------------------------------------------------------------------
Init ==
  /\ up = TRUE /\ boots = 0 /\ channelSeq = 0
  /\ streams = [c \in Channel |-> Nobody] /\ wsChannels = streams
  /\ response = [q \in Request |-> NoResponse]
  /\ browser = [b \in Browser |-> NoBrowser]
  /\ node = 0 /\ agent = 0
  /\ link = [k \in Link |-> "unused"]
  /\ down = [k \in Link |-> <<>>] /\ toGateway = down
  /\ pendingBodies = [c \in Channel |-> Nobody] /\ wsUpstreams = pendingBodies
  /\ upstream = [q \in Request |-> NoUpstream]
  /\ socket = [b \in Browser |-> NoSocket]
-------------------------------------------------------------------------------
(* Links.  The agent's tables stay as they are, across links.                 *)

Connect(k) ==
  /\ up /\ agent = 0 /\ link[k] = "unused" /\ \A j \in 1..(k - 1) : link[j] # "unused"
  /\ link' = [link EXCEPT ![k] = "open"]
  /\ agent' = k /\ node' = k
  /\ UNCHANGED <<up, boots, channelSeq, streams, wsChannels, callers, down, toGateway, tables, dsh>>

LinkBreaks ==
  /\ agent # 0
  /\ link' = [link EXCEPT ![agent] = "lost"]
  /\ down' = [down EXCEPT ![agent] = <<>>]
  /\ agent' = 0
  /\ UNCHANGED <<gateway, callers, toGateway, tables, dsh>>

(* fail(): a head that was written stays, and the body ends where it is.        *)
Failed(r) ==
  [r EXCEPT !.st = "failed", !.head = IF @ = "none" THEN "bad" ELSE @]

(* dropChannelsForMachine(): by machine, whichever of its links was closed.      *)
LinkClosed(k) ==
  /\ up /\ link[k] = "lost"
  /\ link' = [link EXCEPT ![k] = "closed"]
  /\ toGateway' = [toGateway EXCEPT ![k] = <<>>]
  /\ node' = IF node = k THEN 0 ELSE node
  /\ response' = [q \in Request |->
       IF \E c \in Channel : streams[c] = q THEN Failed(response[q]) ELSE response[q]]
  /\ browser' = [b \in Browser |->
       IF \E c \in Channel : wsChannels[c] = b THEN [browser[b] EXCEPT !.st = "closed"]
       ELSE browser[b]]
  /\ streams' = [c \in Channel |-> Nobody] /\ wsChannels' = [c \in Channel |-> Nobody]
  /\ UNCHANGED <<up, boots, channelSeq, down, agent, tables, dsh>>

(* The process ends: stop(), or an exception nobody catches.                    *)
ProcessEnds ==
  /\ up' = FALSE /\ node' = 0 /\ agent' = 0 /\ channelSeq' = 0
  /\ streams' = [c \in Channel |-> Nobody] /\ wsChannels' = [c \in Channel |-> Nobody]
  /\ response' = [q \in Request |->
       [response[q] EXCEPT !.channel = 0, !.st = IF @ = "waiting" THEN "lost" ELSE @]]
  /\ browser' = [b \in Browser |->
       [browser[b] EXCEPT !.channel = 0, !.st = IF @ = "open" THEN "closed" ELSE @]]
  /\ link' = [k \in Link |-> IF link[k] = "unused" THEN "unused" ELSE "closed"]
  /\ down' = [k \in Link |-> <<>>] /\ toGateway' = [k \in Link |-> <<>>]
  /\ UNCHANGED <<boots, tables, dsh>>

Exit == up /\ ProcessEnds

Boot ==
  /\ ~up /\ boots < MaxBoots
  /\ up' = TRUE /\ boots' = boots + 1
  /\ UNCHANGED <<channelSeq, streams, wsChannels, node, callers, frames, tables, dsh>>
-------------------------------------------------------------------------------
(* The gateway, on behalf of browsers.                                        *)

NextChannel == channelSeq + 1

(* relayStream(): the head, and the body in one frame.                          *)
Relay(q) ==
  /\ up /\ node # 0 /\ response[q].st = "idle"
  /\ channelSeq' = NextChannel
  /\ streams' = [streams EXCEPT ![NextChannel] = q]
  /\ response' = [response EXCEPT ![q].st = "waiting", ![q].channel = NextChannel]
  /\ down' = Down(<<Frame("request", NextChannel, <<q>>)>>
                  \o IF q \in WithBody THEN <<Frame("data", NextChannel, <<q, 0>>)>> ELSE <<>>)
  /\ UNCHANGED <<up, boots, wsChannels, node, browser, link, toGateway, agent, tables, dsh>>

(* attachBrowserWs(), relayWsOpen()                                          *)
BrowserOpens(b) ==
  /\ up /\ node # 0 /\ browser[b].st = "idle"
  /\ channelSeq' = NextChannel
  /\ wsChannels' = [wsChannels EXCEPT ![NextChannel] = b]
  /\ browser' = [browser EXCEPT ![b].st = "open", ![b].channel = NextChannel]
  /\ down' = Down(<<Frame("open", NextChannel, <<b>>)>>)
  /\ UNCHANGED <<up, boots, streams, node, response, link, toGateway, agent, tables, dsh>>

(* sendWs(): on whatever link is live, not the one the channel was opened on.    *)
BrowserSends(b, c) ==
  /\ up /\ wsChannels[c] = b /\ browser[b].n < Messages
  /\ browser' = [browser EXCEPT ![b].n = @ + 1]
  /\ down' = Down(<<Frame("data", c, <<b, browser[b].n + 1>>)>>)
  /\ UNCHANGED <<gateway, response, link, toGateway, agent, tables, dsh>>

(* closeWsChannel()                                                          *)
BrowserCloses(b, c) ==
  /\ up /\ wsChannels[c] = b
  /\ browser' = [browser EXCEPT ![b].st = "closed"]
  /\ wsChannels' = [wsChannels EXCEPT ![c] = Nobody]
  /\ down' = Down(<<Frame("close", c, <<>>)>>)
  /\ UNCHANGED <<up, boots, channelSeq, streams, node, response, link, toGateway, agent, tables, dsh>>

(* The idle timer of a stream, armed again by each of its frames.                *)
RelayTimeout(c) ==
  /\ up /\ streams[c] # Nobody
  /\ response' = [response EXCEPT ![streams[c]] = Failed(@)]
  /\ streams' = [streams EXCEPT ![c] = Nobody]
  /\ UNCHANGED <<up, boots, channelSeq, wsChannels, node, browser, frames, tables, dsh>>
-------------------------------------------------------------------------------
(* The agent: one frame of its own link.                                      *)

Sent(q, c, x) ==
  [st |-> "sent", n |-> 0, retried |-> FALSE, channel |-> c, link |-> agent, boot |-> boots,
   body |-> x]

OnRequest(q, c) ==
  /\ upstream' = [upstream EXCEPT ![q] =
       IF q \in WithBody THEN [Sent(q, c, <<>>) EXCEPT !.st = "awaiting"] ELSE Sent(q, c, <<>>)]
  /\ pendingBodies' = IF q \in WithBody THEN [pendingBodies EXCEPT ![c] = q] ELSE pendingBodies
  /\ UNCHANGED <<wsUpstreams, socket>>

(* handleWsOpen(): an entry that is there is replaced.                         *)
OnOpen(b, c) ==
  /\ socket' = [socket EXCEPT ![b] =
       [st |-> "connecting", n |-> 0, channel |-> c, link |-> agent, boot |-> boots,
        queue |-> <<>>, got |-> <<>>]]
  /\ wsUpstreams' = [wsUpstreams EXCEPT ![c] = b]
  /\ UNCHANGED <<pendingBodies, upstream>>

Unshifted(s, x) ==   \* defect: the queue is a stack
  IF s.st = "open" THEN [s EXCEPT !.got = Append(@, x)] ELSE [s EXCEPT !.queue = <<x>> \o @]
Delivered(s, x) ==
  IF s.st = "open" THEN [s EXCEPT !.got = Append(@, x)] ELSE [s EXCEPT !.queue = Append(@, x)]

(* A data frame is for the upstream socket of its channel, or else the body of   *)
(* the request that waits for one there (collectRequestBody()).                *)
OnData(c, x) ==
  \/ /\ wsUpstreams[c] # Nobody
     /\ socket' = [socket EXCEPT ![wsUpstreams[c]] = Delivered(@, x)]
     /\ UNCHANGED <<tables, upstream>>
  \/ /\ wsUpstreams[c] = Nobody /\ pendingBodies[c] # Nobody
     /\ upstream' = [upstream EXCEPT ![pendingBodies[c]].st = "sent", ![pendingBodies[c]].body = x]
     /\ pendingBodies' = [pendingBodies EXCEPT ![c] = Nobody]
     /\ UNCHANGED <<wsUpstreams, socket>>
  \/ /\ wsUpstreams[c] = Nobody /\ pendingBodies[c] = Nobody
     /\ UNCHANGED <<tables, dsh>>

OnClose(c) ==
  /\ socket' = IF wsUpstreams[c] = Nobody THEN socket
               ELSE [socket EXCEPT ![wsUpstreams[c]].st = IF @ = "closed" THEN @ ELSE "closing"]
  /\ wsUpstreams' = [wsUpstreams EXCEPT ![c] = Nobody]
  /\ UNCHANGED <<pendingBodies, upstream>>

AgentReads ==
  /\ agent # 0 /\ down[agent] # <<>>
  /\ down' = [down EXCEPT ![agent] = Tail(@)]
  /\ LET f == Head(down[agent]) IN
     \/ f.type = "request" /\ OnRequest(f.data[1], f.channel)
     \/ f.type = "open" /\ OnOpen(f.data[1], f.channel)
     \/ f.type = "data" /\ OnData(f.channel, f.data)
     \/ f.type = "close" /\ OnClose(f.channel)
  /\ UNCHANGED <<gateway, callers, link, toGateway, agent>>
-------------------------------------------------------------------------------
(* dsh, and what the agent makes of it: it answers on the link that the request  *)
(* came on, if that is still open.                                           *)

CurrentLink(q) == IF agent = 0 THEN upstream[q].link ELSE agent   \* defect
AnswerLink(q) == upstream[q].link

Answer(q, st, n, F) ==
  /\ upstream' = [upstream EXCEPT ![q].st = st, ![q].n = n, ![q].retried = FALSE]
  /\ toGateway' = Up(AnswerLink(q), F)
  /\ UNCHANGED <<gateway, callers, link, down, agent, tables, socket>>

Of(q, type, data) == Frame(type, upstream[q].channel, data)

(* A 401: once, with a fresh cookie, the request is made again.                  *)
Retry(q) ==
  /\ upstream[q].st = "sent" /\ ~upstream[q].retried
  /\ upstream' = [upstream EXCEPT ![q].retried = TRUE]
  /\ UNCHANGED <<gateway, callers, frames, tables, socket>>

Responds(q) ==
  /\ upstream[q].st = "sent"
  /\ Answer(q, "answering", 0, <<Of(q, "response", <<"own">>)>>)

SendsChunk(q) ==
  LET n == upstream[q].n + 1 IN
  /\ upstream[q].st = "answering" /\ n <= Chunks
  /\ Answer(q, "answering", n, <<Of(q, "data", <<q, n>>)>>)

(* The response ends; or breaks off, which reads the same.                      *)
Ends(q) ==
  /\ upstream[q].st = "answering"
  /\ Answer(q, "done", upstream[q].n, <<Of(q, "end", <<>>)>>)

(* The request fails: before the response, or in the middle of it.               *)
Refused(q) ==
  /\ upstream[q].st = "sent"
  /\ Answer(q, "done", 0, <<Of(q, "response", <<"bad">>), Of(q, "end", <<>>)>>)

Reset(q) ==
  /\ upstream[q].st = "answering"
  /\ Answer(q, "done", upstream[q].n,
       <<Of(q, "response", <<"bad">>), Of(q, "end", <<>>), Of(q, "end", <<>>)>>)

SocketOpens(b) ==
  /\ socket[b].st = "connecting"
  /\ socket' = [socket EXCEPT ![b].st = "open", ![b].got = socket[b].queue, ![b].queue = <<>>]
  /\ UNCHANGED <<gateway, callers, frames, tables, upstream>>

SocketSends(b) ==
  /\ socket[b].st = "open" /\ socket[b].n < Replies
  /\ socket' = [socket EXCEPT ![b].n = @ + 1]
  /\ toGateway' = Up(socket[b].link, <<Frame("data", socket[b].channel, <<b, socket[b].n + 1>>)>>)
  /\ UNCHANGED <<gateway, callers, link, down, agent, tables, upstream>>

(* The entry of wsUpstreams stays.                                            *)
SocketCloses(b) ==
  /\ socket[b].st \in {"connecting", "open", "closing"}
  /\ socket' = [socket EXCEPT ![b].st = "closed"]
  /\ toGateway' = Up(socket[b].link, <<Frame("close", socket[b].channel, <<>>)>>)
  /\ UNCHANGED <<gateway, callers, link, down, agent, tables, upstream>>
-------------------------------------------------------------------------------
(* The gateway: one frame of a link, whether or not that is the live one.        *)

(* A chunk as toString('utf8') reads it: a character it cuts is lost.            *)
Decoded(q, x) == IF q \in Cut THEN <<Nobody, x[2]>> ELSE x

(* onResponse(): a page is held back until it is complete; a head that is written *)
(* twice throws, and nobody catches it.                                       *)
HeldBack(q, status) == q \in Page /\ status = "own"
TwoHeads(q, status) == ~HeldBack(q, status) /\ response[q].head # "none"

Headed(q, status) ==
  IF HeldBack(q, status) THEN [response[q] EXCEPT !.buffering = TRUE, !.buf = <<>>]
  ELSE [response[q] EXCEPT !.head = status]

(* onData(): a page too large is sent as it is, what was held back first.          *)
TooLarge(r) == Len(r.buf) + 1 > HtmlBufferCap
Streamed(r, x) ==
  [r EXCEPT !.head = IF @ = "none" THEN "own" ELSE @, !.buffering = FALSE, !.buf = <<>>,
            !.out = @ \o r.buf \o <<x>>]

Extended(q, x) ==
  LET r == response[q] IN
  IF r.buffering /\ ~TooLarge(r) THEN [r EXCEPT !.buf = Append(@, Decoded(q, x))]
  ELSE Streamed(r, x)

(* onEnd(): a page that was held back is sent, with the injections.               *)
Ended(r) ==
  [r EXCEPT !.st = "ended", !.head = IF @ = "none" THEN "own" ELSE @, !.buffering = FALSE,
            !.buf = <<>>, !.out = @ \o r.buf]

StreamFrame(f, q) ==
  /\ response' = [response EXCEPT ![q] =
       CASE f.type = "response" -> Headed(q, f.data[1])
         [] f.type = "data" -> Extended(q, f.data)
         [] f.type = "end" -> Ended(response[q])
         [] OTHER -> response[q]]
  /\ streams' = IF f.type = "end" THEN [streams EXCEPT ![f.channel] = Nobody] ELSE streams
  /\ UNCHANGED <<wsChannels, browser>>

BrowserFrame(f, b) ==
  /\ browser' = [browser EXCEPT ![b] =
       CASE f.type = "data" -> [browser[b] EXCEPT !.got = Append(@, f.data)]
         [] f.type = "close" -> [browser[b] EXCEPT !.st = "closed"]
         [] OTHER -> browser[b]]
  /\ wsChannels' = IF f.type = "close" THEN [wsChannels EXCEPT ![f.channel] = Nobody]
                   ELSE wsChannels
  /\ UNCHANGED <<streams, response>>

Throws(f) ==
  f.type = "response" /\ streams[f.channel] # Nobody /\ TwoHeads(streams[f.channel], f.data[1])

GatewayReads(k) ==
  LET f == Head(toGateway[k]) IN
  /\ up /\ link[k] \in {"open", "lost"} /\ toGateway[k] # <<>> /\ ~Throws(f)
  /\ toGateway' = [toGateway EXCEPT ![k] = Tail(@)]
  /\ \/ streams[f.channel] # Nobody /\ StreamFrame(f, streams[f.channel])
     \/ wsChannels[f.channel] # Nobody /\ BrowserFrame(f, wsChannels[f.channel])
     \/ /\ streams[f.channel] = Nobody /\ wsChannels[f.channel] = Nobody
        /\ UNCHANGED <<streams, wsChannels, callers>>
  /\ UNCHANGED <<up, boots, channelSeq, node, link, down, agent, tables, dsh>>

Crash(k) ==
  /\ up /\ link[k] \in {"open", "lost"} /\ toGateway[k] # <<>> /\ Throws(Head(toGateway[k]))
  /\ ProcessEnds

Next ==
  \/ \E k \in Link : Connect(k) \/ LinkClosed(k) \/ GatewayReads(k) \/ Crash(k)
  \/ LinkBreaks \/ Exit \/ Boot \/ AgentReads
  \/ \E q \in Request :
       \/ Relay(q) \/ Retry(q) \/ Responds(q) \/ SendsChunk(q)
       \/ Ends(q) \/ Refused(q) \/ Reset(q)
  \/ \E b \in Browser :
       \/ BrowserOpens(b) \/ SocketOpens(b) \/ SocketSends(b) \/ SocketCloses(b)
       \/ \E c \in Channel : BrowserSends(b, c) \/ BrowserCloses(b, c)
  \/ \E c \in Channel : RelayTimeout(c)

Spec == Init /\ [][Next]_vars
-------------------------------------------------------------------------------
Item == (Whose \cup {Nobody}) \X Nat
ResponseRecord ==
  [st : {"idle", "waiting", "ended", "failed", "lost"}, channel : Channel \cup {0},
   head : {"none", "own", "bad"}, buffering : BOOLEAN, buf : Seq(Item), out : Seq(Item)]
BrowserRecord ==
  [st : {"idle", "open", "closed"}, channel : Channel \cup {0}, n : 0..Messages, got : Seq(Item)]
UpstreamRecord ==
  [st : {"none", "awaiting", "sent", "answering", "done"}, n : 0..Chunks, retried : BOOLEAN,
   channel : Channel \cup {0}, link : 0..MaxLinks, boot : 0..MaxBoots, body : Item \cup {<<>>}]
SocketRecord ==
  [st : {"none", "connecting", "open", "closing", "closed"}, n : 0..Replies,
   channel : Channel \cup {0}, link : 0..MaxLinks, boot : 0..MaxBoots,
   queue : Seq(Item), got : Seq(Item)]

(* What the gateway sends to the agent, and the agent to the gateway.           *)
DownFrame ==
  [type : {"request"}, channel : Channel, data : {<<q>> : q \in Request}]
    \cup [type : {"open"}, channel : Channel, data : {<<b>> : b \in Browser}]
    \cup [type : {"data"}, channel : Channel, data : Item]
    \cup [type : {"close"}, channel : Channel, data : {<<>>}]
UpFrame ==
  [type : {"response"}, channel : Channel, data : {<<"own">>, <<"bad">>}]
    \cup [type : {"data"}, channel : Channel, data : Item]
    \cup [type : {"end", "close"}, channel : Channel, data : {<<>>}]

TypeOK ==
  /\ up \in BOOLEAN /\ boots \in 0..MaxBoots /\ channelSeq \in 0..Cardinality(Whose)
  /\ streams \in [Channel -> Request \cup {Nobody}]
  /\ wsChannels \in [Channel -> Browser \cup {Nobody}]
  /\ response \in [Request -> ResponseRecord]
  /\ \A q \in Request : Len(response[q].buf) <= HtmlBufferCap
  /\ browser \in [Browser -> BrowserRecord]
  /\ node \in 0..MaxLinks /\ agent \in 0..MaxLinks
  /\ link \in [Link -> {"unused", "open", "lost", "closed"}]
  /\ down \in [Link -> Seq(DownFrame)] /\ toGateway \in [Link -> Seq(UpFrame)]
  /\ pendingBodies \in [Channel -> Request \cup {Nobody}]
  /\ wsUpstreams \in [Channel -> Browser \cup {Nobody}]
  /\ upstream \in [Request -> UpstreamRecord]
  /\ socket \in [Browser -> SocketRecord]

(* s is what x sent first.                                                     *)
IsFirstOf(s, x) == \A i \in DOMAIN s : s[i] = <<x, i>>

(* What a browser gets for its request is the beginning of the response to that   *)
(* very request, in order; and when it ends without an error it is all that dsh   *)
(* sent.  Across lost links, restarts that number channels anew, pages held back  *)
(* and pages too large for that.  Pages whose chunks cut a character are excepted. *)
(* And what dsh is asked has the body of that request, unless the gateway was      *)
(* started again before the body had come.                                      *)
ResponsesAreOwn ==
  \A q \in Request \ Cut :
    /\ IsFirstOf(response[q].out, q)
    /\ response[q].st = "ended" /\ response[q].head = "own" =>
         upstream[q].st = "done" /\ Len(response[q].out) = upstream[q].n
    /\ upstream[q].st \in {"sent", "answering", "done"} /\ upstream[q].boot = boots =>
         upstream[q].body = IF q \in WithBody THEN <<q, 0>> ELSE <<>>

(* A browser hears its own upstream socket, from the beginning and without gaps.   *)
(* That hears its browser, in order; without gaps while the link it was opened on   *)
(* lasts.  Sockets opened before a restart of the gateway are excepted.           *)
InOrder(s, x) ==
  /\ \A i \in DOMAIN s : s[i][1] = x
  /\ \A i, j \in DOMAIN s : i < j => s[i][2] < s[j][2]
ConversationsAreOwn ==
  \A b \in Browser :
    /\ IsFirstOf(browser[b].got, b)
    /\ socket[b].boot = boots =>
         /\ InOrder(socket[b].got, b)
         /\ socket[b].link = agent => IsFirstOf(socket[b].got, b)

(* What dsh is asked has the body of that request, also after a restart of the     *)
(* gateway (index.js: "Request bodies arrive as binary frames after the             *)
(* relay_request JSON"): whatever came on its channel later.                        *)
BodiesAreOwn ==
  \A q \in WithBody : upstream[q].st \in {"sent", "answering", "done"} => upstream[q].body = <<q, 0>>

(* A failure of the upstream in the middle of a response ends that response        *)
(* (router.ts: "just close; the client sees a truncated body"), not the gateway.   *)
FailureEndsOneResponse == [][\A k \in Link : ~Crash(k)]_vars
===============================================================================
