---------------------------- MODULE Tunnel_proofs ----------------------------
(***************************************************************************)
(* That what a browser gets is its own, and all of it, for any number of    *)
(* requests, browsers, links and restarts.                                 *)
(*                                                                         *)
(* The inductive invariant has four layers, each kept given those before:    *)
(*   Attached     links, channels and tables are consistent: a channel that   *)
(*                has an owner has one only, and what dsh is asked on behalf   *)
(*                of that owner goes by the same channel, or is of a process   *)
(*                that has ended;                                             *)
(*   Owned        frames in transit on a channel are its owner's;              *)
(*   FlowingUp    those for the gateway continue, without gaps, what has been  *)
(*                read before, head first and end last;                       *)
(*   FlowingDown  those for dsh come in order after what a socket was given,    *)
(*                and without gaps if its link is still the agent's.           *)
(* Each layer is a section: what a frame read, a frame sent and the end of a    *)
(* link or process do to it, and then one lemma for each action of Next.        *)
(***************************************************************************)
EXTENDS Tunnel, FiniteSetTheorems, SequenceTheorems, TLAPS

(* A party's channel on the gateway's side, and its request or socket on dsh's.  *)
Chan(w) == IF w \in Request THEN response[w].channel ELSE browser[w].channel
Idle(w) == IF w \in Request THEN response[w].st = "idle" ELSE browser[w].st = "idle"
Started(w) == IF w \in Request THEN upstream[w].st # "none" ELSE socket[w].st # "none"
On(w) == IF w \in Request THEN upstream[w].channel ELSE socket[w].channel
Via(w) == IF w \in Request THEN upstream[w].link ELSE socket[w].link
BootOf(w) == IF w \in Request THEN upstream[w].boot ELSE socket[w].boot
Given(w) == IF w \in Request THEN upstream[w].n ELSE socket[w].n
Heard(w) ==
  IF w \in Request THEN Len(response[w].out) + Len(response[w].buf) ELSE Len(browser[w].got)
Listening(w, c) == IF w \in Request THEN streams[c] = w ELSE wsChannels[c] = w

(* Started since the process was, or of a process that has ended.               *)
Current(w) == up /\ BootOf(w) = boots /\ On(w) = Chan(w) /\ Chan(w) \in Channel
Past(w) == Chan(w) = 0 /\ link[Via(w)] = "closed" /\ (up => BootOf(w) < boots)

LinksAgree ==
  /\ agent # 0 => up /\ link[agent] = "open" /\ node = agent
  /\ node # 0 => up /\ link[node] \in {"open", "lost"}
  /\ \A k \in Link :
       /\ link[k] = "open" => agent = k
       /\ link[k] \in {"open", "lost"} => up
       /\ down[k] # <<>> => agent = k
       /\ toGateway[k] # <<>> => link[k] \in {"open", "lost"}
Holders == {w \in Whose : Chan(w) # 0}
ChannelsAgree ==
  /\ channelSeq = Cardinality(Holders)
  /\ ~up => channelSeq = 0
  /\ \A w \in Whose : Chan(w) <= channelSeq /\ (Idle(w) => Chan(w) = 0 /\ ~Started(w))
  /\ \A v, w \in Whose : Chan(v) = Chan(w) /\ Chan(v) # 0 => v = w
  /\ \A c \in Channel :
       /\ \A q \in Request : streams[c] = q => Chan(q) = c /\ response[q].st = "waiting"
       /\ \A b \in Browser : wsChannels[c] = b => Chan(b) = c /\ browser[b].st = "open"
DshAgrees ==
  /\ \A w \in Whose : Started(w) =>
       /\ BootOf(w) <= boots /\ On(w) \in Channel
       /\ Via(w) \in Link /\ link[Via(w)] # "unused"
       /\ Current(w) \/ Past(w)
  /\ \A c \in Channel :
       /\ \A q \in Request : pendingBodies[c] = q =>
            q \in WithBody /\ upstream[q].st = "awaiting" /\ On(q) = c
       /\ \A b \in Browser : wsUpstreams[c] = b => Started(b) /\ On(b) = c
Attached == LinksAgree /\ ChannelsAgree /\ DshAgrees

(* The frames of a sequence; and those of a kind on a channel.                   *)
In(s) == {s[i] : i \in DOMAIN s}
DataOn(c) == {f \in DownFrame \cup UpFrame : f.type = "data" /\ f.channel = c}
OpenOn(c) == {f \in DownFrame : f.type \in {"request", "open"} /\ f.channel = c}
OwnOn(c) == {f \in UpFrame : f.type = "response" /\ f.data = <<"own">> /\ f.channel = c}
EndOn(c) == {f \in UpFrame : f.type = "end" /\ f.channel = c}

Precedes(s, A, B) == \A i, j \in DOMAIN s : s[i] \in A /\ s[j] \in B => i < j
Once(s, A) == \A i, j \in DOMAIN s : s[i] \in A /\ s[j] \in A => i = j

DownIsOf(w, f) ==
  /\ f.channel = Chan(w)
  /\ f.type \in {"request", "open"} => f.data = <<w>> /\ ~Started(w)
  /\ f.type = "request" => w \in Request
  /\ f.type = "open" => w \in Browser
  /\ f.type = "data" =>
       /\ w \in Request => w \in WithBody /\ f.data = <<w, 0>>
       /\ w \in Browser => \E m \in 1..browser[w].n : f.data = <<w, m>>
UpIsOf(w, f, k) ==
  /\ f.channel = Chan(w) /\ Started(w) /\ Via(w) = k
  /\ f.type \in IF w \in Request THEN {"response", "data", "end"} ELSE {"data", "close"}
  /\ f.type = "data" => f.data[1] = w
OwnedDown ==
  \A k \in Link : /\ \A f \in In(down[k]) : \E w \in Whose : DownIsOf(w, f)
                  /\ \A c \in Channel : Once(down[k], OpenOn(c))
OwnedUp ==
  \A k \in Link : \A f \in In(toGateway[k]) : \E w \in Whose : UpIsOf(w, f, k)
OwnBodies ==
  \A q \in Request :
    /\ q \in WithBody /\ upstream[q].st \in {"sent", "answering", "done"} /\ upstream[q].boot = boots =>
         upstream[q].body = <<q, 0>>
    /\ q \notin WithBody => upstream[q].body = <<>>
Owned == OwnedDown /\ OwnedUp /\ OwnBodies

(* The data on c in s are numbered low + 1, low + 2, ..., and up to high.         *)
Chain(s, c, low, high) ==
  \A i \in DOMAIN s : s[i] \in DataOn(c) =>
    /\ s[i].data[2] \in (low + 1)..high
    /\ \A j \in DOMAIN s : j < i /\ s[j] \in DataOn(c) => s[j].data[2] < s[i].data[2]
    /\ \/ s[i].data[2] = low + 1
       \/ \E j \in DOMAIN s :
            j < i /\ s[j] \in DataOn(c) /\ s[j].data[2] + 1 = s[i].data[2]
Complete(s, c, low, high) ==
  low = high \/ \E i \in DOMAIN s : s[i] \in DataOn(c) /\ s[i].data[2] = high
Continues(s, c, low, high) ==
  low <= high /\ Chain(s, c, low, high) /\ Complete(s, c, low, high)

(* What was read, and what comes up the link, is what dsh has sent.              *)
FlowsUp(w, c) ==
  LET s == toGateway[Via(w)] IN
  IF ~Started(w) THEN Heard(w) = 0
  ELSE /\ Heard(w) <= Given(w) /\ Chain(s, c, Heard(w), Given(w))
       /\ link[Via(w)] = "open" => Complete(s, c, Heard(w), Given(w))
Heads(q, c) ==
  LET s == toGateway[upstream[q].link] IN
  upstream[q].st # "none" =>
    /\ Precedes(s, OwnOn(c), DataOn(c)) /\ Precedes(s, DataOn(c), EndOn(c))
    /\ In(s) \cap OwnOn(c) # {} => Heard(q) = 0
    /\ In(s) \cap EndOn(c) # {} =>
         upstream[q].st = "done" /\ Complete(s, c, Heard(q), upstream[q].n)
Reads(q) ==
  /\ q \notin Cut =>
       /\ IsFirstOf(response[q].out, q)
       /\ \A i \in DOMAIN response[q].buf :
            response[q].buf[i] = <<q, Len(response[q].out) + i>>
  /\ response[q].st = "ended" =>
       /\ upstream[q].st = "done" /\ response[q].buf = <<>>
       /\ Len(response[q].out) = upstream[q].n
  /\ upstream[q].st \in {"none", "awaiting", "sent"} => upstream[q].n = 0
FlowingUp ==
  /\ \A w \in Whose : Idle(w) => Heard(w) = 0
  /\ \A c \in Channel, w \in Whose : Listening(w, c) => FlowsUp(w, c)
  /\ \A c \in Channel, q \in Request : Listening(q, c) => Heads(q, c)
  /\ \A q \in Request : Reads(q)
  /\ \A b \in Browser : IsFirstOf(browser[b].got, b)

(* What an upstream socket was given, and what comes down the link.              *)
Taken(t) == t.got \o t.queue
Increases(s, c) ==
  \A i, j \in DOMAIN s :
    i < j /\ s[i] \in DataOn(c) /\ s[j] \in DataOn(c) => s[i].data[2] < s[j].data[2]
Above(s, c, t) ==
  \A i \in DOMAIN s, j \in DOMAIN t : s[i] \in DataOn(c) => t[j][2] < s[i].data[2]
GivenInOrder(b) ==
  LET t == socket[b] IN
  /\ browser[b].st = "idle" => browser[b].n = 0
  /\ t.st = "none" => Taken(t) = <<>>
  /\ t.st = "connecting" => t.got = <<>>
  /\ t.st = "open" => t.queue = <<>>
  /\ t.boot = boots =>
       InOrder(Taken(t), b) /\ \A j \in DOMAIN Taken(t) : Taken(t)[j][2] <= browser[b].n
Moves(s, c, t, n) ==
  /\ Increases(s, c) /\ Above(s, c, t) /\ Precedes(s, OpenOn(c), DataOn(c))
  /\ In(s) \cap OpenOn(c) # {} => Continues(s, c, 0, n)
FlowsDown(b, s, c) ==
  /\ Moves(s, c, Taken(socket[b]), browser[b].n)
  /\ socket[b].st # "none" /\ socket[b].link = agent =>
       /\ IsFirstOf(Taken(socket[b]), b)
       /\ wsUpstreams[c] = b => Continues(s, c, Len(Taken(socket[b])), browser[b].n)
FlowingDown ==
  \A b \in Browser :
    /\ GivenInOrder(b)
    /\ agent # 0 /\ Chan(b) # 0 => FlowsDown(b, down[agent], Chan(b))

IInv == TypeOK /\ Attached /\ Owned /\ FlowingUp /\ FlowingDown
-------------------------------------------------------------------------------
(* Sequences of frames.                                                      *)

LEMMA Joined ==
  ASSUME NEW S, NEW s \in Seq(S), NEW F \in Seq(S)
  PROVE  /\ s \o F \in Seq(S)
         /\ \A i \in DOMAIN (s \o F) :
              \/ i \in DOMAIN s /\ (s \o F)[i] = s[i]
              \/ i > Len(s) /\ i - Len(s) \in DOMAIN F /\ (s \o F)[i] = F[i - Len(s)]
         /\ \A i \in DOMAIN s : i \in DOMAIN (s \o F) /\ i <= Len(s) /\ (s \o F)[i] = s[i]
         /\ \A i \in DOMAIN F : i + Len(s) \in DOMAIN (s \o F) /\ (s \o F)[i + Len(s)] = F[i]
<1>1. /\ s \o F \in Seq(S) /\ Len(s \o F) = Len(s) + Len(F)
      /\ \A i \in 1 .. Len(s) + Len(F) :
           (s \o F)[i] = IF i <= Len(s) THEN s[i] ELSE F[i - Len(s)]
  BY ConcatProperties
<1>2. /\ Len(s) \in Nat /\ DOMAIN s = 1 .. Len(s) /\ Len(F) \in Nat /\ DOMAIN F = 1 .. Len(F)
      /\ DOMAIN (s \o F) = 1 .. (Len(s) + Len(F))
  BY <1>1, LenProperties
<1> QED
  BY <1>1, <1>2

LEMMA Shortened ==
  ASSUME NEW S, NEW s \in Seq(S), s # <<>>
  PROVE  /\ 1 \in DOMAIN s /\ Head(s) = s[1] /\ Head(s) \in S /\ Tail(s) \in Seq(S)
         /\ \A i \in DOMAIN Tail(s) : i \in Nat /\ i + 1 \in DOMAIN s /\ Tail(s)[i] = s[i + 1]
         /\ \A i \in DOMAIN s : i # 1 => i - 1 \in DOMAIN Tail(s) /\ Tail(s)[i - 1] = s[i]
<1>1. /\ Head(s) \in S /\ Tail(s) \in Seq(S) /\ Len(Tail(s)) = Len(s) - 1
      /\ \A i \in 1 .. Len(Tail(s)) : Tail(s)[i] = s[i + 1]
  BY HeadTailProperties
<1>2. /\ Len(s) \in Nat /\ DOMAIN s = 1 .. Len(s) /\ Len(s) # 0
      /\ DOMAIN Tail(s) = 1 .. (Len(s) - 1)
  BY <1>1, LenProperties, EmptySeq
<1>3. Head(s) = s[1]
  OBVIOUS
<1> QED
  BY <1>1, <1>2, <1>3

LEMMA InAfter ==
  ASSUME NEW S
  PROVE  /\ \A s, F \in Seq(S) : In(s \o F) = In(s) \cup In(F)
         /\ \A s \in Seq(S) : s # <<>> => Head(s) \in In(s) /\ In(Tail(s)) \subseteq In(s)
         /\ \A s \in Seq(S) : In(s) \subseteq S
         /\ In(<<>>) = {}
<1>1. ASSUME NEW s \in Seq(S), NEW F \in Seq(S) PROVE In(s \o F) = In(s) \cup In(F)
  <2>1. In(s \o F) \subseteq In(s) \cup In(F)
    BY <1>1, Joined DEF In
  <2>2. ASSUME NEW i \in DOMAIN s PROVE s[i] \in In(s \o F)
    <3>1. i \in DOMAIN (s \o F) /\ (s \o F)[i] = s[i]
      BY <1>1, <2>2, Joined
    <3> QED
      BY <3>1 DEF In
  <2>3. ASSUME NEW i \in DOMAIN F PROVE F[i] \in In(s \o F)
    <3>1. i + Len(s) \in DOMAIN (s \o F) /\ (s \o F)[i + Len(s)] = F[i]
      BY <1>1, <2>3, Joined
    <3> QED
      BY <3>1 DEF In
  <2> QED
    BY <2>1, <2>2, <2>3 DEF In
<1>2. ASSUME NEW s \in Seq(S), s # <<>>
      PROVE  Head(s) \in In(s) /\ In(Tail(s)) \subseteq In(s)
  BY <1>2, Shortened DEF In
<1>3. ASSUME NEW s \in Seq(S) PROVE In(s) \subseteq S
  BY <1>3, LenProperties DEF In
<1>4. In(<<>>) = {}
  BY DEF In
<1> QED
  BY <1>1, <1>2, <1>3, <1>4

LEMMA LastOf ==
  ASSUME NEW S, NEW s \in Seq(S), NEW f \in S
  PROVE  /\ s \o <<f>> \in Seq(S) /\ In(s \o <<f>>) = In(s) \cup {f}
         /\ \A i \in DOMAIN (s \o <<f>>) :
              \/ i \in DOMAIN s /\ (s \o <<f>>)[i] = s[i]
              \/ i = Len(s) + 1 /\ (s \o <<f>>)[i] = f
         /\ \A i \in DOMAIN s :
              i \in DOMAIN (s \o <<f>>) /\ i <= Len(s) /\ (s \o <<f>>)[i] = s[i]
         /\ Len(s) + 1 \in DOMAIN (s \o <<f>>) /\ (s \o <<f>>)[Len(s) + 1] = f
<1> DEFINE t == s \o <<f>>
<1>0. /\ DOMAIN s = 1 .. Len(s) /\ Len(s) \in Nat /\ DOMAIN <<f>> = {1} /\ <<f>> \in Seq(S)
  BY LenProperties
<1>1. \A i \in DOMAIN t :
        \/ i \in DOMAIN s /\ t[i] = s[i]
        \/ i > Len(s) /\ i - Len(s) \in DOMAIN <<f>> /\ t[i] = <<f>>[i - Len(s)]
  BY <1>0, Joined
<1>2. \A i \in DOMAIN s : i \in DOMAIN t /\ i <= Len(s) /\ t[i] = s[i]
  BY <1>0, Joined
<1>3. 1 + Len(s) \in DOMAIN t /\ t[1 + Len(s)] = <<f>>[1]
  BY <1>0, Joined
<1>4. t \in Seq(S)
  BY <1>0, Joined
<1>5. DOMAIN t \subseteq Nat
  BY <1>4, LenProperties
<1>6. In(t) = In(s) \cup In(<<f>>)
  <2>1. \A F \in Seq(S) : In(s \o F) = In(s) \cup In(F)
    BY InAfter
  <2> QED
    BY <1>0, <2>1
<1>7. In(<<f>>) = {f}
  BY <1>0 DEF In
<1> HIDE DEF t
<1>8. \A i \in DOMAIN t : (i \in DOMAIN s /\ t[i] = s[i]) \/ (i = Len(s) + 1 /\ t[i] = f)
  BY <1>0, <1>1, <1>5
<1> QED
  BY <1>0, <1>2, <1>3, <1>4, <1>6, <1>7, <1>8 DEF t

LEMMA PrecedesAfter ==
  ASSUME NEW S, NEW s \in Seq(S), NEW A, NEW B, Precedes(s, A, B)
  PROVE  /\ s # <<>> => Precedes(Tail(s), A, B)
         /\ s # <<>> /\ Head(s) \in B => In(s) \cap A = {}
         /\ \A F \in Seq(S) :
              Precedes(F, A, B) /\ (In(F) \cap A = {} \/ In(s) \cap B = {}) => Precedes(s \o F, A, B)
<1>0. DOMAIN s \subseteq Nat
  BY LenProperties
<1>1. ASSUME s # <<>> PROVE Precedes(Tail(s), A, B)
  BY <1>0, <1>1, Shortened DEF Precedes
<1>2. ASSUME s # <<>>, Head(s) \in B PROVE In(s) \cap A = {}
  <2>1. DOMAIN s = 1 .. Len(s) /\ Len(s) \in Nat
    BY LenProperties
  <2>2. s[1] \in B /\ 1 \in DOMAIN s
    BY <1>2, Shortened
  <2> QED
    BY <2>1, <2>2 DEF Precedes, In
<1>3. ASSUME NEW F \in Seq(S), Precedes(F, A, B), In(F) \cap A = {} \/ In(s) \cap B = {}
      PROVE  Precedes(s \o F, A, B)
  <2> SUFFICES ASSUME NEW i \in DOMAIN (s \o F), NEW j \in DOMAIN (s \o F),
                      (s \o F)[i] \in A, (s \o F)[j] \in B
               PROVE  i < j
    BY DEF Precedes
  <2>0. DOMAIN F \subseteq Nat /\ Len(s) \in Nat
    BY LenProperties
  <2>1. CASE i \in DOMAIN s /\ (s \o F)[i] = s[i]
    <3>1. CASE j \in DOMAIN s /\ (s \o F)[j] = s[j]
      BY <2>1, <3>1 DEF Precedes
    <3>2. CASE j > Len(s)
      BY <2>0, <2>1, <3>2, Joined, <1>0, LenProperties
    <3> QED
      BY <3>1, <3>2, Joined
  <2>2. CASE i > Len(s) /\ i - Len(s) \in DOMAIN F /\ (s \o F)[i] = F[i - Len(s)]
    <3>1. (s \o F)[i] \in In(F)
      BY <2>2 DEF In
    <3>2. In(s) \cap B = {}
      BY <1>3, <3>1
    <3>3. j > Len(s) /\ j - Len(s) \in DOMAIN F /\ (s \o F)[j] = F[j - Len(s)]
      BY <3>2, Joined DEF In
    <3>4. i - Len(s) < j - Len(s)
      BY <2>2, <3>3, <1>3 DEF Precedes
    <3> QED
      BY <3>4, <2>0, <2>2, <3>3, Joined, LenProperties
  <2> QED
    BY <2>1, <2>2, Joined
<1> QED
  BY <1>1, <1>2, <1>3

LEMMA OnceAfter ==
  ASSUME NEW S, NEW s \in Seq(S), NEW A, Once(s, A)
  PROVE  /\ s # <<>> => Once(Tail(s), A)
         /\ s # <<>> /\ Head(s) \in A => In(Tail(s)) \cap A = {}
         /\ \A F \in Seq(S) :
              Once(F, A) /\ (In(F) \cap A = {} \/ In(s) \cap A = {}) => Once(s \o F, A)
<1>0. DOMAIN s \subseteq Nat /\ Len(s) \in Nat
  BY LenProperties
<1>1. ASSUME s # <<>> PROVE Once(Tail(s), A)
  <2> SUFFICES ASSUME NEW i \in DOMAIN Tail(s), NEW j \in DOMAIN Tail(s),
                      Tail(s)[i] \in A, Tail(s)[j] \in A
               PROVE  i = j
    BY DEF Once
  <2>1. /\ i \in Nat /\ i + 1 \in DOMAIN s /\ s[i + 1] \in A
        /\ j \in Nat /\ j + 1 \in DOMAIN s /\ s[j + 1] \in A
    BY <1>1, Shortened
  <2>2. i + 1 = j + 1
    BY <2>1 DEF Once
  <2> QED
    BY <2>1, <2>2
<1>2. ASSUME s # <<>>, Head(s) \in A PROVE In(Tail(s)) \cap A = {}
  <2> SUFFICES ASSUME NEW i \in DOMAIN Tail(s), Tail(s)[i] \in A PROVE FALSE
    BY DEF In
  <2>1. i \in Nat /\ i + 1 \in DOMAIN s /\ s[i + 1] \in A /\ s[1] \in A /\ 1 \in DOMAIN s
    BY <1>2, Shortened
  <2>2. i + 1 = 1
    BY <2>1 DEF Once
  <2>3. i \in 1 .. Len(Tail(s))
    BY <1>2, Shortened, LenProperties
  <2> QED
    BY <2>1, <2>2, <2>3
<1>3. ASSUME NEW F \in Seq(S), Once(F, A), In(F) \cap A = {} \/ In(s) \cap A = {}
      PROVE  Once(s \o F, A)
  <2> SUFFICES ASSUME NEW i \in DOMAIN (s \o F), NEW j \in DOMAIN (s \o F),
                      (s \o F)[i] \in A, (s \o F)[j] \in A
               PROVE  i = j
    BY DEF Once
  <2>0. DOMAIN F \subseteq Nat /\ DOMAIN (s \o F) \subseteq Nat
    BY LenProperties, Joined
  <2>1. CASE In(F) \cap A = {}
    <3>1. i \in DOMAIN s /\ s[i] \in A /\ j \in DOMAIN s /\ s[j] \in A
      BY <2>1, Joined DEF In
    <3> QED
      BY <3>1 DEF Once
  <2>2. CASE In(s) \cap A = {}
    <3>1. /\ i - Len(s) \in DOMAIN F /\ F[i - Len(s)] \in A
          /\ j - Len(s) \in DOMAIN F /\ F[j - Len(s)] \in A
      BY <2>2, Joined DEF In
    <3>2. i - Len(s) = j - Len(s)
      BY <3>1, <1>3 DEF Once
    <3> QED
      BY <1>0, <2>0, <3>2
  <2> QED
    BY <2>1, <2>2, <1>3
<1> QED
  BY <1>1, <1>2, <1>3

(* Numbered data: read at the front, and continued at the end.                   *)
LEMMA Numbers == \A c : \A f \in DataOn(c) : f.data[2] \in Nat
<1> SUFFICES ASSUME NEW f \in DownFrame \cup UpFrame, f.type = "data" PROVE f.data[2] \in Nat
  BY DEF DataOn
<1>1. f.data \in Item
  BY DEF DownFrame, UpFrame
<1> QED
  BY <1>1 DEF Item

LEMMA ChainRead ==
  ASSUME NEW S, NEW s \in Seq(S), s # <<>>, NEW c, NEW low \in Nat, NEW high \in Nat,
         low <= high, Chain(s, c, low, high)
  PROVE  /\ Head(s) \notin DataOn(c) =>
              /\ Chain(Tail(s), c, low, high)
              /\ Complete(s, c, low, high) => Complete(Tail(s), c, low, high)
         /\ Head(s) \in DataOn(c) =>
              /\ Head(s).data[2] = low + 1 /\ low + 1 <= high
              /\ Chain(Tail(s), c, low + 1, high)
              /\ Complete(s, c, low, high) => Complete(Tail(s), c, low + 1, high)
<1>0. DOMAIN s \subseteq Nat \ {0} /\ DOMAIN Tail(s) \subseteq Nat \ {0}
  BY Shortened, LenProperties
<1>1. ASSUME Head(s) \notin DataOn(c) PROVE Chain(Tail(s), c, low, high)
  <2> SUFFICES ASSUME NEW i \in DOMAIN Tail(s), Tail(s)[i] \in DataOn(c)
               PROVE  /\ Tail(s)[i].data[2] \in (low + 1)..high
                      /\ \A j \in DOMAIN Tail(s) : j < i /\ Tail(s)[j] \in DataOn(c) =>
                           Tail(s)[j].data[2] < Tail(s)[i].data[2]
                      /\ \/ Tail(s)[i].data[2] = low + 1
                         \/ \E j \in DOMAIN Tail(s) :
                              /\ j < i /\ Tail(s)[j] \in DataOn(c)
                              /\ Tail(s)[j].data[2] + 1 = Tail(s)[i].data[2]
    BY DEF Chain
  <2>1. i \in Nat /\ i + 1 \in DOMAIN s /\ Tail(s)[i] = s[i + 1]
    BY Shortened
  <2>2. /\ s[i + 1].data[2] \in (low + 1)..high
        /\ \A j \in DOMAIN s : j < i + 1 /\ s[j] \in DataOn(c) => s[j].data[2] < s[i + 1].data[2]
        /\ \/ s[i + 1].data[2] = low + 1
           \/ \E j \in DOMAIN s : /\ j < i + 1 /\ s[j] \in DataOn(c)
                                 /\ s[j].data[2] + 1 = s[i + 1].data[2]
    BY <2>1 DEF Chain
  <2>3. ASSUME NEW j \in DOMAIN Tail(s), j < i, Tail(s)[j] \in DataOn(c)
        PROVE  Tail(s)[j].data[2] < Tail(s)[i].data[2]
    BY <2>1, <2>2, <2>3, Shortened
  <2>4. ASSUME NEW j \in DOMAIN s, j < i + 1, s[j] \in DataOn(c),
               s[j].data[2] + 1 = s[i + 1].data[2]
        PROVE  /\ j - 1 \in DOMAIN Tail(s) /\ j - 1 < i /\ Tail(s)[j - 1] \in DataOn(c)
               /\ Tail(s)[j - 1].data[2] + 1 = Tail(s)[i].data[2]
    <3>1. j # 1
      BY <1>1, <2>4, Shortened
    <3> QED
      BY <1>0, <2>1, <2>4, <3>1, Shortened
  <2> QED
    BY <2>1, <2>2, <2>3, <2>4
<1>2. ASSUME Head(s) \notin DataOn(c), Complete(s, c, low, high)
      PROVE  Complete(Tail(s), c, low, high)
  <2>1. ASSUME NEW i \in DOMAIN s, s[i] \in DataOn(c)
        PROVE  i - 1 \in DOMAIN Tail(s) /\ Tail(s)[i - 1] = s[i]
    BY <1>2, <2>1, Shortened
  <2> QED
    BY <1>2, <2>1 DEF Complete
<1>3. ASSUME Head(s) \in DataOn(c)
      PROVE  Head(s).data[2] = low + 1 /\ low + 1 <= high
  <2>1. 1 \in DOMAIN s /\ Head(s) = s[1]
    BY Shortened
  <2>2. ~ \E j \in DOMAIN s : j < 1
    BY <1>0
  <2> QED
    BY <1>3, <2>1, <2>2 DEF Chain
<1>4. ASSUME Head(s) \in DataOn(c) PROVE Chain(Tail(s), c, low + 1, high)
  <2> SUFFICES ASSUME NEW i \in DOMAIN Tail(s), Tail(s)[i] \in DataOn(c)
               PROVE  /\ Tail(s)[i].data[2] \in (low + 1 + 1)..high
                      /\ \A j \in DOMAIN Tail(s) : j < i /\ Tail(s)[j] \in DataOn(c) =>
                           Tail(s)[j].data[2] < Tail(s)[i].data[2]
                      /\ \/ Tail(s)[i].data[2] = low + 1 + 1
                         \/ \E j \in DOMAIN Tail(s) :
                              /\ j < i /\ Tail(s)[j] \in DataOn(c)
                              /\ Tail(s)[j].data[2] + 1 = Tail(s)[i].data[2]
    BY DEF Chain
  <2>1. i \in Nat \ {0} /\ i + 1 \in DOMAIN s /\ Tail(s)[i] = s[i + 1]
    BY <1>0, Shortened
  <2>2. /\ s[i + 1].data[2] \in (low + 1)..high
        /\ \A j \in DOMAIN s : j < i + 1 /\ s[j] \in DataOn(c) => s[j].data[2] < s[i + 1].data[2]
        /\ \/ s[i + 1].data[2] = low + 1
           \/ \E j \in DOMAIN s : /\ j < i + 1 /\ s[j] \in DataOn(c)
                                 /\ s[j].data[2] + 1 = s[i + 1].data[2]
    BY <2>1 DEF Chain
  <2>3. ASSUME NEW j \in DOMAIN Tail(s), j < i, Tail(s)[j] \in DataOn(c)
        PROVE  Tail(s)[j].data[2] < Tail(s)[i].data[2]
    BY <2>1, <2>2, <2>3, Shortened
  <2>4. s[1].data[2] = low + 1 /\ s[1].data[2] < s[i + 1].data[2]
    BY <1>3, <1>4, <2>1, <2>2, Shortened
  <2>5. ASSUME NEW j \in DOMAIN s, j < i + 1, s[j] \in DataOn(c),
               s[j].data[2] + 1 = s[i + 1].data[2], j # 1
        PROVE  /\ j - 1 \in DOMAIN Tail(s) /\ j - 1 < i /\ Tail(s)[j - 1] \in DataOn(c)
               /\ Tail(s)[j - 1].data[2] + 1 = Tail(s)[i].data[2]
    BY <1>0, <2>1, <2>5, Shortened
  <2>6. s[i + 1].data[2] \in (low + 1 + 1)..high
    BY <2>2, <2>4
  <2>7. \/ Tail(s)[i].data[2] = low + 1 + 1
        \/ \E j \in DOMAIN Tail(s) :
             /\ j < i /\ Tail(s)[j] \in DataOn(c)
             /\ Tail(s)[j].data[2] + 1 = Tail(s)[i].data[2]
    <3>1. PICK j \in DOMAIN s : /\ j < i + 1 /\ s[j] \in DataOn(c)
                               /\ s[j].data[2] + 1 = s[i + 1].data[2]
      BY <2>2, <2>4
    <3>2. CASE j = 1
      BY <2>1, <2>4, <3>1, <3>2
    <3>3. CASE j # 1
      BY <2>5, <3>1, <3>3
    <3> QED
      BY <3>2, <3>3
  <2> QED
    BY <2>1, <2>3, <2>6, <2>7
<1>5. ASSUME Head(s) \in DataOn(c), Complete(s, c, low, high)
      PROVE  Complete(Tail(s), c, low + 1, high)
  <2>1. low # high
    BY <1>3, <1>5
  <2>2. PICK i \in DOMAIN s : s[i] \in DataOn(c) /\ s[i].data[2] = high
    BY <1>5, <2>1 DEF Complete
  <2>3. CASE i = 1
    BY <1>3, <1>5, <2>2, <2>3, Shortened DEF Complete
  <2>4. CASE i # 1
    BY <2>2, <2>4, Shortened DEF Complete
  <2> QED
    BY <2>3, <2>4
<1> QED
  BY <1>1, <1>2, <1>3, <1>4, <1>5

(* Frames that are not data on c change nothing; the next one extends the chain.  *)
LEMMA ChainKept ==
  ASSUME NEW S, NEW s \in Seq(S), NEW F \in Seq(S), NEW c, In(F) \cap DataOn(c) = {},
         NEW low \in Nat, NEW high \in Nat
  PROVE  /\ Chain(s, c, low, high) => Chain(s \o F, c, low, high)
         /\ Complete(s, c, low, high) => Complete(s \o F, c, low, high)
<1>0. ASSUME NEW i \in DOMAIN (s \o F), (s \o F)[i] \in DataOn(c)
      PROVE  i \in DOMAIN s /\ (s \o F)[i] = s[i]
  <2>1. ASSUME i - Len(s) \in DOMAIN F, (s \o F)[i] = F[i - Len(s)] PROVE FALSE
    BY <1>0, <2>1 DEF In
  <2> QED
    BY <2>1, Joined
<1>1. \A i \in DOMAIN s : i \in DOMAIN (s \o F) /\ (s \o F)[i] = s[i]
  BY Joined
<1> QED
  BY <1>0, <1>1 DEF Chain, Complete

LEMMA ChainGrows ==
  ASSUME NEW S, NEW s \in Seq(S), NEW f \in S, NEW c, f \in DataOn(c),
         NEW low \in Nat, NEW high \in Nat, low <= high, f.data[2] = high + 1,
         Chain(s, c, low, high)
  PROVE  /\ Complete(s, c, low, high) => Chain(s \o <<f>>, c, low, high + 1)
         /\ Complete(s \o <<f>>, c, low, high + 1)
<1> DEFINE t == s \o <<f>>
<1>0. DOMAIN s = 1 .. Len(s) /\ Len(s) \in Nat
  BY LenProperties
<1>1. /\ \A i \in DOMAIN t : (i \in DOMAIN s /\ t[i] = s[i]) \/ (i = Len(s) + 1 /\ t[i] = f)
      /\ \A i \in DOMAIN s : i \in DOMAIN t /\ i <= Len(s) /\ t[i] = s[i]
      /\ Len(s) + 1 \in DOMAIN t /\ t[Len(s) + 1] = f
  BY LastOf
<1> HIDE DEF t
<1>2. Complete(t, c, low, high + 1)
  BY <1>1 DEF Complete
<1>3. ASSUME Complete(s, c, low, high) PROVE Chain(t, c, low, high + 1)
  <2> SUFFICES ASSUME NEW i \in DOMAIN t, t[i] \in DataOn(c)
               PROVE  /\ t[i].data[2] \in (low + 1)..(high + 1)
                      /\ \A j \in DOMAIN t :
                           j < i /\ t[j] \in DataOn(c) => t[j].data[2] < t[i].data[2]
                      /\ \/ t[i].data[2] = low + 1
                         \/ \E j \in DOMAIN t :
                              j < i /\ t[j] \in DataOn(c) /\ t[j].data[2] + 1 = t[i].data[2]
    BY DEF Chain
  <2>1. CASE i \in DOMAIN s /\ t[i] = s[i]
    <3>1. /\ s[i].data[2] \in (low + 1)..high
          /\ \A j \in DOMAIN s : j < i /\ s[j] \in DataOn(c) => s[j].data[2] < s[i].data[2]
          /\ \/ s[i].data[2] = low + 1
             \/ \E j \in DOMAIN s :
                  j < i /\ s[j] \in DataOn(c) /\ s[j].data[2] + 1 = s[i].data[2]
      BY <2>1 DEF Chain
    <3>2. \A j \in DOMAIN t : j < i => j \in DOMAIN s /\ t[j] = s[j]
      BY <1>0, <1>1, <2>1
    <3> QED
      BY <1>1, <2>1, <3>1, <3>2
  <2>2. CASE i = Len(s) + 1 /\ t[i] = f
    <3>1. \A j \in DOMAIN t : j < i => j \in DOMAIN s /\ t[j] = s[j]
      BY <1>0, <1>1, <2>2
    <3>2. \A j \in DOMAIN s : s[j] \in DataOn(c) => s[j].data[2] \in (low + 1)..high
      BY DEF Chain
    <3>3. \/ high = low
          \/ \E j \in DOMAIN s : s[j] \in DataOn(c) /\ s[j].data[2] = high
      BY <1>3 DEF Complete
    <3>4. \/ t[i].data[2] = low + 1
          \/ \E j \in DOMAIN t :
               j < i /\ t[j] \in DataOn(c) /\ t[j].data[2] + 1 = t[i].data[2]
      <4>1. CASE high = low
        BY <2>2, <4>1
      <4>2. ASSUME NEW j \in DOMAIN s, s[j] \in DataOn(c), s[j].data[2] = high
            PROVE  \E l \in DOMAIN t :
                     l < i /\ t[l] \in DataOn(c) /\ t[l].data[2] + 1 = t[i].data[2]
        <5>1. j \in DOMAIN t /\ t[j] = s[j] /\ j < i
          BY <1>0, <1>1, <2>2, <4>2
        <5> QED
          BY <2>2, <4>2, <5>1
      <4> QED
        BY <3>3, <4>1, <4>2
    <3> QED
      BY <2>2, <3>1, <3>2, <3>4
  <2> QED
    BY <1>1, <2>1, <2>2
<1> QED
  BY <1>2, <1>3 DEF t

LEMMA NoData ==
  ASSUME NEW s, NEW c, In(s) \cap DataOn(c) = {}, NEW low, NEW high
  PROVE  /\ Chain(s, c, low, high) /\ (Complete(s, c, low, high) => low = high)
         /\ \A A : Precedes(s, A, DataOn(c)) /\ Precedes(s, DataOn(c), A)
         /\ Increases(s, c) /\ \A t : Above(s, c, t)
BY DEF In, Chain, Complete, Precedes, Increases, Above

LEMMA IncreasesAfter ==
  ASSUME NEW S, NEW s \in Seq(S), NEW c, Increases(s, c)
  PROVE  /\ s # <<>> => Increases(Tail(s), c)
         /\ s # <<>> /\ Head(s) \in DataOn(c) => Above(Tail(s), c, <<Head(s).data>>)
         /\ \A F \in Seq(S) : In(F) \cap DataOn(c) = {} => Increases(s \o F, c)
         /\ \A f \in S :
              (\A g \in In(s) \cap DataOn(c) : g.data[2] < f.data[2]) => Increases(s \o <<f>>, c)
<1>0. DOMAIN s = 1 .. Len(s) /\ Len(s) \in Nat
  BY LenProperties
<1>1. ASSUME s # <<>> PROVE Increases(Tail(s), c)
  BY <1>1, Shortened DEF Increases
<1>2. ASSUME s # <<>>, Head(s) \in DataOn(c) PROVE Above(Tail(s), c, <<Head(s).data>>)
  <2>1. ASSUME NEW i \in DOMAIN Tail(s), Tail(s)[i] \in DataOn(c)
        PROVE  Head(s).data[2] < Tail(s)[i].data[2]
    <3>1. i \in Nat /\ i + 1 \in DOMAIN s /\ Tail(s)[i] = s[i + 1] /\ 1 \in DOMAIN s /\ s[1] = Head(s)
      BY <1>2, Shortened
    <3>2. i # 0
      BY <1>2, Shortened, LenProperties
    <3> QED
      BY <1>2, <2>1, <3>1, <3>2 DEF Increases
  <2> QED
    BY <2>1 DEF Above
<1>3. ASSUME NEW F \in Seq(S), In(F) \cap DataOn(c) = {} PROVE Increases(s \o F, c)
  <2>1. ASSUME NEW i \in DOMAIN (s \o F), (s \o F)[i] \in DataOn(c)
        PROVE  i \in DOMAIN s /\ (s \o F)[i] = s[i]
    <3>1. ASSUME i - Len(s) \in DOMAIN F, (s \o F)[i] = F[i - Len(s)] PROVE FALSE
      BY <1>3, <2>1, <3>1 DEF In
    <3> QED
      BY <3>1, Joined
  <2> QED
    BY <2>1 DEF Increases
<1>4. ASSUME NEW f \in S, \A g \in In(s) \cap DataOn(c) : g.data[2] < f.data[2]
      PROVE  Increases(s \o <<f>>, c)
  <2> DEFINE t == s \o <<f>>
  <2>1. /\ \A i \in DOMAIN t : (i \in DOMAIN s /\ t[i] = s[i]) \/ (i = Len(s) + 1 /\ t[i] = f)
        /\ \A i \in DOMAIN s : t[i] = s[i]
    BY LastOf
  <2> HIDE DEF t
  <2>2. ASSUME NEW i \in DOMAIN t, NEW j \in DOMAIN t, i < j, t[i] \in DataOn(c), t[j] \in DataOn(c)
        PROVE  t[i].data[2] < t[j].data[2]
    <3>1. i \in DOMAIN s /\ t[i] = s[i]
      BY <1>0, <2>1, <2>2
    <3>2. CASE j \in DOMAIN s /\ t[j] = s[j]
      BY <2>2, <3>1, <3>2 DEF Increases
    <3>3. CASE t[j] = f
      <4>1. s[i] \in In(s) \cap DataOn(c)
        BY <2>2, <3>1 DEF In
      <4> QED
        BY <1>4, <3>1, <3>3, <4>1
    <3> QED
      BY <2>1, <3>2, <3>3
  <2> QED
    BY <2>2 DEF Increases, t
<1> QED
  BY <1>1, <1>2, <1>3, <1>4

LEMMA AboveAfter ==
  ASSUME NEW S, NEW s \in Seq(S), NEW c, NEW T, NEW t \in Seq(T), Above(s, c, t)
  PROVE  /\ s # <<>> => Above(Tail(s), c, t)
         /\ \A u \in Seq(T) : Above(s, c, u) => Above(s, c, t \o u)
         /\ \A F \in Seq(S) :
              (\A f \in In(F) \cap DataOn(c) : \A j \in DOMAIN t : t[j][2] < f.data[2]) =>
                Above(s \o F, c, t)
<1>1. ASSUME s # <<>> PROVE Above(Tail(s), c, t)
  BY <1>1, Shortened DEF Above
<1>2. ASSUME NEW u \in Seq(T), Above(s, c, u) PROVE Above(s, c, t \o u)
  <2> SUFFICES ASSUME NEW i \in DOMAIN s, s[i] \in DataOn(c), NEW j \in DOMAIN (t \o u)
               PROVE  (t \o u)[j][2] < s[i].data[2]
    BY DEF Above
  <2>1. \/ j \in DOMAIN t /\ (t \o u)[j] = t[j]
        \/ j - Len(t) \in DOMAIN u /\ (t \o u)[j] = u[j - Len(t)]
    BY Joined
  <2> QED
    BY <1>2, <2>1 DEF Above
<1>3. ASSUME NEW F \in Seq(S),
             \A f \in In(F) \cap DataOn(c) : \A j \in DOMAIN t : t[j][2] < f.data[2]
      PROVE  Above(s \o F, c, t)
  <2> SUFFICES ASSUME NEW i \in DOMAIN (s \o F), (s \o F)[i] \in DataOn(c), NEW j \in DOMAIN t
               PROVE  t[j][2] < (s \o F)[i].data[2]
    BY DEF Above
  <2>1. \/ i \in DOMAIN s /\ (s \o F)[i] = s[i]
        \/ i - Len(s) \in DOMAIN F /\ (s \o F)[i] = F[i - Len(s)]
    BY Joined
  <2> QED
    BY <1>3, <2>1 DEF Above, In
<1> QED
  BY <1>1, <1>2, <1>3
-------------------------------------------------------------------------------
(* Types.                                                                   *)

LEMMA Sets ==
  /\ Cardinality(Whose) \in Nat /\ Channel = 1 .. Cardinality(Whose) /\ IsFiniteSet(Whose)
  /\ 0 \notin Channel /\ 0 \notin Link
  /\ MaxLinks \in Nat /\ MaxBoots \in Nat /\ Chunks \in Nat /\ HtmlBufferCap \in Nat
  /\ Messages \in Nat /\ Replies \in Nat
  /\ Request \subseteq Whose /\ Browser \subseteq Whose
  /\ \A w \in Whose : w # Nobody /\ (w \in Browser <=> w \notin Request)
  /\ \A k : k \in 0 .. MaxLinks <=> k = 0 \/ k \in Link
<1>1. /\ Cardinality(Request) \in Nat /\ Cardinality(Browser) \in Nat /\ IsFiniteSet(Whose)
      /\ Cardinality(Whose) = Cardinality(Request) + Cardinality(Browser) - Cardinality({})
  <2>1. IsFiniteSet(Request) /\ IsFiniteSet(Browser) /\ Request \cap Browser = {}
    BY PartiesFinite, PartiesDiffer
  <2>2. /\ IsFiniteSet(Request \cup Browser)
        /\ Cardinality(Request \cup Browser) =
             Cardinality(Request) + Cardinality(Browser) - Cardinality(Request \cap Browser)
    BY <2>1, FS_Union
  <2>3. Cardinality(Request) \in Nat /\ Cardinality(Browser) \in Nat
    BY <2>1, FS_CardinalityType
  <2> QED
    BY <2>1, <2>2, <2>3 DEF Whose
<1>2. Cardinality({}) = 0
  BY FS_EmptySet
<1> QED
  BY <1>1, <1>2, BoundsGiven, PartiesDiffer DEF Channel, Whose, Link

LEMMA Frames ==
  ASSUME NEW c \in Channel
  PROVE  /\ \A q \in Request : Frame("request", c, <<q>>) \in DownFrame
         /\ \A b \in Browser : Frame("open", c, <<b>>) \in DownFrame
         /\ \A x \in Item : Frame("data", c, x) \in DownFrame /\ Frame("data", c, x) \in UpFrame
         /\ Frame("close", c, <<>>) \in DownFrame /\ Frame("close", c, <<>>) \in UpFrame
         /\ Frame("response", c, <<"own">>) \in UpFrame /\ Frame("response", c, <<"bad">>) \in UpFrame
         /\ Frame("end", c, <<>>) \in UpFrame
BY DEF Frame, DownFrame, UpFrame

LEMMA DownFrames ==
  ASSUME NEW f \in DownFrame
  PROVE  /\ f.channel \in Channel /\ f.type \in {"request", "open", "data", "close"}
         /\ f.type = "request" => f.data[1] \in Request /\ f.data = <<f.data[1]>>
         /\ f.type = "open" => f.data[1] \in Browser /\ f.data = <<f.data[1]>>
         /\ f.type = "data" => f.data \in Item
BY DEF DownFrame

LEMMA UpFrames ==
  ASSUME NEW f \in UpFrame
  PROVE  /\ f.channel \in Channel /\ f.type \in {"response", "data", "end", "close"}
         /\ f.type = "response" => f.data[1] \in {"own", "bad"} /\ f.data = <<f.data[1]>>
         /\ f.type = "data" => f.data \in Item
BY DEF UpFrame

LEMMA Items ==
  /\ \A w \in Whose, m \in Nat : <<w, m>> \in Item
  /\ \A x \in Item : x[2] \in Nat /\ <<Nobody, x[2]>> \in Item /\ x = <<x[1], x[2]>>
  /\ \A S : \A x \in S : <<x>> \in Seq(S)
  /\ \A S : <<>> \in Seq(S)
BY DEF Item

(* The records, and what is made of them.                                      *)
LEMMA NoneTyped ==
  /\ NoResponse \in ResponseRecord /\ NoBrowser \in BrowserRecord
  /\ NoUpstream \in UpstreamRecord /\ NoSocket \in SocketRecord
<1>1. <<>> \in Seq(Item) /\ 0 \in 0 .. MaxLinks /\ 0 \in 0 .. MaxBoots /\ 0 \in 0 .. Chunks
      /\ 0 \in 0 .. Messages /\ 0 \in 0 .. Replies
  BY Sets
<1>2. NoResponse \in ResponseRecord /\ NoBrowser \in BrowserRecord
  BY <1>1 DEF NoResponse, NoBrowser, ResponseRecord, BrowserRecord
<1>3. NoUpstream \in UpstreamRecord
  BY <1>1 DEF NoUpstream, UpstreamRecord
<1>4. NoSocket \in SocketRecord
  BY <1>1 DEF NoSocket, SocketRecord
<1> QED
  BY <1>2, <1>3, <1>4

Keeps(r, s) == s.channel = r.channel /\ s.out = r.out /\ s.buf = r.buf

LEMMA Responses ==
  ASSUME NEW r \in ResponseRecord
  PROVE  /\ Failed(r) \in ResponseRecord /\ Keeps(r, Failed(r)) /\ Failed(r).st = "failed"
         /\ Ended(r) \in ResponseRecord /\ Ended(r).st = "ended" /\ Ended(r).channel = r.channel
         /\ Ended(r).buf = <<>> /\ Ended(r).out = r.out \o r.buf
         /\ \A c \in Channel : LET s == [r EXCEPT !.st = "waiting", !.channel = c] IN
              s \in ResponseRecord /\ s.st = "waiting" /\ s.channel = c /\ s.out = r.out /\ s.buf = r.buf
         /\ LET s == [r EXCEPT !.channel = 0, !.st = IF @ = "waiting" THEN "lost" ELSE @] IN
              /\ s \in ResponseRecord /\ s.channel = 0 /\ s.out = r.out /\ s.buf = r.buf
              /\ s.st = IF r.st = "waiting" THEN "lost" ELSE r.st
<1>0. r.out \in Seq(Item) /\ r.buf \in Seq(Item) /\ <<>> \in Seq(Item)
      /\ r.st \in {"idle", "waiting", "ended", "failed", "lost"} /\ r.head \in {"none", "own", "bad"}
  BY DEF ResponseRecord
<1>1. Failed(r) \in ResponseRecord /\ Keeps(r, Failed(r)) /\ Failed(r).st = "failed"
  BY <1>0 DEF Failed, Keeps, ResponseRecord
<1>2. r.out \o r.buf \in Seq(Item)
  BY <1>0, ConcatProperties
<1>3. /\ Ended(r) \in ResponseRecord /\ Ended(r).st = "ended" /\ Ended(r).channel = r.channel
      /\ Ended(r).buf = <<>> /\ Ended(r).out = r.out \o r.buf
  <2> DEFINE o == r.out \o r.buf
  <2>1. o \in Seq(Item) /\ Ended(r) =
          [r EXCEPT !.st = "ended", !.head = IF @ = "none" THEN "own" ELSE @, !.buffering = FALSE,
                    !.buf = <<>>, !.out = o]
    BY <1>2 DEF Ended
  <2> HIDE DEF o
  <2>2. /\ Ended(r) \in ResponseRecord /\ Ended(r).st = "ended" /\ Ended(r).channel = r.channel
        /\ Ended(r).buf = <<>> /\ Ended(r).out = o
    BY <1>0, <2>1 DEF ResponseRecord
  <2> QED
    BY <2>2 DEF o
<1>4. ASSUME NEW c \in Channel
      PROVE  LET s == [r EXCEPT !.st = "waiting", !.channel = c] IN
             s \in ResponseRecord /\ s.st = "waiting" /\ s.channel = c /\ s.out = r.out /\ s.buf = r.buf
  BY <1>0, <1>4 DEF ResponseRecord
<1>5. LET s == [r EXCEPT !.channel = 0, !.st = IF @ = "waiting" THEN "lost" ELSE @] IN
        /\ s \in ResponseRecord /\ s.channel = 0 /\ s.out = r.out /\ s.buf = r.buf
        /\ s.st = IF r.st = "waiting" THEN "lost" ELSE r.st
  BY <1>0 DEF ResponseRecord
<1> QED
  BY <1>1, <1>3, <1>4, <1>5

LEMMA StreamedIs ==
  ASSUME NEW r \in ResponseRecord, NEW x \in Item
  PROVE  LET s == Streamed(r, x) IN
         /\ s \in ResponseRecord /\ s.st = r.st /\ s.channel = r.channel
         /\ s.buf = <<>> /\ s.out = r.out \o r.buf \o <<x>>
<1> DEFINE o == r.out \o r.buf \o <<x>>
<1>1. r.out \in Seq(Item) /\ r.buf \in Seq(Item) /\ <<>> \in Seq(Item)
  BY DEF ResponseRecord
<1>2. r.out \o r.buf \in Seq(Item)
  BY <1>1, ConcatProperties
<1>3. o \in Seq(Item)
  BY <1>2, LastOf
<1>4. Streamed(r, x) =
        [r EXCEPT !.head = IF @ = "none" THEN "own" ELSE @, !.buffering = FALSE,
                  !.buf = <<>>, !.out = o]
  BY DEF Streamed
<1> HIDE DEF o
<1>5. LET s == Streamed(r, x) IN
      /\ s \in ResponseRecord /\ s.st = r.st /\ s.channel = r.channel /\ s.buf = <<>> /\ s.out = o
  BY <1>1, <1>3, <1>4 DEF ResponseRecord
<1> QED
  BY <1>5 DEF o

(* A head changes no data; a chunk is added to what is held back, or sent after it. *)
LEMMA HeadIs ==
  ASSUME NEW q \in Request, response[q] \in ResponseRecord, NEW status \in {"own", "bad"}
  PROVE  LET s == Headed(q, status) IN
         /\ s \in ResponseRecord /\ s.st = response[q].st /\ s.channel = response[q].channel
         /\ s.out = response[q].out /\ s.buf \in {response[q].buf, <<>>}
         /\ status = "bad" => s.buf = response[q].buf
<1> DEFINE r == response[q]
<1>1. r \in ResponseRecord
  OBVIOUS
<1>2. Headed(q, status) =
        IF HeldBack(q, status) THEN [r EXCEPT !.buffering = TRUE, !.buf = <<>>]
        ELSE [r EXCEPT !.head = status]
  BY DEF Headed
<1>3. status = "bad" => ~HeldBack(q, status)
  BY DEF HeldBack
<1> HIDE DEF r
<1>4. LET s == [r EXCEPT !.buffering = TRUE, !.buf = <<>>] IN
      /\ s \in ResponseRecord /\ s.st = r.st /\ s.channel = r.channel
      /\ s.out = r.out /\ s.buf = <<>>
  <2>1. <<>> \in Seq(Item)
    BY Items
  <2> QED
    BY <1>1, <2>1 DEF ResponseRecord
<1>5. LET s == [r EXCEPT !.head = status] IN
      /\ s \in ResponseRecord /\ s.st = r.st /\ s.channel = r.channel
      /\ s.out = r.out /\ s.buf = r.buf
  BY <1>1 DEF ResponseRecord
<1>6. CASE HeldBack(q, status)
  BY <1>2, <1>3, <1>4, <1>6 DEF r
<1>7. CASE ~HeldBack(q, status)
  BY <1>2, <1>5, <1>7 DEF r
<1> QED
  BY <1>6, <1>7

LEMMA ExtendedIs ==
  ASSUME NEW q \in Request, response[q] \in ResponseRecord, NEW x \in Item,
         Len(response[q].buf) <= HtmlBufferCap
  PROVE  LET s == Extended(q, x) r == response[q] IN
         /\ s \in ResponseRecord /\ s.st = r.st /\ s.channel = r.channel
         /\ \/ s.buf = <<>> /\ s.out = r.out \o r.buf \o <<x>>
            \/ s.out = r.out /\ s.buf = r.buf \o <<Decoded(q, x)>>
         /\ Len(s.buf) <= HtmlBufferCap
<1> DEFINE r == response[q] d == Decoded(q, x)
<1>1. r \in ResponseRecord /\ d \in Item
  BY Items DEF Decoded
<1>2. r.buf \in Seq(Item)
  BY <1>1 DEF ResponseRecord
<1>3. Append(r.buf, d) = r.buf \o <<d>> /\ Append(r.buf, d) \in Seq(Item)
      /\ Len(Append(r.buf, d)) = Len(r.buf) + 1
  <2> HIDE DEF r, d
  <2>1. Append(r.buf, d) = r.buf \o <<d>>
    BY <1>1, <1>2, AppendIsConcat
  <2> QED
    BY <1>1, <1>2, <2>1, AppendProperties
<1>4. Extended(q, x) =
        IF r.buffering /\ ~TooLarge(r) THEN [r EXCEPT !.buf = Append(@, d)] ELSE Streamed(r, x)
  BY DEF Extended
<1>5. Len(<<>>) <= HtmlBufferCap /\ Len(r.buf) \in Nat
  BY Sets, <1>2, LenProperties
<1> HIDE DEF r, d
<1>6. CASE r.buffering /\ ~TooLarge(r)
  <2>1. LET s == [r EXCEPT !.buf = Append(@, d)] IN
        /\ s \in ResponseRecord /\ s.st = r.st /\ s.channel = r.channel
        /\ s.out = r.out /\ s.buf = Append(r.buf, d)
    BY <1>1, <1>3 DEF ResponseRecord
  <2>2. Len(r.buf) + 1 <= HtmlBufferCap
    BY <1>5, <1>6, Sets DEF TooLarge
  <2> QED
    BY <1>3, <1>4, <1>6, <2>1, <2>2 DEF r, d
<1>7. CASE ~(r.buffering /\ ~TooLarge(r))
  <2>1. LET s == Streamed(r, x) IN
        /\ s \in ResponseRecord /\ s.st = r.st /\ s.channel = r.channel
        /\ s.buf = <<>> /\ s.out = r.out \o r.buf \o <<x>>
    BY <1>1, StreamedIs
  <2>2. Len(Streamed(r, x).buf) <= HtmlBufferCap
    BY <1>5, <2>1
  <2> QED
    BY <1>4, <1>7, <2>1, <2>2 DEF r
<1> QED
  BY <1>6, <1>7

LEMMA Browsers ==
  ASSUME NEW r \in BrowserRecord
  PROVE  /\ LET s == [r EXCEPT !.st = "closed"] IN
              s \in BrowserRecord /\ s.st = "closed" /\ s.channel = r.channel /\ s.n = r.n /\ s.got = r.got
         /\ LET s == [r EXCEPT !.channel = 0, !.st = IF @ = "open" THEN "closed" ELSE @] IN
              /\ s \in BrowserRecord /\ s.channel = 0 /\ s.n = r.n /\ s.got = r.got
              /\ s.st = IF r.st = "open" THEN "closed" ELSE r.st
         /\ \A c \in Channel : LET s == [r EXCEPT !.st = "open", !.channel = c] IN
              s \in BrowserRecord /\ s.st = "open" /\ s.channel = c /\ s.n = r.n /\ s.got = r.got
         /\ r.n < Messages => LET s == [r EXCEPT !.n = @ + 1] IN
              s \in BrowserRecord /\ s.st = r.st /\ s.channel = r.channel /\ s.n = r.n + 1 /\ s.got = r.got
<1>0. r.st \in {"idle", "open", "closed"} /\ r.n \in 0 .. Messages /\ Messages \in Nat
  BY Sets DEF BrowserRecord
<1>1. r.n < Messages => r.n + 1 \in 0 .. Messages
  BY <1>0
<1>2. LET s == [r EXCEPT !.st = "closed"] IN
      s \in BrowserRecord /\ s.st = "closed" /\ s.channel = r.channel /\ s.n = r.n /\ s.got = r.got
  BY DEF BrowserRecord
<1>3. LET s == [r EXCEPT !.channel = 0, !.st = IF @ = "open" THEN "closed" ELSE @] IN
      /\ s \in BrowserRecord /\ s.channel = 0 /\ s.n = r.n /\ s.got = r.got
      /\ s.st = IF r.st = "open" THEN "closed" ELSE r.st
  BY <1>0 DEF BrowserRecord
<1>4. ASSUME NEW c \in Channel
      PROVE  LET s == [r EXCEPT !.st = "open", !.channel = c] IN
             s \in BrowserRecord /\ s.st = "open" /\ s.channel = c /\ s.n = r.n /\ s.got = r.got
  BY <1>4 DEF BrowserRecord
<1>5. ASSUME r.n < Messages
      PROVE  LET s == [r EXCEPT !.n = @ + 1] IN
             s \in BrowserRecord /\ s.st = r.st /\ s.channel = r.channel /\ s.n = r.n + 1 /\ s.got = r.got
  BY <1>1, <1>5 DEF BrowserRecord
<1> QED
  BY <1>2, <1>3, <1>4, <1>5

LEMMA BrowserHears ==
  ASSUME NEW r \in BrowserRecord, NEW x \in Item
  PROVE  LET s == [r EXCEPT !.got = Append(@, x)] IN
         /\ s \in BrowserRecord /\ s.st = r.st /\ s.channel = r.channel /\ s.n = r.n
         /\ s.got = r.got \o <<x>>
<1>1. r.got \in Seq(Item)
  BY DEF BrowserRecord
<1>2. Append(r.got, x) \in Seq(Item) /\ Append(r.got, x) = r.got \o <<x>>
  BY <1>1, AppendProperties, AppendIsConcat
<1> DEFINE g == Append(r.got, x)
<1> HIDE DEF g
<1>3. LET s == [r EXCEPT !.got = g] IN
      s \in BrowserRecord /\ s.st = r.st /\ s.channel = r.channel /\ s.n = r.n /\ s.got = g
  BY <1>2 DEF BrowserRecord, g
<1> QED
  BY <1>2, <1>3 DEF g

SameAsk(r, s) == s.channel = r.channel /\ s.link = r.link /\ s.boot = r.boot

LEMMA Upstreams ==
  ASSUME NEW r \in UpstreamRecord
  PROVE  /\ LET s == [r EXCEPT !.retried = TRUE] IN
              /\ s \in UpstreamRecord /\ SameAsk(r, s) /\ s.st = r.st /\ s.n = r.n /\ s.body = r.body
         /\ \A x \in Item :
              LET s == [r EXCEPT !.st = "sent", !.body = x] IN
              s \in UpstreamRecord /\ SameAsk(r, s) /\ s.st = "sent" /\ s.n = r.n /\ s.body = x
<1>1. LET s == [r EXCEPT !.retried = TRUE] IN
      s \in UpstreamRecord /\ SameAsk(r, s) /\ s.st = r.st /\ s.n = r.n /\ s.body = r.body
  BY DEF UpstreamRecord, SameAsk
<1>2. ASSUME NEW x \in Item
      PROVE  LET s == [r EXCEPT !.st = "sent", !.body = x] IN
             s \in UpstreamRecord /\ SameAsk(r, s) /\ s.st = "sent" /\ s.n = r.n /\ s.body = x
  BY <1>2 DEF UpstreamRecord, SameAsk
<1> QED
  BY <1>1, <1>2

Asked(q, c) ==
  IF q \in WithBody THEN [Sent(q, c, <<>>) EXCEPT !.st = "awaiting"] ELSE Sent(q, c, <<>>)
LEMMA AskedIs ==
  ASSUME NEW q \in Request, NEW c \in Channel, agent \in 0 .. MaxLinks, boots \in 0 .. MaxBoots
  PROVE  LET s == Asked(q, c) IN
         /\ s \in UpstreamRecord /\ s.channel = c /\ s.link = agent /\ s.boot = boots /\ s.n = 0
         /\ s.body = <<>> /\ s.st = IF q \in WithBody THEN "awaiting" ELSE "sent"
<1>1. 0 \in 0 .. Chunks
  BY Sets
<1> QED
  BY <1>1 DEF Asked, Sent, UpstreamRecord

Opened(c) ==
  [st |-> "connecting", n |-> 0, channel |-> c, link |-> agent, boot |-> boots,
   queue |-> <<>>, got |-> <<>>]
LEMMA OpenedIs ==
  ASSUME NEW c \in Channel, agent \in 0 .. MaxLinks, boots \in 0 .. MaxBoots
  PROVE  LET s == Opened(c) IN
         /\ s \in SocketRecord /\ s.channel = c /\ s.link = agent /\ s.boot = boots /\ s.n = 0
         /\ s.st = "connecting" /\ s.got = <<>> /\ s.queue = <<>>
<1>1. 0 \in 0 .. Replies /\ <<>> \in Seq(Item)
  BY Sets, Items
<1> QED
  BY <1>1 DEF Opened, SocketRecord

LEMMA Sockets ==
  ASSUME NEW r \in SocketRecord
  PROVE  /\ r.got \in Seq(Item) /\ r.queue \in Seq(Item) /\ Taken(r) \in Seq(Item)
         /\ \A st \in {"closing", "closed"} : LET s == [r EXCEPT !.st = st] IN
              /\ s \in SocketRecord /\ SameAsk(r, s) /\ s.st = st /\ s.n = r.n
              /\ s.got = r.got /\ s.queue = r.queue
         /\ LET s == [r EXCEPT !.st = "open", !.got = r.queue, !.queue = <<>>] IN
              /\ s \in SocketRecord /\ SameAsk(r, s) /\ s.st = "open" /\ s.n = r.n
              /\ s.got = r.queue /\ s.queue = <<>>
         /\ r.n < Replies => LET s == [r EXCEPT !.n = @ + 1] IN
              /\ s \in SocketRecord /\ SameAsk(r, s) /\ s.st = r.st /\ s.n = r.n + 1
              /\ s.got = r.got /\ s.queue = r.queue
<1>0. r.n \in 0 .. Replies /\ Replies \in Nat /\ r.got \in Seq(Item) /\ r.queue \in Seq(Item)
      /\ <<>> \in Seq(Item)
  BY Sets DEF SocketRecord
<1>1. r.n < Replies => r.n + 1 \in 0 .. Replies
  BY <1>0
<1>2. Taken(r) \in Seq(Item)
  BY <1>0, ConcatProperties DEF Taken
<1>3. ASSUME NEW st \in {"closing", "closed"}
      PROVE  LET s == [r EXCEPT !.st = st] IN
             /\ s \in SocketRecord /\ SameAsk(r, s) /\ s.st = st /\ s.n = r.n
             /\ s.got = r.got /\ s.queue = r.queue
  BY <1>3 DEF SocketRecord, SameAsk
<1>4. LET s == [r EXCEPT !.st = "open", !.got = r.queue, !.queue = <<>>] IN
      /\ s \in SocketRecord /\ SameAsk(r, s) /\ s.st = "open" /\ s.n = r.n
      /\ s.got = r.queue /\ s.queue = <<>>
  BY <1>0 DEF SocketRecord, SameAsk
<1>5. ASSUME r.n < Replies
      PROVE  LET s == [r EXCEPT !.n = @ + 1] IN
             /\ s \in SocketRecord /\ SameAsk(r, s) /\ s.st = r.st /\ s.n = r.n + 1
             /\ s.got = r.got /\ s.queue = r.queue
  BY <1>1, <1>5 DEF SocketRecord, SameAsk
<1> QED
  BY <1>0, <1>2, <1>3, <1>4, <1>5

(* What an upstream socket is given comes after all it was given before.          *)
LEMMA DeliveredIs ==
  ASSUME NEW r \in SocketRecord, NEW x \in Item, r.st = "open" => r.queue = <<>>
  PROVE  LET s == Delivered(r, x) IN
         /\ s \in SocketRecord /\ SameAsk(r, s) /\ s.st = r.st /\ s.n = r.n
         /\ Taken(s) = Taken(r) \o <<x>>
         /\ r.st = "open" => s.queue = <<>>
         /\ r.st = "connecting" => s.got = r.got
<1> DEFINE g == Append(r.got, x) u == Append(r.queue, x)
<1>0. r.got \in Seq(Item) /\ r.queue \in Seq(Item) /\ <<x>> \in Seq(Item)
  BY Items DEF SocketRecord
<1>1. g \in Seq(Item) /\ g = r.got \o <<x>> /\ u \in Seq(Item) /\ u = r.queue \o <<x>>
  <2>1. \A z \in Seq(Item) : Append(z, x) \in Seq(Item) /\ Append(z, x) = z \o <<x>>
    BY AppendProperties, AppendIsConcat
  <2> QED
    BY <1>0, <2>1
<1>2. Delivered(r, x) = IF r.st = "open" THEN [r EXCEPT !.got = g] ELSE [r EXCEPT !.queue = u]
  BY DEF Delivered
<1>3. g \o <<>> = g /\ r.got \o <<>> = r.got /\ (r.got \o r.queue) \o <<x>> = r.got \o u
  <2>1. g \o <<>> = g
    BY <1>1, ConcatEmptySeq
  <2>2. r.got \o <<>> = r.got
    BY <1>0, ConcatEmptySeq
  <2>3. (r.got \o r.queue) \o <<x>> = r.got \o (r.queue \o <<x>>)
    <3>1. \A a, b, c \in Seq(Item) : (a \o b) \o c = a \o (b \o c)
      BY ConcatAssociative
    <3> QED
      BY <1>0, <3>1
  <2> QED
    BY <1>1, <2>1, <2>2, <2>3
<1> HIDE DEF g, u
<1>4. LET s == [r EXCEPT !.got = g] IN
      /\ s \in SocketRecord /\ SameAsk(r, s) /\ s.st = r.st /\ s.n = r.n
      /\ s.got = g /\ s.queue = r.queue
  BY <1>1 DEF SocketRecord, SameAsk
<1>5. LET s == [r EXCEPT !.queue = u] IN
      /\ s \in SocketRecord /\ SameAsk(r, s) /\ s.st = r.st /\ s.n = r.n
      /\ s.got = r.got /\ s.queue = u
  BY <1>1 DEF SocketRecord, SameAsk
<1>6. CASE r.st = "open"
  BY <1>1, <1>2, <1>3, <1>4, <1>6 DEF Taken
<1>7. CASE r.st # "open"
  BY <1>2, <1>3, <1>5, <1>7 DEF Taken
<1> QED
  BY <1>6, <1>7

LEMMA Put ==
  ASSUME NEW S, NEW T, NEW f \in [S -> T], NEW x \in S, NEW v \in T
  PROVE  /\ [f EXCEPT ![x] = v] \in [S -> T] /\ [f EXCEPT ![x] = v][x] = v
         /\ \A y \in S : y # x => [f EXCEPT ![x] = v][y] = f[y]
OBVIOUS
-------------------------------------------------------------------------------
(* What the steps do to the parties.                                          *)

CallerKeeps(w) == Chan(w)' = Chan(w) /\ (Idle(w)' => Idle(w)) /\ Heard(w)' = Heard(w)
DshKeeps(w) ==
  /\ Started(w)' = Started(w) /\ On(w)' = On(w) /\ Via(w)' = Via(w)
  /\ BootOf(w)' = BootOf(w) /\ Given(w)' = Given(w)

LEMMA PartyTypes ==
  ASSUME TypeOK, NEW w \in Whose
  PROVE  /\ Chan(w) \in Channel \cup {0} /\ On(w) \in Channel \cup {0} /\ Via(w) \in 0 .. MaxLinks
         /\ BootOf(w) \in Nat /\ Given(w) \in Nat /\ Heard(w) \in Nat
         /\ Started(w) \in BOOLEAN /\ Idle(w) \in BOOLEAN
<1>1. CASE w \in Request
  <2>1. response[w] \in ResponseRecord /\ upstream[w] \in UpstreamRecord
    BY <1>1 DEF TypeOK
  <2>2. /\ response[w].channel \in Channel \cup {0} /\ response[w].out \in Seq(Item)
        /\ response[w].buf \in Seq(Item)
    BY <2>1 DEF ResponseRecord
  <2>3. /\ upstream[w].channel \in Channel \cup {0} /\ upstream[w].link \in 0 .. MaxLinks
        /\ upstream[w].boot \in 0 .. MaxBoots /\ upstream[w].n \in 0 .. Chunks
    BY <2>1 DEF UpstreamRecord
  <2>4. Len(response[w].out) \in Nat /\ Len(response[w].buf) \in Nat
    BY <2>2, LenProperties
  <2>5. upstream[w].boot \in Nat /\ upstream[w].n \in Nat
    BY <2>3, Sets
  <2>6. Len(response[w].out) + Len(response[w].buf) \in Nat
    <3>1. \A m, n \in Nat : m + n \in Nat
      OBVIOUS
    <3> QED
      BY <2>4, <3>1
  <2> HIDE DEF TypeOK
  <2> QED
    BY <1>1, <2>2, <2>3, <2>5, <2>6 DEF Chan, On, Via, BootOf, Given, Heard, Started, Idle
<1>2. CASE w \in Browser
  <2>1. browser[w] \in BrowserRecord /\ socket[w] \in SocketRecord /\ w \notin Request
    BY <1>2, Sets DEF TypeOK
  <2>2. browser[w].channel \in Channel \cup {0} /\ browser[w].got \in Seq(Item)
    BY <2>1 DEF BrowserRecord
  <2>3. /\ socket[w].channel \in Channel \cup {0} /\ socket[w].link \in 0 .. MaxLinks
        /\ socket[w].boot \in 0 .. MaxBoots /\ socket[w].n \in 0 .. Replies
    BY <2>1 DEF SocketRecord
  <2>4. Len(browser[w].got) \in Nat
    BY <2>2, LenProperties
  <2>5. socket[w].boot \in Nat /\ socket[w].n \in Nat
    BY <2>3, Sets
  <2> HIDE DEF TypeOK
  <2> QED
    BY <2>1, <2>2, <2>3, <2>4, <2>5 DEF Chan, On, Via, BootOf, Given, Heard, Started, Idle
<1> QED
  BY <1>1, <1>2 DEF Whose

LEMMA SameParties ==
  /\ \A q \in Request : response'[q] = response[q] => CallerKeeps(q)
  /\ \A b \in Browser : browser'[b] = browser[b] => CallerKeeps(b)
  /\ \A q \in Request : upstream'[q] = upstream[q] => DshKeeps(q)
  /\ \A b \in Browser : socket'[b] = socket[b] => DshKeeps(b)
  /\ UNCHANGED callers => \A w \in Whose : CallerKeeps(w) /\ Idle(w)' = Idle(w)
  /\ UNCHANGED dsh => \A w \in Whose : DshKeeps(w)
<1>1. \A b \in Browser : b \notin Request
  BY PartiesDiffer
<1> QED
  BY <1>1 DEF CallerKeeps, DshKeeps, Chan, Idle, Heard, Started, On, Via, BootOf, Given, callers, dsh

LEMMA Parts ==
  ASSUME TypeOK
  PROVE  /\ \A q \in Request : response[q] \in ResponseRecord /\ upstream[q] \in UpstreamRecord
         /\ \A b \in Browser : browser[b] \in BrowserRecord /\ socket[b] \in SocketRecord
         /\ \A k \in Link : down[k] \in Seq(DownFrame) /\ toGateway[k] \in Seq(UpFrame)
         /\ \A c \in Channel : /\ streams[c] \in Request \cup {Nobody}
                               /\ wsChannels[c] \in Browser \cup {Nobody}
                               /\ pendingBodies[c] \in Request \cup {Nobody}
                               /\ wsUpstreams[c] \in Browser \cup {Nobody}
BY DEF TypeOK

(* Frames put on a link, if it is open.                                        *)
LEMMA Sending ==
  ASSUME TypeOK, NEW F \in Seq(DownFrame), NEW G \in Seq(UpFrame), NEW k \in Link
  PROVE  /\ Down(F) \in [Link -> Seq(DownFrame)]
         /\ \A j \in Link : Down(F)[j] =
              IF j = node /\ link[j] = "open" THEN down[j] \o F ELSE down[j]
         /\ Up(k, G) \in [Link -> Seq(UpFrame)]
         /\ \A j \in Link : Up(k, G)[j] =
              IF j = k /\ link[j] = "open" THEN toGateway[j] \o G ELSE toGateway[j]
<1>1. \A j \in Link : down[j] \o F \in Seq(DownFrame) /\ toGateway[j] \o G \in Seq(UpFrame)
  BY Parts, ConcatProperties
<1>2. /\ down \in [Link -> Seq(DownFrame)] /\ toGateway \in [Link -> Seq(UpFrame)]
      /\ node \in 0 .. MaxLinks
  BY DEF TypeOK
<1>3. node # 0 => node \in Link
  BY <1>2, Sets
<1>4. 0 \notin Link
  BY Sets
<1> QED
  BY <1>1, <1>2, <1>3, <1>4 DEF Down, Up

LEMMA ConnectDoes ==
  ASSUME TypeOK, NEW k \in Link, Connect(k)
  PROVE  /\ TypeOK' /\ link'[k] = "open" /\ \A j \in Link : j # k => link'[j] = link[j]
         /\ \A w \in Whose : CallerKeeps(w) /\ DshKeeps(w)
<1>1. link' \in [Link -> {"unused", "open", "lost", "closed"}]
      /\ link'[k] = "open" /\ \A j \in Link : j # k => link'[j] = link[j]
  BY DEF TypeOK, Connect
<1>2. agent' \in 0 .. MaxLinks /\ node' \in 0 .. MaxLinks
  BY Sets DEF Connect
<1>3. UNCHANGED <<up, boots, channelSeq, streams, wsChannels, callers, down, toGateway, tables, dsh>>
  BY DEF Connect
<1>4. TypeOK'
  BY <1>1, <1>2, <1>3 DEF TypeOK, callers, tables, dsh
<1> QED
  BY <1>1, <1>3, <1>4, SameParties

LEMMA LinkBreaksDoes ==
  ASSUME TypeOK, LinkBreaks
  PROVE  /\ TypeOK' /\ agent \in Link /\ link'[agent] = "lost" /\ down'[agent] = <<>>
         /\ \A j \in Link : j # agent => link'[j] = link[j] /\ down'[j] = down[j]
         /\ \A w \in Whose : CallerKeeps(w) /\ DshKeeps(w)
<1>0. agent \in Link
  BY Sets DEF TypeOK, LinkBreaks
<1>1. link' \in [Link -> {"unused", "open", "lost", "closed"}]
      /\ link'[agent] = "lost" /\ \A j \in Link : j # agent => link'[j] = link[j]
  BY <1>0 DEF TypeOK, LinkBreaks
<1>2. down' \in [Link -> Seq(DownFrame)]
      /\ down'[agent] = <<>> /\ \A j \in Link : j # agent => down'[j] = down[j]
  BY <1>0, Items DEF TypeOK, LinkBreaks
<1>3. UNCHANGED <<gateway, callers, toGateway, tables, dsh>> /\ agent' = 0
  BY DEF LinkBreaks
<1>4. agent' \in 0 .. MaxLinks
  BY <1>3, Sets
<1>5. TypeOK'
  BY <1>1, <1>2, <1>3, <1>4 DEF TypeOK, gateway, callers, tables, dsh
<1> QED
  BY <1>0, <1>1, <1>2, <1>3, <1>5, SameParties

LEMMA BootDoes ==
  ASSUME TypeOK, Boot
  PROVE  TypeOK' /\ boots \in Nat /\ boots' = boots + 1 /\ \A w \in Whose : CallerKeeps(w) /\ DshKeeps(w)
<1>1. boots \in Nat /\ boots + 1 \in 0 .. MaxBoots
  BY Sets DEF TypeOK, Boot
<1>2. /\ UNCHANGED <<channelSeq, streams, wsChannels, node, callers, frames, tables, dsh>>
      /\ up' = TRUE /\ boots' = boots + 1
  BY DEF Boot
<1>3. TypeOK'
  BY <1>1, <1>2 DEF TypeOK, callers, frames, tables, dsh
<1> QED
  BY <1>1, <1>2, <1>3, SameParties

LEMMA LinkClosedDoes ==
  ASSUME TypeOK, NEW k \in Link, LinkClosed(k)
  PROVE  /\ TypeOK' /\ link'[k] = "closed" /\ toGateway'[k] = <<>>
         /\ \A j \in Link : j # k => link'[j] = link[j] /\ toGateway'[j] = toGateway[j]
         /\ \A w \in Whose : DshKeeps(w)
         /\ \A q \in Request :
              /\ response'[q].channel = response[q].channel
              /\ response'[q].out = response[q].out /\ response'[q].buf = response[q].buf
              /\ response'[q].st = IF \E c \in Channel : streams[c] = q THEN "failed" ELSE response[q].st
         /\ \A b \in Browser :
              /\ browser'[b].channel = browser[b].channel /\ browser'[b].n = browser[b].n
              /\ browser'[b].got = browser[b].got
              /\ browser'[b].st = IF \E c \in Channel : wsChannels[c] = b THEN "closed" ELSE browser[b].st
<1>1. /\ link' \in [Link -> {"unused", "open", "lost", "closed"}]
      /\ link'[k] = "closed" /\ \A j \in Link : j # k => link'[j] = link[j]
  BY DEF TypeOK, LinkClosed
<1>2. /\ toGateway' \in [Link -> Seq(UpFrame)]
      /\ toGateway'[k] = <<>> /\ \A j \in Link : j # k => toGateway'[j] = toGateway[j]
  BY Items DEF TypeOK, LinkClosed
<1>3. /\ response' \in [Request -> ResponseRecord]
      /\ \A q \in Request :
           /\ response'[q].channel = response[q].channel
           /\ response'[q].out = response[q].out /\ response'[q].buf = response[q].buf
           /\ response'[q].st = IF \E c \in Channel : streams[c] = q THEN "failed" ELSE response[q].st
  <2>1. \A q \in Request :
          /\ response[q] \in ResponseRecord /\ Failed(response[q]) \in ResponseRecord
          /\ Keeps(response[q], Failed(response[q])) /\ Failed(response[q]).st = "failed"
    BY Parts, Responses
  <2>2. response' = [q \in Request |->
          IF \E c \in Channel : streams[c] = q THEN Failed(response[q]) ELSE response[q]]
    BY DEF LinkClosed
  <2> QED
    BY <2>1, <2>2 DEF Keeps
<1>4. /\ browser' \in [Browser -> BrowserRecord]
      /\ \A b \in Browser :
           /\ browser'[b].channel = browser[b].channel /\ browser'[b].n = browser[b].n
           /\ browser'[b].got = browser[b].got
           /\ browser'[b].st = IF \E c \in Channel : wsChannels[c] = b THEN "closed" ELSE browser[b].st
  <2>1. \A b \in Browser : LET s == [browser[b] EXCEPT !.st = "closed"] IN
          /\ browser[b] \in BrowserRecord /\ s \in BrowserRecord /\ s.st = "closed"
          /\ s.channel = browser[b].channel /\ s.n = browser[b].n /\ s.got = browser[b].got
    BY Parts, Browsers
  <2>2. browser' = [b \in Browser |->
          IF \E c \in Channel : wsChannels[c] = b THEN [browser[b] EXCEPT !.st = "closed"]
          ELSE browser[b]]
    BY DEF LinkClosed
  <2> QED
    BY <2>1, <2>2
<1>5. /\ node' \in 0 .. MaxLinks
      /\ streams' \in [Channel -> Request \cup {Nobody}] /\ wsChannels' \in [Channel -> Browser \cup {Nobody}]
  BY Sets DEF TypeOK, LinkClosed
<1>6. UNCHANGED <<up, boots, channelSeq, down, agent, tables, dsh>>
  BY DEF LinkClosed
<1>7. \A q \in Request : Len(response'[q].buf) <= HtmlBufferCap
  BY <1>3 DEF TypeOK
<1>8. TypeOK'
  BY <1>1, <1>2, <1>3, <1>4, <1>5, <1>6, <1>7 DEF TypeOK, tables, dsh
<1> QED
  BY <1>1, <1>2, <1>3, <1>4, <1>6, <1>8, SameParties

LEMMA ProcessEndsDoes ==
  ASSUME TypeOK, ProcessEnds
  PROVE  /\ TypeOK'
         /\ \A k \in Link : /\ link'[k] = IF link[k] = "unused" THEN "unused" ELSE "closed"
                            /\ down'[k] = <<>> /\ toGateway'[k] = <<>>
         /\ \A w \in Whose : DshKeeps(w)
         /\ \A q \in Request :
              /\ response'[q].channel = 0
              /\ response'[q].out = response[q].out /\ response'[q].buf = response[q].buf
              /\ response'[q].st = IF response[q].st = "waiting" THEN "lost" ELSE response[q].st
         /\ \A b \in Browser :
              /\ browser'[b].channel = 0 /\ browser'[b].n = browser[b].n
              /\ browser'[b].got = browser[b].got
              /\ browser'[b].st = IF browser[b].st = "open" THEN "closed" ELSE browser[b].st
<1>1. /\ link' \in [Link -> {"unused", "open", "lost", "closed"}]
      /\ down' \in [Link -> Seq(DownFrame)] /\ toGateway' \in [Link -> Seq(UpFrame)]
      /\ \A k \in Link : /\ link'[k] = IF link[k] = "unused" THEN "unused" ELSE "closed"
                         /\ down'[k] = <<>> /\ toGateway'[k] = <<>>
  BY Items DEF TypeOK, ProcessEnds
<1>2. /\ response' \in [Request -> ResponseRecord]
      /\ \A q \in Request :
           /\ response'[q].channel = 0
           /\ response'[q].out = response[q].out /\ response'[q].buf = response[q].buf
           /\ response'[q].st = IF response[q].st = "waiting" THEN "lost" ELSE response[q].st
  <2>1. \A q \in Request :
          LET s == [response[q] EXCEPT !.channel = 0, !.st = IF @ = "waiting" THEN "lost" ELSE @] IN
          /\ s \in ResponseRecord /\ s.channel = 0 /\ s.out = response[q].out /\ s.buf = response[q].buf
          /\ s.st = IF response[q].st = "waiting" THEN "lost" ELSE response[q].st
    BY Parts, Responses
  <2>2. response' = [q \in Request |->
          [response[q] EXCEPT !.channel = 0, !.st = IF @ = "waiting" THEN "lost" ELSE @]]
    BY DEF ProcessEnds
  <2> QED
    BY <2>1, <2>2
<1>3. /\ browser' \in [Browser -> BrowserRecord]
      /\ \A b \in Browser :
           /\ browser'[b].channel = 0 /\ browser'[b].n = browser[b].n
           /\ browser'[b].got = browser[b].got
           /\ browser'[b].st = IF browser[b].st = "open" THEN "closed" ELSE browser[b].st
  <2>1. \A b \in Browser :
          LET s == [browser[b] EXCEPT !.channel = 0, !.st = IF @ = "open" THEN "closed" ELSE @] IN
          /\ s \in BrowserRecord /\ s.channel = 0 /\ s.n = browser[b].n /\ s.got = browser[b].got
          /\ s.st = IF browser[b].st = "open" THEN "closed" ELSE browser[b].st
    BY Parts, Browsers
  <2>2. browser' = [b \in Browser |->
          [browser[b] EXCEPT !.channel = 0, !.st = IF @ = "open" THEN "closed" ELSE @]]
    BY DEF ProcessEnds
  <2> QED
    BY <2>1, <2>2
<1>4. /\ up' = FALSE /\ node' = 0 /\ agent' = 0 /\ channelSeq' = 0
      /\ streams' \in [Channel -> Request \cup {Nobody}] /\ wsChannels' \in [Channel -> Browser \cup {Nobody}]
  BY DEF ProcessEnds
<1>5. UNCHANGED <<boots, tables, dsh>>
  BY DEF ProcessEnds
<1>6. \A q \in Request : Len(response'[q].buf) <= HtmlBufferCap
  BY <1>2 DEF TypeOK
<1>7. 0 \in 0 .. MaxLinks /\ 0 \in 0 .. Cardinality(Whose)
  BY Sets
<1>8. TypeOK'
  BY <1>1, <1>2, <1>3, <1>4, <1>5, <1>6, <1>7 DEF TypeOK, tables, dsh
<1> QED
  BY <1>1, <1>2, <1>3, <1>5, <1>8, SameParties

(* The next channel exists and is nobody's.                                    *)
LEMMA FreshChannel ==
  ASSUME TypeOK, ChannelsAgree, NEW w \in Whose, Idle(w)
  PROVE  /\ NextChannel \in Channel /\ NextChannel <= Cardinality(Whose)
         /\ Cardinality(Holders \cup {w}) = NextChannel
         /\ \A v \in Whose : Chan(v) # NextChannel
         /\ streams[NextChannel] = Nobody /\ wsChannels[NextChannel] = Nobody
<1>1. Holders \subseteq Whose /\ w \notin Holders /\ channelSeq = Cardinality(Holders)
  BY DEF ChannelsAgree, Holders
<1>2. IsFiniteSet(Holders)
  BY <1>1, Sets, FS_Subset
<1>3. /\ IsFiniteSet(Holders \cup {w})
      /\ Cardinality(Holders \cup {w}) = Cardinality(Holders) + 1
  BY <1>1, <1>2, FS_AddElement
<1>4. Cardinality(Holders \cup {w}) <= Cardinality(Whose)
  BY <1>1, Sets, FS_Subset
<1>5. channelSeq \in Nat /\ Cardinality(Whose) \in Nat
  BY Sets DEF TypeOK
<1>6. NextChannel \in Channel /\ NextChannel <= Cardinality(Whose)
  BY <1>1, <1>3, <1>4, <1>5, Sets DEF NextChannel
<1>7. \A v \in Whose : Chan(v) # NextChannel
  <2>1. \A v \in Whose : Chan(v) <= channelSeq
    BY DEF ChannelsAgree
  <2>2. \A v \in Whose : Chan(v) \in Nat
    BY PartyTypes, Sets
  <2> QED
    BY <1>5, <2>1, <2>2 DEF NextChannel
<1>8. streams[NextChannel] = Nobody
  <2>1. streams[NextChannel] \in Request \cup {Nobody}
    BY <1>6, Parts
  <2> QED
    BY <1>6, <1>7, <2>1, Sets DEF ChannelsAgree
<1>9. wsChannels[NextChannel] = Nobody
  <2>1. wsChannels[NextChannel] \in Browser \cup {Nobody}
    BY <1>6, Parts
  <2> QED
    BY <1>6, <1>7, <2>1, Sets DEF ChannelsAgree
<1> QED
  BY <1>1, <1>3, <1>6, <1>7, <1>8, <1>9 DEF NextChannel

(* The party w gets the next channel.                                          *)
Allocates(w) ==
  /\ Chan(w)' = NextChannel /\ channelSeq' = NextChannel /\ ~Idle(w)' /\ Heard(w)' = Heard(w)
  /\ \A v \in Whose : v # w => CallerKeeps(v)
  /\ \A v \in Whose : DshKeeps(v)

RequestFrames(q, c) ==
  <<Frame("request", c, <<q>>)>>
    \o IF q \in WithBody THEN <<Frame("data", c, <<q, 0>>)>> ELSE <<>>

LEMMA RelayDoes ==
  ASSUME TypeOK, ChannelsAgree, NEW q \in Request, Relay(q)
  PROVE  /\ TypeOK' /\ Allocates(q) /\ RequestFrames(q, NextChannel) \in Seq(DownFrame)
         /\ streams' = [streams EXCEPT ![NextChannel] = q]
         /\ down' = Down(RequestFrames(q, NextChannel))
         /\ response'[q].st = "waiting" /\ response'[q].out = response[q].out
         /\ response'[q].buf = response[q].buf
         /\ \A p \in Request : p # q => response'[p] = response[p]
<1>0. q \in Whose /\ Idle(q) /\ NextChannel \in Channel
  <2>1. q \in Whose /\ Idle(q)
    BY Sets DEF Relay, Idle
  <2> QED
    BY <2>1, FreshChannel
<1>1. RequestFrames(q, NextChannel) \in Seq(DownFrame)
  <2>1. Frame("request", NextChannel, <<q>>) \in DownFrame
        /\ Frame("data", NextChannel, <<q, 0>>) \in DownFrame
    BY <1>0, Frames, Items
  <2>2. /\ <<Frame("request", NextChannel, <<q>>)>> \in Seq(DownFrame)
        /\ <<Frame("data", NextChannel, <<q, 0>>)>> \in Seq(DownFrame)
        /\ <<>> \in Seq(DownFrame)
    BY <2>1, Items
  <2> QED
    BY <2>2, ConcatProperties DEF RequestFrames
<1>2. down' = Down(RequestFrames(q, NextChannel))
  BY DEF Relay, RequestFrames
<1>3. down' \in [Link -> Seq(DownFrame)]
  <2>1. MaxLinks = 0 => Link = {} /\ node = 0
    BY Sets DEF TypeOK
  <2>2. node \in Link
    BY Sets DEF TypeOK, Relay
  <2> QED
    BY <1>1, <1>2, <2>2, Sending, Items
<1>4. LET s == [response[q] EXCEPT !.st = "waiting", !.channel = NextChannel] IN
      /\ s \in ResponseRecord /\ s.st = "waiting" /\ s.channel = NextChannel
      /\ s.out = response[q].out /\ s.buf = response[q].buf
  <2>1. response[q] \in ResponseRecord
    BY Parts
  <2>2. \A c \in Channel : LET r == [response[q] EXCEPT !.st = "waiting", !.channel = c] IN
          /\ r \in ResponseRecord /\ r.st = "waiting" /\ r.channel = c
          /\ r.out = response[q].out /\ r.buf = response[q].buf
    <3>1. \A x \in ResponseRecord : \A c \in Channel :
            LET r == [x EXCEPT !.st = "waiting", !.channel = c] IN
              r \in ResponseRecord /\ r.st = "waiting" /\ r.channel = c /\ r.out = x.out /\ r.buf = x.buf
      BY Zenon, Responses
    <3> QED
      BY Zenon, <2>1, <3>1
  <2> QED
    BY <1>0, <2>2
<1>5. response' = [response EXCEPT ![q] = [response[q] EXCEPT !.st = "waiting", !.channel = NextChannel]]
  BY DEF Relay, TypeOK
<1>6. /\ response' \in [Request -> ResponseRecord]
      /\ response'[q] = [response[q] EXCEPT !.st = "waiting", !.channel = NextChannel]
      /\ \A p \in Request : p # q => response'[p] = response[p]
  <2>1. response \in [Request -> ResponseRecord]
    BY DEF TypeOK
  <2> DEFINE s == [response[q] EXCEPT !.st = "waiting", !.channel = NextChannel]
  <2>2. s \in ResponseRecord
    BY <1>4
  <2>3. response' = [response EXCEPT ![q] = s]
    BY <1>5
  <2> HIDE DEF s
  <2>4. /\ response' \in [Request -> ResponseRecord] /\ response'[q] = s
        /\ \A p \in Request : p # q => response'[p] = response[p]
    BY <2>1, <2>2, <2>3, Put
  <2> QED
    BY <2>4 DEF s
<1>7. streams' = [streams EXCEPT ![NextChannel] = q] /\ streams' \in [Channel -> Request \cup {Nobody}]
  BY <1>0 DEF Relay, TypeOK
<1>8. /\ channelSeq' = NextChannel
      /\ UNCHANGED <<up, boots, wsChannels, node, browser, link, toGateway, agent, tables, dsh>>
  BY DEF Relay
<1>9. channelSeq' \in 0 .. Cardinality(Whose)
  BY <1>0, <1>8, Sets
<1>10. \A p \in Request : Len(response'[p].buf) <= HtmlBufferCap
  BY <1>4, <1>6 DEF TypeOK
<1>11. TypeOK'
  BY <1>3, <1>6, <1>7, <1>8, <1>9, <1>10 DEF TypeOK, tables, dsh
<1>12. Chan(q)' = NextChannel /\ ~Idle(q)' /\ Heard(q)' = Heard(q)
  BY <1>4, <1>6 DEF Chan, Idle, Heard
<1>13. \A v \in Whose : (v # q => CallerKeeps(v)) /\ DshKeeps(v)
  <2>1. \A b \in Browser : browser'[b] = browser[b]
    BY <1>8
  <2>2. \A w \in Whose : DshKeeps(w)
    BY <1>8, SameParties
  <2> QED
    BY <1>6, <2>1, <2>2, SameParties DEF Whose
<1> QED
  BY <1>1, <1>2, <1>4, <1>6, <1>7, <1>8, <1>11, <1>12, <1>13 DEF Allocates

LEMMA BrowserOpensDoes ==
  ASSUME TypeOK, ChannelsAgree, NEW b \in Browser, BrowserOpens(b)
  PROVE  /\ TypeOK' /\ Allocates(b) /\ <<Frame("open", NextChannel, <<b>>)>> \in Seq(DownFrame)
         /\ wsChannels' = [wsChannels EXCEPT ![NextChannel] = b]
         /\ down' = Down(<<Frame("open", NextChannel, <<b>>)>>)
         /\ browser'[b].st = "open" /\ browser'[b].n = browser[b].n /\ browser'[b].got = browser[b].got
         /\ \A v \in Browser : v # b => browser'[v] = browser[v]
<1>0. b \in Whose /\ Idle(b) /\ NextChannel \in Channel /\ b \notin Request
  <2>1. b \in Whose /\ b \notin Request
    BY Sets
  <2>2. Idle(b)
    BY <2>1 DEF BrowserOpens, Idle
  <2> QED
    BY <2>1, <2>2, FreshChannel
<1>1. <<Frame("open", NextChannel, <<b>>)>> \in Seq(DownFrame)
  BY <1>0, Frames, Items
<1>2. down' = Down(<<Frame("open", NextChannel, <<b>>)>>)
  BY DEF BrowserOpens
<1>3. down' \in [Link -> Seq(DownFrame)]
  <2>1. node \in Link
    BY Sets DEF TypeOK, BrowserOpens
  <2> QED
    BY <1>1, <1>2, <2>1, Sending, Items
<1> DEFINE s == [browser[b] EXCEPT !.st = "open", !.channel = NextChannel]
<1>4. /\ s \in BrowserRecord /\ s.st = "open" /\ s.channel = NextChannel
      /\ s.n = browser[b].n /\ s.got = browser[b].got
  <2>1. browser[b] \in BrowserRecord
    BY Parts
  <2>2. \A c \in Channel : LET r == [browser[b] EXCEPT !.st = "open", !.channel = c] IN
          r \in BrowserRecord /\ r.st = "open" /\ r.channel = c /\ r.n = browser[b].n /\ r.got = browser[b].got
    BY <2>1, Browsers
  <2> QED
    BY <1>0, <2>2
<1>5. browser' = [browser EXCEPT ![b] = s]
  BY DEF BrowserOpens, TypeOK
<1> HIDE DEF s
<1>6. /\ browser' \in [Browser -> BrowserRecord] /\ browser'[b] = s
      /\ \A v \in Browser : v # b => browser'[v] = browser[v]
  <2>1. browser \in [Browser -> BrowserRecord]
    BY DEF TypeOK
  <2> QED
    BY <2>1, <1>4, <1>5, Put
<1>7. /\ wsChannels' = [wsChannels EXCEPT ![NextChannel] = b]
      /\ wsChannels' \in [Channel -> Browser \cup {Nobody}]
  BY <1>0 DEF BrowserOpens, TypeOK
<1>8. /\ channelSeq' = NextChannel
      /\ UNCHANGED <<up, boots, streams, node, response, link, toGateway, agent, tables, dsh>>
  BY DEF BrowserOpens
<1>9. channelSeq' \in 0 .. Cardinality(Whose)
  BY <1>0, <1>8, Sets
<1>11. TypeOK'
  BY <1>3, <1>6, <1>7, <1>8, <1>9 DEF TypeOK, tables, dsh
<1>12. Chan(b)' = NextChannel /\ ~Idle(b)' /\ Heard(b)' = Heard(b)
  BY <1>0, <1>4, <1>6 DEF Chan, Idle, Heard
<1>13. \A v \in Whose : (v # b => CallerKeeps(v)) /\ DshKeeps(v)
  <2>1. \A q \in Request : response'[q] = response[q]
    BY <1>8
  <2>2. \A w \in Whose : DshKeeps(w)
    BY <1>8, SameParties
  <2> QED
    BY <1>6, <2>1, <2>2, SameParties DEF Whose
<1> QED
  BY <1>1, <1>2, <1>4, <1>6, <1>7, <1>8, <1>11, <1>12, <1>13 DEF Allocates

LEMMA BrowserSendsDoes ==
  ASSUME TypeOK, NEW b \in Browser, NEW c \in Channel, BrowserSends(b, c)
  PROVE  LET f == Frame("data", c, <<b, browser[b].n + 1>>) IN
         /\ TypeOK' /\ <<f>> \in Seq(DownFrame) /\ f \in DownFrame
         /\ down' = Down(<<f>>) /\ browser[b].n \in Nat /\ browser'[b].n = browser[b].n + 1
         /\ browser'[b].st = browser[b].st /\ browser'[b].got = browser[b].got
         /\ \A v \in Browser : v # b => browser'[v] = browser[v]
         /\ \A w \in Whose : CallerKeeps(w) /\ Idle(w)' = Idle(w) /\ DshKeeps(w)
<1> DEFINE f == Frame("data", c, <<b, browser[b].n + 1>>) s == [browser[b] EXCEPT !.n = @ + 1]
<1>0. browser[b].n \in Nat /\ b \in Whose /\ b \notin Request
  <2>1. browser[b].n \in 0 .. Messages
    BY Parts DEF BrowserRecord
  <2> QED
    BY <2>1, Sets
<1>1. f \in DownFrame /\ <<f>> \in Seq(DownFrame)
  <2>1. <<b, browser[b].n + 1>> \in Item
    BY <1>0, Items
  <2>2. f \in DownFrame
    BY <2>1, Frames
  <2> QED
    BY <2>2, Items
<1>2. down' = Down(<<f>>)
  BY DEF BrowserSends
<1>3. down' \in [Link -> Seq(DownFrame)]
  <2>1. CASE node = 0
    BY <1>2, <2>1 DEF Down, TypeOK
  <2>2. CASE node # 0
    <3>1. node \in Link
      BY <2>2, Sets DEF TypeOK
    <3> QED
      BY <1>1, <1>2, <3>1, Sending, Items
  <2> QED
    BY <2>1, <2>2
<1>4. /\ s \in BrowserRecord /\ s.st = browser[b].st /\ s.channel = browser[b].channel
      /\ s.n = browser[b].n + 1 /\ s.got = browser[b].got
  <2>1. browser[b] \in BrowserRecord /\ browser[b].n < Messages
    BY Parts DEF BrowserSends
  <2> QED
    BY <2>1, Browsers
<1>5. browser' = [browser EXCEPT ![b] = s]
  BY DEF BrowserSends, TypeOK
<1>6. UNCHANGED <<gateway, response, link, toGateway, agent, tables, dsh>>
  BY DEF BrowserSends
<1> HIDE DEF s, f
<1>7. /\ browser' \in [Browser -> BrowserRecord] /\ browser'[b] = s
      /\ \A v \in Browser : v # b => browser'[v] = browser[v]
  <2>1. browser \in [Browser -> BrowserRecord]
    BY DEF TypeOK
  <2> QED
    BY <2>1, <1>4, <1>5, Put
<1>8. TypeOK'
  BY <1>3, <1>6, <1>7 DEF TypeOK, gateway, tables, dsh
<1>9. \A w \in Whose : CallerKeeps(w) /\ Idle(w)' = Idle(w) /\ DshKeeps(w)
  <2>1. CallerKeeps(b) /\ Idle(b)' = Idle(b)
    BY <1>0, <1>4, <1>7 DEF CallerKeeps, Chan, Idle, Heard
  <2>2. \A w \in Whose : w # b => CallerKeeps(w) /\ Idle(w)' = Idle(w)
    <3>1. \A q \in Request : response'[q] = response[q]
      BY <1>6
    <3> QED
      BY <1>7, <3>1, SameParties DEF Whose, Idle
  <2>3. \A w \in Whose : DshKeeps(w)
    BY <1>6, SameParties
  <2> QED
    BY <2>1, <2>2, <2>3
<1> QED
  BY <1>0, <1>1, <1>2, <1>4, <1>7, <1>8, <1>9 DEF f

LEMMA BrowserClosesDoes ==
  ASSUME TypeOK, NEW b \in Browser, NEW c \in Channel, BrowserCloses(b, c)
  PROVE  LET f == Frame("close", c, <<>>) IN
         /\ TypeOK' /\ f \in DownFrame /\ <<f>> \in Seq(DownFrame) /\ down' = Down(<<f>>)
         /\ browser'[b].n = browser[b].n
         /\ browser'[b].st = "closed" /\ browser'[b].got = browser[b].got
         /\ \A v \in Browser : v # b => browser'[v] = browser[v]
         /\ \A w \in Whose : CallerKeeps(w) /\ DshKeeps(w)
<1> DEFINE f == Frame("close", c, <<>>) s == [browser[b] EXCEPT !.st = "closed"]
<1>0. b \in Whose /\ b \notin Request
  BY Sets
<1>1. f \in DownFrame /\ <<f>> \in Seq(DownFrame)
  BY Frames, Items
<1>2. down' = Down(<<f>>)
  BY DEF BrowserCloses
<1>3. down' \in [Link -> Seq(DownFrame)]
  <2>1. CASE node = 0
    BY <1>2, <2>1 DEF Down, TypeOK
  <2>2. CASE node # 0
    <3>1. node \in Link
      BY <2>2, Sets DEF TypeOK
    <3> QED
      BY <1>1, <1>2, <3>1, Sending, Items
  <2> QED
    BY <2>1, <2>2
<1>4. /\ s \in BrowserRecord /\ s.st = "closed" /\ s.channel = browser[b].channel
      /\ s.n = browser[b].n /\ s.got = browser[b].got
  <2>1. browser[b] \in BrowserRecord
    BY Parts
  <2> QED
    BY <2>1, Browsers
<1>5. browser' = [browser EXCEPT ![b] = s]
  BY DEF BrowserCloses, TypeOK
<1>6. UNCHANGED <<up, boots, channelSeq, streams, node, response, link, toGateway, agent, tables, dsh>>
  BY DEF BrowserCloses
<1> HIDE DEF s, f
<1>7. /\ browser' \in [Browser -> BrowserRecord] /\ browser'[b] = s
      /\ \A v \in Browser : v # b => browser'[v] = browser[v]
  <2>1. browser \in [Browser -> BrowserRecord]
    BY DEF TypeOK
  <2> QED
    BY <2>1, <1>4, <1>5, Put
<1>8. wsChannels' \in [Channel -> Browser \cup {Nobody}]
  BY DEF TypeOK, BrowserCloses
<1>9. TypeOK'
  BY <1>3, <1>6, <1>7, <1>8 DEF TypeOK, tables, dsh
<1>10. \A w \in Whose : CallerKeeps(w) /\ DshKeeps(w)
  <2>1. CallerKeeps(b)
    BY <1>0, <1>4, <1>7 DEF CallerKeeps, Chan, Idle, Heard
  <2>2. \A w \in Whose : w # b => CallerKeeps(w)
    <3>1. \A q \in Request : response'[q] = response[q]
      BY <1>6
    <3> QED
      BY <1>7, <3>1, SameParties DEF Whose
  <2>3. \A w \in Whose : DshKeeps(w)
    BY <1>6, SameParties
  <2> QED
    BY <2>1, <2>2, <2>3
<1> QED
  BY <1>0, <1>1, <1>2, <1>4, <1>7, <1>9, <1>10 DEF f

LEMMA RelayTimeoutDoes ==
  ASSUME TypeOK, NEW c \in Channel, RelayTimeout(c)
  PROVE  /\ TypeOK' /\ streams[c] \in Request
         /\ \A q \in Request :
              /\ response'[q].out = response[q].out /\ response'[q].buf = response[q].buf
              /\ q # streams[c] => response'[q] = response[q]
         /\ response'[streams[c]].st = "failed"
         /\ \A w \in Whose : CallerKeeps(w) /\ DshKeeps(w)
<1>0. PICK q \in Request : q = streams[c] /\ q \in Whose
  BY Parts, Sets DEF RelayTimeout
<1> DEFINE s == Failed(response[q])
<1>1. response' = [response EXCEPT ![q] = s]
  BY <1>0 DEF RelayTimeout
<1>2. s \in ResponseRecord /\ Keeps(response[q], s) /\ s.st = "failed"
  <2>1. response[q] \in ResponseRecord
    BY <1>0, Parts
  <2> QED
    BY <2>1, Responses
<1>3. UNCHANGED <<up, boots, channelSeq, wsChannels, node, browser, frames, tables, dsh>>
  BY DEF RelayTimeout
<1>4. streams' \in [Channel -> Request \cup {Nobody}]
  BY DEF RelayTimeout, TypeOK
<1> HIDE DEF s
<1>5. /\ response' \in [Request -> ResponseRecord] /\ response'[q] = s
      /\ \A p \in Request : p # q => response'[p] = response[p]
  <2>1. response \in [Request -> ResponseRecord]
    BY DEF TypeOK
  <2> QED
    BY <2>1, <1>0, <1>1, <1>2, Put
<1>6. \A p \in Request : response'[p].out = response[p].out /\ response'[p].buf = response[p].buf
  BY <1>2, <1>5 DEF Keeps
<1>7. \A p \in Request : Len(response'[p].buf) <= HtmlBufferCap
  BY <1>6 DEF TypeOK
<1>8. TypeOK'
  BY <1>3, <1>4, <1>5, <1>7 DEF TypeOK, frames, tables, dsh
<1>9. \A w \in Whose : CallerKeeps(w) /\ DshKeeps(w)
  <2>1. CallerKeeps(q)
    BY <1>0, <1>2, <1>5 DEF CallerKeeps, Chan, Idle, Heard, Keeps
  <2>2. \A b \in Browser : browser'[b] = browser[b]
    BY <1>3
  <2>3. \A w \in Whose : w # q => CallerKeeps(w)
    BY <1>5, <2>2, SameParties DEF Whose
  <2>4. \A w \in Whose : DshKeeps(w)
    BY <1>3, SameParties
  <2> QED
    BY <2>1, <2>3, <2>4
<1> QED
  BY <1>0, <1>2, <1>5, <1>6, <1>8, <1>9

(* The agent reads a frame: what all four cases have in common.                  *)
Reading(f) ==
  /\ agent \in Link /\ down[agent] # <<>> /\ f = Head(down[agent]) /\ f \in DownFrame
  /\ down' \in [Link -> Seq(DownFrame)] /\ down'[agent] = Tail(down[agent])
  /\ \A k \in Link : k # agent => down'[k] = down[k]
  /\ UNCHANGED <<gateway, callers, link, toGateway, agent>>

LEMMA ReadingDoes ==
  ASSUME TypeOK, AgentReads
  PROVE  \E f \in DownFrame :
           /\ Reading(f)
           /\ \/ f.type = "request" /\ OnRequest(f.data[1], f.channel)
              \/ f.type = "open" /\ OnOpen(f.data[1], f.channel)
              \/ f.type = "data" /\ OnData(f.channel, f.data)
              \/ f.type = "close" /\ OnClose(f.channel)
<1> DEFINE f == Head(down[agent])
<1>0. agent \in Link /\ down[agent] # <<>>
  BY Sets DEF TypeOK, AgentReads
<1>1. down[agent] \in Seq(DownFrame)
  BY <1>0, Parts
<1>2. f \in DownFrame /\ Tail(down[agent]) \in Seq(DownFrame)
  BY <1>0, <1>1, Shortened
<1>3. /\ down' \in [Link -> Seq(DownFrame)] /\ down'[agent] = Tail(down[agent])
      /\ \A k \in Link : k # agent => down'[k] = down[k]
  <2>1. down' = [down EXCEPT ![agent] = Tail(down[agent])] /\ down \in [Link -> Seq(DownFrame)]
    BY DEF AgentReads, TypeOK
  <2> QED
    BY <1>0, <1>2, <2>1, Put
<1>4. /\ UNCHANGED <<gateway, callers, link, toGateway, agent>>
      /\ \/ f.type = "request" /\ OnRequest(f.data[1], f.channel)
         \/ f.type = "open" /\ OnOpen(f.data[1], f.channel)
         \/ f.type = "data" /\ OnData(f.channel, f.data)
         \/ f.type = "close" /\ OnClose(f.channel)
  BY DEF AgentReads
<1> QED
  BY <1>0, <1>2, <1>3, <1>4 DEF Reading

LEMMA AgentTypes ==
  ASSUME TypeOK, NEW f \in DownFrame, Reading(f),
         pendingBodies' \in [Channel -> Request \cup {Nobody}],
         wsUpstreams' \in [Channel -> Browser \cup {Nobody}],
         upstream' \in [Request -> UpstreamRecord], socket' \in [Browser -> SocketRecord]
  PROVE  TypeOK' /\ \A w \in Whose : CallerKeeps(w) /\ Idle(w)' = Idle(w)
<1>1. UNCHANGED <<gateway, callers, link, toGateway, agent>> /\ down' \in [Link -> Seq(DownFrame)]
  BY DEF Reading
<1>2. TypeOK'
  BY <1>1 DEF TypeOK, gateway, callers
<1> QED
  BY <1>1, <1>2, SameParties

LEMMA OnRequestDoes ==
  ASSUME TypeOK, NEW f \in DownFrame, Reading(f), f.type = "request", OnRequest(f.data[1], f.channel)
  PROVE  LET q == f.data[1] c == f.channel IN
         /\ q \in Request /\ c \in Channel /\ f.data = <<q>> /\ TypeOK'
         /\ pendingBodies' = IF q \in WithBody THEN [pendingBodies EXCEPT ![c] = q] ELSE pendingBodies
         /\ upstream'[q] = Asked(q, c) /\ \A p \in Request : p # q => upstream'[p] = upstream[p]
         /\ UNCHANGED <<wsUpstreams, socket>>
         /\ \A w \in Whose : CallerKeeps(w) /\ Idle(w)' = Idle(w) /\ (w # q => DshKeeps(w))
<1> DEFINE q == f.data[1] c == f.channel
<1>0. q \in Request /\ c \in Channel /\ f.data = <<q>>
  BY DownFrames
<1>1. Asked(q, c) \in UpstreamRecord
  BY <1>0, AskedIs DEF TypeOK
<1>2. upstream' = [upstream EXCEPT ![q] = Asked(q, c)]
  BY DEF OnRequest, Asked
<1>3. /\ pendingBodies' = IF q \in WithBody THEN [pendingBodies EXCEPT ![c] = q] ELSE pendingBodies
      /\ UNCHANGED <<wsUpstreams, socket>>
  BY DEF OnRequest
<1> HIDE DEF q, c
<1>4. /\ upstream' \in [Request -> UpstreamRecord] /\ upstream'[q] = Asked(q, c)
      /\ \A p \in Request : p # q => upstream'[p] = upstream[p]
  <2>1. upstream \in [Request -> UpstreamRecord]
    BY DEF TypeOK
  <2> QED
    BY <1>0, <1>1, <1>2, <2>1, Put
<1>5. pendingBodies' \in [Channel -> Request \cup {Nobody}]
  BY <1>0, <1>3 DEF TypeOK
<1>6. wsUpstreams' \in [Channel -> Browser \cup {Nobody}] /\ socket' \in [Browser -> SocketRecord]
  BY <1>3 DEF TypeOK
<1>7. TypeOK' /\ \A w \in Whose : CallerKeeps(w) /\ Idle(w)' = Idle(w)
  BY <1>4, <1>5, <1>6, AgentTypes
<1>8. \A w \in Whose : w # q => DshKeeps(w)
  <2>1. \A b \in Browser : socket'[b] = socket[b]
    BY <1>3
  <2> QED
    BY <1>4, <2>1, SameParties DEF Whose
<1> QED
  BY <1>0, <1>3, <1>4, <1>7, <1>8 DEF q, c

LEMMA OnOpenDoes ==
  ASSUME TypeOK, NEW f \in DownFrame, Reading(f), f.type = "open", OnOpen(f.data[1], f.channel)
  PROVE  LET b == f.data[1] c == f.channel IN
         /\ b \in Browser /\ c \in Channel /\ f.data = <<b>> /\ TypeOK'
         /\ wsUpstreams' = [wsUpstreams EXCEPT ![c] = b]
         /\ socket'[b] = Opened(c) /\ \A v \in Browser : v # b => socket'[v] = socket[v]
         /\ UNCHANGED <<pendingBodies, upstream>>
         /\ \A w \in Whose : CallerKeeps(w) /\ Idle(w)' = Idle(w) /\ (w # b => DshKeeps(w))
<1> DEFINE b == f.data[1] c == f.channel
<1>0. b \in Browser /\ c \in Channel /\ f.data = <<b>>
  BY DownFrames
<1>1. Opened(c) \in SocketRecord
  BY <1>0, OpenedIs DEF TypeOK
<1>2. socket' = [socket EXCEPT ![b] = Opened(c)]
  BY DEF OnOpen, Opened
<1>3. wsUpstreams' = [wsUpstreams EXCEPT ![c] = b] /\ UNCHANGED <<pendingBodies, upstream>>
  BY DEF OnOpen
<1> HIDE DEF b, c
<1>4. /\ socket' \in [Browser -> SocketRecord] /\ socket'[b] = Opened(c)
      /\ \A v \in Browser : v # b => socket'[v] = socket[v]
  <2>1. socket \in [Browser -> SocketRecord]
    BY DEF TypeOK
  <2> QED
    BY <1>0, <1>1, <1>2, <2>1, Put
<1>5. wsUpstreams' \in [Channel -> Browser \cup {Nobody}]
  BY <1>0, <1>3 DEF TypeOK
<1>6. /\ pendingBodies' \in [Channel -> Request \cup {Nobody}]
      /\ upstream' \in [Request -> UpstreamRecord]
  BY <1>3 DEF TypeOK
<1>7. TypeOK' /\ \A w \in Whose : CallerKeeps(w) /\ Idle(w)' = Idle(w)
  BY <1>4, <1>5, <1>6, AgentTypes
<1>8. \A w \in Whose : w # b => DshKeeps(w)
  <2>1. \A q \in Request : upstream'[q] = upstream[q]
    BY <1>3
  <2> QED
    BY <1>4, <2>1, SameParties DEF Whose
<1> QED
  BY <1>0, <1>3, <1>4, <1>7, <1>8 DEF b, c

(* Data for an upstream socket, for a request that waits for it, or for nobody.   *)
LEMMA OnDataDoes ==
  ASSUME TypeOK, NEW f \in DownFrame, Reading(f), f.type = "data", OnData(f.channel, f.data),
         \A b \in Browser : socket[b].st = "open" => socket[b].queue = <<>>
  PROVE  LET c == f.channel x == f.data IN
         /\ c \in Channel /\ x \in Item /\ TypeOK' /\ UNCHANGED wsUpstreams
         /\ \/ /\ wsUpstreams[c] \in Browser
               /\ socket'[wsUpstreams[c]] = Delivered(socket[wsUpstreams[c]], x)
               /\ \A v \in Browser : v # wsUpstreams[c] => socket'[v] = socket[v]
               /\ UNCHANGED <<pendingBodies, upstream>>
            \/ /\ wsUpstreams[c] = Nobody /\ pendingBodies[c] \in Request
               /\ upstream'[pendingBodies[c]] =
                    [upstream[pendingBodies[c]] EXCEPT !.st = "sent", !.body = x]
               /\ \A p \in Request : p # pendingBodies[c] => upstream'[p] = upstream[p]
               /\ pendingBodies' = [pendingBodies EXCEPT ![c] = Nobody] /\ UNCHANGED socket
            \/ wsUpstreams[c] = Nobody /\ UNCHANGED <<pendingBodies, upstream, socket>>
         /\ \A w \in Whose : CallerKeeps(w) /\ Idle(w)' = Idle(w)
<1> DEFINE c == f.channel x == f.data
<1>0. c \in Channel /\ x \in Item
  BY DownFrames
<1>1. /\ wsUpstreams[c] \in Browser \cup {Nobody} /\ pendingBodies[c] \in Request \cup {Nobody}
      /\ upstream \in [Request -> UpstreamRecord] /\ socket \in [Browser -> SocketRecord]
      /\ pendingBodies \in [Channel -> Request \cup {Nobody}]
      /\ wsUpstreams \in [Channel -> Browser \cup {Nobody}]
  BY <1>0 DEF TypeOK
<1>2. CASE wsUpstreams[c] # Nobody
  <2> DEFINE b == wsUpstreams[c] s == Delivered(socket[b], x)
  <2>1. b \in Browser /\ socket[b] \in SocketRecord
    BY <1>1, <1>2
  <2>2. s \in SocketRecord
    BY <1>0, <2>1, DeliveredIs
  <2>3. socket' = [socket EXCEPT ![b] = s] /\ UNCHANGED <<wsUpstreams, pendingBodies, upstream>>
    BY <1>2 DEF OnData, tables
  <2> HIDE DEF s, b
  <2>4. /\ socket' \in [Browser -> SocketRecord] /\ socket'[b] = s
        /\ \A v \in Browser : v # b => socket'[v] = socket[v]
    BY <1>1, <2>1, <2>2, <2>3, Put
  <2>5. TypeOK' /\ \A w \in Whose : CallerKeeps(w) /\ Idle(w)' = Idle(w)
    BY <1>1, <2>3, <2>4, AgentTypes
  <2> QED
    BY <1>0, <2>1, <2>3, <2>4, <2>5 DEF s, b
<1>3. CASE wsUpstreams[c] = Nobody /\ pendingBodies[c] # Nobody
  <2> DEFINE q == pendingBodies[c] s == [upstream[q] EXCEPT !.st = "sent", !.body = x]
  <2>1. q \in Request /\ upstream[q] \in UpstreamRecord
    BY <1>1, <1>3
  <2>2. s \in UpstreamRecord
    BY <1>0, <2>1, Upstreams
  <2>3. /\ upstream' = [upstream EXCEPT ![q] = s]
        /\ pendingBodies' = [pendingBodies EXCEPT ![c] = Nobody] /\ UNCHANGED <<wsUpstreams, socket>>
    BY <1>1, <1>3, <2>1 DEF OnData
  <2> HIDE DEF s, q
  <2>4. /\ upstream' \in [Request -> UpstreamRecord] /\ upstream'[q] = s
        /\ \A p \in Request : p # q => upstream'[p] = upstream[p]
    BY <1>1, <2>1, <2>2, <2>3, Put
  <2>5. pendingBodies' \in [Channel -> Request \cup {Nobody}]
    BY <1>0, <1>1, <2>3
  <2>6. TypeOK' /\ \A w \in Whose : CallerKeeps(w) /\ Idle(w)' = Idle(w)
    BY <1>1, <2>3, <2>4, <2>5, AgentTypes
  <2> QED
    BY <1>0, <1>3, <2>1, <2>3, <2>4, <2>6 DEF s, q
<1>4. CASE wsUpstreams[c] = Nobody /\ pendingBodies[c] = Nobody
  <2>1. UNCHANGED <<wsUpstreams, pendingBodies, upstream, socket>>
    BY <1>4 DEF OnData, tables, dsh
  <2>2. TypeOK' /\ \A w \in Whose : CallerKeeps(w) /\ Idle(w)' = Idle(w)
    BY <1>1, <2>1, AgentTypes
  <2> QED
    BY <1>0, <1>4, <2>1, <2>2
<1> QED
  BY <1>2, <1>3, <1>4

LEMMA OnCloseDoes ==
  ASSUME TypeOK, NEW f \in DownFrame, Reading(f), f.type = "close", OnClose(f.channel)
  PROVE  /\ TypeOK' /\ f.channel \in Channel
         /\ wsUpstreams' = [wsUpstreams EXCEPT ![f.channel] = Nobody]
         /\ UNCHANGED <<pendingBodies, upstream>>
         /\ \A b \in Browser :
              /\ SameAsk(socket[b], socket'[b]) /\ socket'[b].n = socket[b].n
              /\ socket'[b].got = socket[b].got /\ socket'[b].queue = socket[b].queue
              /\ \/ socket'[b].st = socket[b].st
                 \/ wsUpstreams[f.channel] = b /\ socket'[b].st \in {"closing", "closed"}
         /\ \A w \in Whose : CallerKeeps(w) /\ Idle(w)' = Idle(w)
<1> DEFINE c == f.channel b == wsUpstreams[c]
<1>0. c \in Channel
  BY DownFrames
<1>1. /\ b \in Browser \cup {Nobody} /\ socket \in [Browser -> SocketRecord]
      /\ wsUpstreams \in [Channel -> Browser \cup {Nobody}]
      /\ pendingBodies \in [Channel -> Request \cup {Nobody}]
      /\ upstream \in [Request -> UpstreamRecord]
  BY <1>0 DEF TypeOK
<1>2. /\ wsUpstreams' = [wsUpstreams EXCEPT ![c] = Nobody]
      /\ UNCHANGED <<pendingBodies, upstream>>
      /\ socket' = IF b = Nobody THEN socket
                   ELSE [socket EXCEPT ![b].st = IF @ = "closed" THEN @ ELSE "closing"]
  BY DEF OnClose
<1> HIDE DEF b, c
<1>3. wsUpstreams' \in [Channel -> Browser \cup {Nobody}]
  BY <1>1, <1>2
<1>4. /\ socket' \in [Browser -> SocketRecord]
      /\ \A v \in Browser :
           /\ SameAsk(socket[v], socket'[v]) /\ socket'[v].n = socket[v].n
           /\ socket'[v].got = socket[v].got /\ socket'[v].queue = socket[v].queue
           /\ \/ socket'[v].st = socket[v].st
              \/ b = v /\ socket'[v].st \in {"closing", "closed"}
  <2>1. CASE b = Nobody
    <3>1. socket' = socket
      BY <1>2, <2>1
    <3> QED
      BY <1>1, <3>1 DEF SameAsk
  <2>2. CASE b # Nobody
    <3> DEFINE st == IF socket[b].st = "closed" THEN "closed" ELSE "closing"
               s == [socket[b] EXCEPT !.st = st]
    <3>1. b \in Browser /\ st \in {"closing", "closed"} /\ socket[b] \in SocketRecord
      BY <1>1, <2>2
    <3>2. socket' = [socket EXCEPT ![b] = s]
      BY <1>2, <2>2
    <3> HIDE DEF st
    <3>3. /\ s \in SocketRecord /\ SameAsk(socket[b], s) /\ s.st = st /\ s.n = socket[b].n
          /\ s.got = socket[b].got /\ s.queue = socket[b].queue
      BY <3>1, Sockets
    <3> HIDE DEF s
    <3>4. /\ socket' \in [Browser -> SocketRecord] /\ socket'[b] = s
          /\ \A v \in Browser : v # b => socket'[v] = socket[v]
      BY <1>1, <3>1, <3>2, <3>3, Put
    <3>5. \A v \in Browser : v # b =>
            /\ SameAsk(socket[v], socket'[v]) /\ socket'[v].n = socket[v].n
            /\ socket'[v].got = socket[v].got /\ socket'[v].queue = socket[v].queue
            /\ socket'[v].st = socket[v].st
      BY <3>4 DEF SameAsk
    <3> QED
      BY <3>1, <3>3, <3>4, <3>5
  <2> QED
    BY <2>1, <2>2
<1>5. /\ pendingBodies' \in [Channel -> Request \cup {Nobody}]
      /\ upstream' \in [Request -> UpstreamRecord]
  BY <1>1, <1>2
<1>6. TypeOK' /\ \A w \in Whose : CallerKeeps(w) /\ Idle(w)' = Idle(w)
  BY <1>3, <1>4, <1>5, AgentTypes
<1> QED
  BY <1>0, <1>2, <1>4, <1>6 DEF b, c

(* dsh answers, and the agent sends it on if the link of the request is open.     *)
LEMMA AnswerDoes ==
  ASSUME TypeOK, NEW q \in Request, NEW st \in {"awaiting", "sent", "answering", "done"},
         NEW n \in 0 .. Chunks, NEW F \in Seq(UpFrame), Answer(q, st, n, F),
         upstream[q].link \in Link
  PROVE  /\ TypeOK' /\ SameAsk(upstream[q], upstream'[q])
         /\ upstream'[q].st = st /\ upstream'[q].n = n /\ upstream'[q].body = upstream[q].body
         /\ \A p \in Request : p # q => upstream'[p] = upstream[p]
         /\ toGateway' = Up(upstream[q].link, F)
         /\ UNCHANGED <<gateway, callers, link, down, agent, tables, socket>>
         /\ \A w \in Whose : CallerKeeps(w) /\ Idle(w)' = Idle(w) /\ (w # q => DshKeeps(w))
<1> DEFINE s == [upstream[q] EXCEPT !.st = st, !.n = n, !.retried = FALSE]
<1>1. /\ s \in UpstreamRecord /\ SameAsk(upstream[q], s) /\ s.st = st /\ s.n = n
      /\ s.body = upstream[q].body
  <2>1. upstream[q] \in UpstreamRecord
    BY Parts
  <2>2. \A r \in UpstreamRecord : LET u == [r EXCEPT !.st = st, !.n = n, !.retried = FALSE] IN
          u \in UpstreamRecord /\ SameAsk(r, u) /\ u.st = st /\ u.n = n /\ u.body = r.body
    BY DEF UpstreamRecord, SameAsk
  <2> QED
    BY <2>1, <2>2
<1>2. /\ upstream' = [upstream EXCEPT ![q] = s] /\ toGateway' = Up(upstream[q].link, F)
      /\ UNCHANGED <<gateway, callers, link, down, agent, tables, socket>>
  BY DEF Answer, AnswerLink, TypeOK
<1> HIDE DEF s
<1>3. /\ upstream' \in [Request -> UpstreamRecord] /\ upstream'[q] = s
      /\ \A p \in Request : p # q => upstream'[p] = upstream[p]
  <2>1. upstream \in [Request -> UpstreamRecord]
    BY DEF TypeOK
  <2> QED
    BY <2>1, <1>1, <1>2, Put
<1>4. toGateway' \in [Link -> Seq(UpFrame)]
  BY <1>2, Sending, Items
<1>5. TypeOK'
  BY <1>2, <1>3, <1>4 DEF TypeOK, gateway, callers, tables
<1>6. \A w \in Whose : CallerKeeps(w) /\ Idle(w)' = Idle(w) /\ (w # q => DshKeeps(w))
  <2>1. \A b \in Browser : socket'[b] = socket[b]
    BY <1>2
  <2> QED
    BY <1>2, <1>3, <2>1, SameParties DEF Whose
<1> QED
  BY <1>1, <1>2, <1>3, <1>5, <1>6

LEMMA RetryDoes ==
  ASSUME TypeOK, NEW q \in Request, Retry(q)
  PROVE  /\ TypeOK' /\ SameAsk(upstream[q], upstream'[q])
         /\ \A p \in Request : /\ upstream'[p].st = upstream[p].st /\ upstream'[p].n = upstream[p].n
                               /\ upstream'[p].body = upstream[p].body
                               /\ SameAsk(upstream[p], upstream'[p])
         /\ UNCHANGED <<gateway, callers, frames, tables, socket>>
         /\ \A w \in Whose : CallerKeeps(w) /\ Idle(w)' = Idle(w) /\ DshKeeps(w)
<1> DEFINE s == [upstream[q] EXCEPT !.retried = TRUE]
<1>1. /\ s \in UpstreamRecord /\ SameAsk(upstream[q], s) /\ s.st = upstream[q].st
      /\ s.n = upstream[q].n /\ s.body = upstream[q].body
  <2>1. upstream[q] \in UpstreamRecord
    BY Parts
  <2> QED
    BY <2>1, Upstreams
<1>2. /\ upstream' = [upstream EXCEPT ![q] = s]
      /\ UNCHANGED <<gateway, callers, frames, tables, socket>>
  BY DEF Retry, TypeOK
<1> HIDE DEF s
<1>3. /\ upstream' \in [Request -> UpstreamRecord] /\ upstream'[q] = s
      /\ \A p \in Request : p # q => upstream'[p] = upstream[p]
  <2>1. upstream \in [Request -> UpstreamRecord]
    BY DEF TypeOK
  <2> QED
    BY <2>1, <1>1, <1>2, Put
<1>4. TypeOK'
  BY <1>2, <1>3 DEF TypeOK, gateway, callers, frames, tables
<1>5. \A p \in Request : /\ upstream'[p].st = upstream[p].st /\ upstream'[p].n = upstream[p].n
                         /\ upstream'[p].body = upstream[p].body /\ SameAsk(upstream[p], upstream'[p])
  BY <1>1, <1>3 DEF SameAsk
<1>6. \A w \in Whose : CallerKeeps(w) /\ Idle(w)' = Idle(w) /\ DshKeeps(w)
  <2>1. DshKeeps(q)
    BY <1>5 DEF DshKeeps, SameAsk, Started, On, Via, BootOf, Given
  <2>2. \A b \in Browser : socket'[b] = socket[b]
    BY <1>2
  <2> QED
    BY <1>2, <1>3, <2>1, <2>2, SameParties DEF Whose
<1> QED
  BY <1>2, <1>4, <1>5, <1>6

(* The sockets to dsh: each step changes one of them.                            *)
SocketKeeps(b) ==
  /\ SameAsk(socket[b], socket'[b]) /\ (socket[b].st # "none" <=> socket'[b].st # "none")
  /\ Taken(socket'[b]) = Taken(socket[b])

LEMMA OneSocket ==
  ASSUME TypeOK, NEW b \in Browser, NEW s \in SocketRecord, socket' = [socket EXCEPT ![b] = s],
         UNCHANGED <<gateway, callers, link, down, agent, tables, upstream>>,
         toGateway' \in [Link -> Seq(UpFrame)],
         SameAsk(socket[b], s), s.st # "none" <=> socket[b].st # "none"
  PROVE  /\ TypeOK' /\ socket'[b] = s /\ \A v \in Browser : v # b => socket'[v] = socket[v]
         /\ \A w \in Whose : CallerKeeps(w) /\ Idle(w)' = Idle(w) /\ (w # b => DshKeeps(w))
         /\ s.n = socket[b].n => DshKeeps(b)
         /\ Started(b)' = Started(b) /\ On(b)' = On(b) /\ Via(b)' = Via(b) /\ BootOf(b)' = BootOf(b)
<1>1. /\ socket' \in [Browser -> SocketRecord] /\ socket'[b] = s
      /\ \A v \in Browser : v # b => socket'[v] = socket[v]
  <2>1. socket \in [Browser -> SocketRecord]
    BY DEF TypeOK
  <2> QED
    BY <2>1, Put
<1>2. TypeOK'
  BY <1>1 DEF TypeOK, gateway, callers, tables
<1>3. b \notin Request
  BY PartiesDiffer
<1>4. /\ Started(b)' = Started(b) /\ On(b)' = On(b) /\ Via(b)' = Via(b) /\ BootOf(b)' = BootOf(b)
      /\ s.n = socket[b].n => DshKeeps(b)
  BY <1>1, <1>3 DEF SameAsk, Started, On, Via, BootOf, Given, DshKeeps
<1>5. \A w \in Whose : CallerKeeps(w) /\ Idle(w)' = Idle(w) /\ (w # b => DshKeeps(w))
  <2>1. \A q \in Request : upstream'[q] = upstream[q]
    OBVIOUS
  <2> QED
    BY <1>1, <2>1, SameParties DEF Whose
<1> QED
  BY <1>1, <1>2, <1>4, <1>5

LEMMA SocketOpensDoes ==
  ASSUME TypeOK, NEW b \in Browser, SocketOpens(b), socket[b].got = <<>>
  PROVE  /\ TypeOK' /\ socket'[b].st = "open" /\ socket'[b].queue = <<>> /\ SocketKeeps(b)
         /\ \A v \in Browser : v # b => socket'[v] = socket[v]
         /\ UNCHANGED <<gateway, callers, frames, tables, upstream>>
         /\ \A w \in Whose : CallerKeeps(w) /\ Idle(w)' = Idle(w) /\ DshKeeps(w)
<1> DEFINE s == [socket[b] EXCEPT !.st = "open", !.got = socket[b].queue, !.queue = <<>>]
<1>1. /\ s \in SocketRecord /\ SameAsk(socket[b], s) /\ s.st = "open" /\ s.n = socket[b].n
      /\ s.got = socket[b].queue /\ s.queue = <<>>
      /\ socket[b].got \in Seq(Item) /\ socket[b].queue \in Seq(Item)
  <2>1. socket[b] \in SocketRecord
    BY Parts
  <2> QED
    BY <2>1, Sockets
<1>2. /\ socket' = [socket EXCEPT ![b] = s] /\ socket[b].st = "connecting"
      /\ UNCHANGED <<gateway, callers, frames, tables, upstream>>
  BY DEF SocketOpens, TypeOK
<1> HIDE DEF s
<1>3. Taken(s) = Taken(socket[b])
  <2>1. socket[b].queue \o <<>> = socket[b].queue
    BY <1>1, ConcatEmptySeq
  <2>2. <<>> \o socket[b].queue = socket[b].queue
    BY <1>1, ConcatEmptySeq
  <2> QED
    BY <1>1, <2>1, <2>2 DEF Taken
<1>4. toGateway' \in [Link -> Seq(UpFrame)] /\ UNCHANGED <<link, down, agent>>
  BY <1>2 DEF frames, TypeOK
<1>5. /\ TypeOK' /\ socket'[b] = s /\ \A v \in Browser : v # b => socket'[v] = socket[v]
      /\ \A w \in Whose : CallerKeeps(w) /\ Idle(w)' = Idle(w) /\ (w # b => DshKeeps(w))
      /\ DshKeeps(b)
  BY <1>1, <1>2, <1>4, OneSocket
<1> QED
  BY <1>1, <1>2, <1>3, <1>5 DEF SocketKeeps

LEMMA SocketSendsDoes ==
  ASSUME TypeOK, NEW b \in Browser, SocketSends(b), socket[b].link \in Link,
         socket[b].channel \in Channel
  PROVE  LET f == Frame("data", socket[b].channel, <<b, socket[b].n + 1>>) IN
         /\ TypeOK' /\ SocketKeeps(b) /\ socket[b].n \in Nat /\ socket'[b].n = socket[b].n + 1
         /\ socket'[b].st = socket[b].st /\ socket'[b].got = socket[b].got
         /\ socket'[b].queue = socket[b].queue
         /\ \A v \in Browser : v # b => socket'[v] = socket[v]
         /\ f \in UpFrame /\ <<f>> \in Seq(UpFrame) /\ toGateway' = Up(socket[b].link, <<f>>)
         /\ UNCHANGED <<gateway, callers, link, down, agent, tables, upstream>>
         /\ \A w \in Whose : CallerKeeps(w) /\ Idle(w)' = Idle(w) /\ (w # b => DshKeeps(w))
         /\ Started(b)' = Started(b) /\ On(b)' = On(b) /\ Via(b)' = Via(b) /\ BootOf(b)' = BootOf(b)
<1> DEFINE f == Frame("data", socket[b].channel, <<b, socket[b].n + 1>>)
           s == [socket[b] EXCEPT !.n = @ + 1]
<1>0. socket[b].n \in Nat
  <2>1. socket[b].n \in 0 .. Replies
    BY Parts DEF SocketRecord
  <2> QED
    BY <2>1, Sets
<1>1. /\ s \in SocketRecord /\ SameAsk(socket[b], s) /\ s.st = socket[b].st /\ s.n = socket[b].n + 1
      /\ s.got = socket[b].got /\ s.queue = socket[b].queue
  <2>1. socket[b] \in SocketRecord /\ socket[b].n < Replies
    BY Parts DEF SocketSends
  <2> QED
    BY <2>1, Sockets
<1>2. /\ socket' = [socket EXCEPT ![b] = s] /\ toGateway' = Up(socket[b].link, <<f>>)
      /\ UNCHANGED <<gateway, callers, link, down, agent, tables, upstream>>
  BY DEF SocketSends, TypeOK
<1>3. f \in UpFrame /\ <<f>> \in Seq(UpFrame)
  <2>0. b \in Whose /\ socket[b].n + 1 \in Nat
    BY <1>0, Sets
  <2>1. <<b, socket[b].n + 1>> \in Item
    BY <2>0, Items
  <2>2. f \in UpFrame
    BY <2>1, Frames
  <2> QED
    BY <2>2, Items
<1> HIDE DEF s, f
<1>4. toGateway' \in [Link -> Seq(UpFrame)]
  BY <1>2, <1>3, Sending, Items
<1>5. /\ TypeOK' /\ socket'[b] = s /\ \A v \in Browser : v # b => socket'[v] = socket[v]
      /\ \A w \in Whose : CallerKeeps(w) /\ Idle(w)' = Idle(w) /\ (w # b => DshKeeps(w))
      /\ Started(b)' = Started(b) /\ On(b)' = On(b) /\ Via(b)' = Via(b) /\ BootOf(b)' = BootOf(b)
  BY <1>1, <1>2, <1>4, OneSocket
<1>6. Taken(s) = Taken(socket[b])
  BY <1>1 DEF Taken
<1> QED
  BY <1>0, <1>1, <1>2, <1>3, <1>5, <1>6 DEF f, SocketKeeps

LEMMA SocketClosesDoes ==
  ASSUME TypeOK, NEW b \in Browser, SocketCloses(b), socket[b].link \in Link,
         socket[b].channel \in Channel
  PROVE  LET f == Frame("close", socket[b].channel, <<>>) IN
         /\ TypeOK' /\ SocketKeeps(b) /\ socket'[b].n = socket[b].n /\ socket'[b].st = "closed"
         /\ socket'[b].got = socket[b].got /\ socket'[b].queue = socket[b].queue
         /\ socket[b].st # "none" /\ \A v \in Browser : v # b => socket'[v] = socket[v]
         /\ f \in UpFrame /\ <<f>> \in Seq(UpFrame) /\ toGateway' = Up(socket[b].link, <<f>>)
         /\ UNCHANGED <<gateway, callers, link, down, agent, tables, upstream>>
         /\ \A w \in Whose : CallerKeeps(w) /\ Idle(w)' = Idle(w) /\ DshKeeps(w)
<1> DEFINE f == Frame("close", socket[b].channel, <<>>)
           s == [socket[b] EXCEPT !.st = "closed"]
<1>1. /\ s \in SocketRecord /\ SameAsk(socket[b], s) /\ s.st = "closed" /\ s.n = socket[b].n
      /\ s.got = socket[b].got /\ s.queue = socket[b].queue
  <2>1. socket[b] \in SocketRecord
    BY Parts
  <2>2. \A st \in {"closing", "closed"} : LET u == [socket[b] EXCEPT !.st = st] IN
          /\ u \in SocketRecord /\ SameAsk(socket[b], u) /\ u.st = st /\ u.n = socket[b].n
          /\ u.got = socket[b].got /\ u.queue = socket[b].queue
    BY <2>1, Sockets
  <2> QED
    BY <2>2
<1>2. /\ socket' = [socket EXCEPT ![b] = s] /\ toGateway' = Up(socket[b].link, <<f>>)
      /\ UNCHANGED <<gateway, callers, link, down, agent, tables, upstream>>
      /\ socket[b].st # "none"
  BY DEF SocketCloses, TypeOK
<1>3. f \in UpFrame /\ <<f>> \in Seq(UpFrame)
  BY Frames, Items
<1> HIDE DEF s, f
<1>4. toGateway' \in [Link -> Seq(UpFrame)]
  BY <1>2, <1>3, Sending, Items
<1>5. /\ TypeOK' /\ socket'[b] = s /\ \A v \in Browser : v # b => socket'[v] = socket[v]
      /\ \A w \in Whose : CallerKeeps(w) /\ Idle(w)' = Idle(w) /\ (w # b => DshKeeps(w))
      /\ DshKeeps(b)
  BY <1>1, <1>2, <1>4, OneSocket
<1>6. Taken(s) = Taken(socket[b])
  BY <1>1 DEF Taken
<1> QED
  BY <1>1, <1>2, <1>3, <1>5, <1>6 DEF f, SocketKeeps

(* The gateway reads a frame: what all cases have in common.                     *)
Hearing(k, f) ==
  /\ up /\ link[k] \in {"open", "lost"} /\ toGateway[k] # <<>> /\ f = Head(toGateway[k])
  /\ toGateway' \in [Link -> Seq(UpFrame)] /\ toGateway'[k] = Tail(toGateway[k])
  /\ \A j \in Link : j # k => toGateway'[j] = toGateway[j]
  /\ UNCHANGED <<up, boots, channelSeq, node, link, down, agent, tables, dsh>>

LEMMA HearingDoes ==
  ASSUME TypeOK, NEW k \in Link, GatewayReads(k)
  PROVE  \E f \in UpFrame :
           /\ Hearing(k, f)
           /\ \/ streams[f.channel] # Nobody /\ StreamFrame(f, streams[f.channel])
              \/ wsChannels[f.channel] # Nobody /\ BrowserFrame(f, wsChannels[f.channel])
              \/ /\ streams[f.channel] = Nobody /\ wsChannels[f.channel] = Nobody
                 /\ UNCHANGED <<streams, wsChannels, callers>>
<1> DEFINE f == Head(toGateway[k])
<1>1. toGateway[k] \in Seq(UpFrame) /\ toGateway[k] # <<>>
  BY Parts DEF GatewayReads
<1>2. f \in UpFrame /\ Tail(toGateway[k]) \in Seq(UpFrame)
  BY <1>1, Shortened
<1>3. /\ toGateway' \in [Link -> Seq(UpFrame)] /\ toGateway'[k] = Tail(toGateway[k])
      /\ \A j \in Link : j # k => toGateway'[j] = toGateway[j]
  <2>1. toGateway' = [toGateway EXCEPT ![k] = Tail(toGateway[k])] /\ toGateway \in [Link -> Seq(UpFrame)]
    BY DEF GatewayReads, TypeOK
  <2> QED
    BY <1>2, <2>1, Put
<1>4. /\ up /\ link[k] \in {"open", "lost"}
      /\ UNCHANGED <<up, boots, channelSeq, node, link, down, agent, tables, dsh>>
      /\ \/ streams[f.channel] # Nobody /\ StreamFrame(f, streams[f.channel])
         \/ wsChannels[f.channel] # Nobody /\ BrowserFrame(f, wsChannels[f.channel])
         \/ /\ streams[f.channel] = Nobody /\ wsChannels[f.channel] = Nobody
            /\ UNCHANGED <<streams, wsChannels, callers>>
  BY DEF GatewayReads
<1> QED
  BY <1>1, <1>2, <1>3, <1>4 DEF Hearing

LEMMA HearingNothing ==
  ASSUME TypeOK, NEW k \in Link, NEW f \in UpFrame, Hearing(k, f),
         UNCHANGED <<streams, wsChannels, callers>>
  PROVE  TypeOK' /\ \A w \in Whose : CallerKeeps(w) /\ DshKeeps(w)
<1>1. TypeOK'
  BY DEF TypeOK, Hearing, callers, tables, dsh
<1>2. UNCHANGED dsh
  BY DEF Hearing
<1> QED
  BY <1>1, <1>2, SameParties

(* The response q goes on: its data are what it was, or one more.                 *)
LEMMA StreamFrameDoes ==
  ASSUME TypeOK, NEW k \in Link, NEW f \in UpFrame, Hearing(k, f), NEW q \in Request,
         streams[f.channel] = q, StreamFrame(f, q)
  PROVE  /\ TypeOK' /\ UNCHANGED <<wsChannels, browser>>
         /\ \A p \in Request : p # q => response'[p] = response[p]
         /\ response'[q].channel = response[q].channel
         /\ \/ /\ f.type = "response" /\ UNCHANGED streams /\ response'[q].st = response[q].st
               /\ response'[q].out = response[q].out /\ response'[q].buf \in {response[q].buf, <<>>}
               /\ f.data # <<"own">> => response'[q].buf = response[q].buf
            \/ /\ f.type = "data" /\ UNCHANGED streams /\ response'[q].st = response[q].st
               /\ \/ /\ response'[q].buf = <<>>
                     /\ response'[q].out = response[q].out \o response[q].buf \o <<f.data>>
                  \/ /\ response'[q].out = response[q].out
                     /\ response'[q].buf = response[q].buf \o <<Decoded(q, f.data)>>
            \/ /\ f.type = "end" /\ streams' = [streams EXCEPT ![f.channel] = Nobody]
               /\ response'[q].st = "ended" /\ response'[q].buf = <<>>
               /\ response'[q].out = response[q].out \o response[q].buf
            \/ f.type = "close" /\ UNCHANGED <<streams, response>>
         /\ \A w \in Whose : DshKeeps(w) /\ (w # q => CallerKeeps(w))
<1> DEFINE r == response[q]
           s == CASE f.type = "response" -> Headed(q, f.data[1])
                  [] f.type = "data" -> Extended(q, f.data)
                  [] f.type = "end" -> Ended(response[q])
                  [] OTHER -> response[q]
<1>0. /\ r \in ResponseRecord /\ Len(r.buf) <= HtmlBufferCap /\ response \in [Request -> ResponseRecord]
      /\ f.channel \in Channel /\ f.type \in {"response", "data", "end", "close"}
      /\ streams \in [Channel -> Request \cup {Nobody}]
  BY UpFrames DEF TypeOK
<1>1. /\ response' = [response EXCEPT ![q] = s]
      /\ streams' = IF f.type = "end" THEN [streams EXCEPT ![f.channel] = Nobody] ELSE streams
      /\ UNCHANGED <<wsChannels, browser>>
  BY DEF StreamFrame
<1>2. /\ s \in ResponseRecord /\ s.channel = r.channel /\ Len(s.buf) <= HtmlBufferCap
      /\ \/ /\ f.type = "response" /\ s.st = r.st
            /\ s.out = r.out /\ s.buf \in {r.buf, <<>>} /\ (f.data # <<"own">> => s.buf = r.buf)
         \/ /\ f.type = "data" /\ s.st = r.st
            /\ \/ s.buf = <<>> /\ s.out = r.out \o r.buf \o <<f.data>>
               \/ s.out = r.out /\ s.buf = r.buf \o <<Decoded(q, f.data)>>
         \/ /\ f.type = "end" /\ s.st = "ended" /\ s.buf = <<>> /\ s.out = r.out \o r.buf
         \/ f.type = "close" /\ s = r
  <2>0. Len(<<>>) <= HtmlBufferCap
    BY Sets
  <2>1. CASE f.type = "response"
    <3>1. s = Headed(q, f.data[1]) /\ f.data[1] \in {"own", "bad"} /\ f.data = <<f.data[1]>>
      BY <2>1, UpFrames
    <3>2. f.data # <<"own">> => f.data[1] = "bad"
      BY <3>1
    <3> DEFINE h == Headed(q, f.data[1])
    <3>3. /\ h \in ResponseRecord /\ h.st = response[q].st /\ h.channel = response[q].channel
          /\ h.out = response[q].out /\ h.buf \in {response[q].buf, <<>>}
          /\ f.data[1] = "bad" => h.buf = response[q].buf
      BY <1>0, <3>1, HeadIs
    <3>4. s = h
      BY <3>1
    <3> HIDE DEF h, s
    <3> QED
      BY <1>0, <2>0, <2>1, <3>2, <3>3, <3>4
  <2>2. CASE f.type = "data"
    <3>1. s = Extended(q, f.data) /\ f.data \in Item
      BY <2>2, UpFrames
    <3> DEFINE h == Extended(q, f.data)
    <3>2. /\ h \in ResponseRecord /\ h.st = response[q].st /\ h.channel = response[q].channel
          /\ \/ h.buf = <<>> /\ h.out = response[q].out \o response[q].buf \o <<f.data>>
             \/ h.out = response[q].out /\ h.buf = response[q].buf \o <<Decoded(q, f.data)>>
          /\ Len(h.buf) <= HtmlBufferCap
      BY <1>0, <3>1, ExtendedIs
    <3>3. s = h
      BY <3>1
    <3> HIDE DEF h, s
    <3> QED
      BY <2>2, <3>2, <3>3
  <2>3. CASE f.type = "end"
    <3>1. s = Ended(r)
      BY <2>3
    <3> HIDE DEF s, r
    <3>2. /\ s \in ResponseRecord /\ s.st = "ended" /\ s.channel = r.channel
          /\ s.buf = <<>> /\ s.out = r.out \o r.buf
      BY <1>0, <3>1, Responses
    <3> QED
      BY <2>0, <2>3, <3>2
  <2>4. CASE f.type = "close"
    <3>1. s = r
      BY <2>4
    <3> HIDE DEF s, r
    <3> QED
      BY <1>0, <2>4, <3>1
  <2> HIDE DEF s, r
  <2> QED
    BY <1>0, <2>1, <2>2, <2>3, <2>4
<1> HIDE DEF s
<1>3. /\ response' \in [Request -> ResponseRecord] /\ response'[q] = s
      /\ \A p \in Request : p # q => response'[p] = response[p]
  BY <1>0, <1>1, <1>2, Put
<1>4. streams' \in [Channel -> Request \cup {Nobody}]
  BY <1>0, <1>1
<1>5. \A p \in Request : Len(response'[p].buf) <= HtmlBufferCap
  BY <1>2, <1>3 DEF TypeOK
<1>6. TypeOK'
  BY <1>1, <1>3, <1>4, <1>5 DEF TypeOK, Hearing, tables, dsh
<1>7. \A w \in Whose : DshKeeps(w) /\ (w # q => CallerKeeps(w))
  <2>1. \A b \in Browser : browser'[b] = browser[b]
    BY <1>1
  <2>2. UNCHANGED dsh
    BY DEF Hearing
  <2> QED
    BY <1>3, <2>1, <2>2, SameParties DEF Whose
<1>8. f.type = "close" => response' = response
  BY <1>0, <1>1 DEF s
<1> QED
  BY <1>1, <1>2, <1>3, <1>6, <1>7, <1>8

LEMMA BrowserFrameDoes ==
  ASSUME TypeOK, NEW k \in Link, NEW f \in UpFrame, Hearing(k, f), NEW b \in Browser,
         wsChannels[f.channel] = b, BrowserFrame(f, b)
  PROVE  /\ TypeOK' /\ UNCHANGED <<streams, response>>
         /\ \A v \in Browser : v # b => browser'[v] = browser[v]
         /\ browser'[b].channel = browser[b].channel /\ browser'[b].n = browser[b].n
         /\ \/ /\ f.type = "data" /\ UNCHANGED wsChannels /\ browser'[b].st = browser[b].st
               /\ browser'[b].got = browser[b].got \o <<f.data>>
            \/ /\ f.type = "close" /\ wsChannels' = [wsChannels EXCEPT ![f.channel] = Nobody]
               /\ browser'[b].st = "closed" /\ browser'[b].got = browser[b].got
            \/ f.type \in {"response", "end"} /\ UNCHANGED <<wsChannels, browser>>
         /\ \A w \in Whose : DshKeeps(w) /\ (w # b => CallerKeeps(w))
<1> DEFINE r == browser[b]
           s == CASE f.type = "data" -> [r EXCEPT !.got = Append(@, f.data)]
                  [] f.type = "close" -> [r EXCEPT !.st = "closed"]
                  [] OTHER -> r
<1>0. /\ r \in BrowserRecord /\ browser \in [Browser -> BrowserRecord]
      /\ f.channel \in Channel /\ f.type \in {"response", "data", "end", "close"}
      /\ wsChannels \in [Channel -> Browser \cup {Nobody}]
  BY UpFrames DEF TypeOK
<1>1. /\ browser' = [browser EXCEPT ![b] = s]
      /\ wsChannels' = IF f.type = "close" THEN [wsChannels EXCEPT ![f.channel] = Nobody]
                       ELSE wsChannels
      /\ UNCHANGED <<streams, response>>
  BY DEF BrowserFrame
<1> HIDE DEF r
<1>2. /\ s \in BrowserRecord /\ s.channel = r.channel /\ s.n = r.n
      /\ \/ f.type = "data" /\ s.st = r.st /\ s.got = r.got \o <<f.data>>
         \/ f.type = "close" /\ s.st = "closed" /\ s.got = r.got
         \/ f.type \in {"response", "end"} /\ s = r
  <2>1. CASE f.type = "data"
    <3>1. f.data \in Item
      BY <2>1, UpFrames
    <3> DEFINE h == [r EXCEPT !.got = Append(@, f.data)]
    <3>2. /\ h \in BrowserRecord /\ h.st = r.st /\ h.channel = r.channel /\ h.n = r.n
          /\ h.got = r.got \o <<f.data>>
      BY <1>0, <3>1, BrowserHears
    <3>3. s = h
      BY <2>1
    <3> HIDE DEF h, s
    <3> QED
      BY <2>1, <3>2, <3>3
  <2>2. CASE f.type = "close"
    <3> DEFINE h == [r EXCEPT !.st = "closed"]
    <3>1. /\ h \in BrowserRecord /\ h.st = "closed" /\ h.channel = r.channel /\ h.n = r.n
          /\ h.got = r.got
      BY <1>0, Browsers
    <3>2. s = h
      BY <2>2
    <3> HIDE DEF h, s
    <3> QED
      BY <2>2, <3>1, <3>2
  <2>3. CASE f.type \in {"response", "end"}
    <3>1. s = r
      BY <2>3
    <3> HIDE DEF s
    <3> QED
      BY <1>0, <2>3, <3>1
  <2> HIDE DEF s
  <2> QED
    BY <1>0, <2>1, <2>2, <2>3
<1> HIDE DEF s
<1>3. /\ browser' \in [Browser -> BrowserRecord] /\ browser'[b] = s
      /\ \A v \in Browser : v # b => browser'[v] = browser[v]
  BY <1>0, <1>1, <1>2, Put
<1>4. wsChannels' \in [Channel -> Browser \cup {Nobody}]
  BY <1>0, <1>1
<1>5. TypeOK'
  BY <1>1, <1>3, <1>4 DEF TypeOK, Hearing, tables, dsh
<1>6. \A w \in Whose : DshKeeps(w) /\ (w # b => CallerKeeps(w))
  <2>1. \A q \in Request : response'[q] = response[q]
    BY <1>1
  <2>2. UNCHANGED dsh
    BY DEF Hearing
  <2> QED
    BY <1>3, <2>1, <2>2, SameParties DEF Whose
<1>7. s = r => browser' = browser
  BY <1>0, <1>1 DEF r
<1> QED
  BY <1>1, <1>2, <1>3, <1>5, <1>6, <1>7 DEF r
-------------------------------------------------------------------------------
(* The first layer: links, channels and tables.                                *)

AskKeeps(w) ==
  Started(w)' = Started(w) /\ On(w)' = On(w) /\ Via(w)' = Via(w) /\ BootOf(w)' = BootOf(w)

LEMMA SameAsks ==
  ASSUME TypeOK
  PROVE  /\ \A q \in Request :
              SameAsk(upstream[q], upstream'[q]) /\ (upstream[q].st # "none" <=> upstream'[q].st # "none")
                => AskKeeps(q)
         /\ \A b \in Browser :
              SameAsk(socket[b], socket'[b]) /\ (socket[b].st # "none" <=> socket'[b].st # "none")
                => AskKeeps(b)
         /\ \A w \in Whose : DshKeeps(w) => AskKeeps(w)
BY Sets DEF AskKeeps, DshKeeps, SameAsk, Started, On, Via, BootOf

LEMMA LinksStay ==
  ASSUME LinksAgree, UNCHANGED <<up, node, agent, link>>,
         \A k \in Link : down'[k] # <<>> => agent = k \/ down[k] # <<>>,
         \A k \in Link : toGateway'[k] # <<>> => link[k] = "open" \/ toGateway[k] # <<>>
  PROVE  LinksAgree'
BY DEF LinksAgree

LEMMA ChannelsStay ==
  ASSUME ChannelsAgree, UNCHANGED <<up, channelSeq>>,
         \A w \in Whose : Chan(w)' = Chan(w) /\ (Idle(w)' => Idle(w)),
         \A w \in Whose : Idle(w)' => Started(w)' = Started(w),
         \A c \in Channel, q \in Request :
           streams'[c] = q => streams[c] = q /\ response'[q].st = response[q].st,
         \A c \in Channel, b \in Browser :
           wsChannels'[c] = b => wsChannels[c] = b /\ browser'[b].st = browser[b].st
  PROVE  ChannelsAgree'
<1>1. Holders' = Holders
  BY DEF Holders
<1>2. \A q \in Request : q \in Whose
  BY DEF Whose
<1>3. \A b \in Browser : b \in Whose
  BY DEF Whose
<1> QED
  BY <1>1, <1>2, <1>3 DEF ChannelsAgree

LEMMA DshStays ==
  ASSUME DshAgrees, UNCHANGED <<up, boots>>, \A w \in Whose : Chan(w)' = Chan(w) /\ AskKeeps(w),
         \A k \in Link : /\ link[k] # "unused" => link'[k] # "unused"
                         /\ link[k] = "closed" => link'[k] = "closed",
         \A c \in Channel, q \in Request :
           pendingBodies'[c] = q => pendingBodies[c] = q /\ upstream'[q].st = upstream[q].st,
         \A c \in Channel, b \in Browser : wsUpstreams'[c] = b => wsUpstreams[c] = b
  PROVE  DshAgrees'
<1>1. \A w \in Whose : Started(w) => Via(w) \in Link
  BY DEF DshAgrees
<1>2. \A w \in Whose : (Started(w) => (Current(w) => Current(w)') /\ (Past(w) => Past(w)'))
  BY <1>1 DEF AskKeeps, Current, Past
<1>3. \A q \in Request : q \in Whose
  BY DEF Whose
<1>4. \A b \in Browser : b \in Whose
  BY DEF Whose
<1> QED
  BY <1>1, <1>2, <1>3, <1>4 DEF DshAgrees, AskKeeps

(* A started party is known to dsh by a link and a channel.                      *)
LEMMA Attachments ==
  ASSUME IInv
  PROVE  /\ TypeOK /\ LinksAgree /\ ChannelsAgree /\ DshAgrees
         /\ \A q \in Request : upstream[q].st # "none" =>
              upstream[q].link \in Link /\ upstream[q].channel \in Channel
         /\ \A b \in Browser : socket[b].st # "none" =>
              socket[b].link \in Link /\ socket[b].channel \in Channel
         /\ \A b \in Browser : /\ socket[b].st = "open" => socket[b].queue = <<>>
                               /\ socket[b].st = "connecting" => socket[b].got = <<>>
         /\ \A w \in Whose : Chan(w) # 0 => ~Idle(w)
<1>1. TypeOK /\ LinksAgree /\ ChannelsAgree /\ DshAgrees
  BY DEF IInv, Attached
<1>2. \A w \in Whose : Started(w) => Via(w) \in Link /\ On(w) \in Channel
  BY <1>1 DEF DshAgrees
<1>3. \A b \in Browser : /\ socket[b].st = "open" => socket[b].queue = <<>>
                         /\ socket[b].st = "connecting" => socket[b].got = <<>>
  BY DEF IInv, FlowingDown, GivenInOrder
<1>4. \A q \in Request : upstream[q].st # "none" =>
        upstream[q].link \in Link /\ upstream[q].channel \in Channel
  BY <1>2, Sets DEF Started, Via, On
<1>5. \A b \in Browser : socket[b].st # "none" =>
        socket[b].link \in Link /\ socket[b].channel \in Channel
  BY <1>2, Sets DEF Started, Via, On
<1>6. \A w \in Whose : Chan(w) # 0 => ~Idle(w)
  BY <1>1 DEF ChannelsAgree
<1> QED
  BY <1>1, <1>3, <1>4, <1>5, <1>6

(* The channel of a frame in transit is somebody's, and the frame is his.          *)
LEMMA OwnerOf ==
  ASSUME IInv, NEW k \in Link
  PROVE  /\ \A f \in In(down[k]) : /\ f \in DownFrame /\ \E w \in Whose : DownIsOf(w, f)
                                   /\ \A w \in Whose : f.channel = Chan(w) => DownIsOf(w, f)
         /\ \A f \in In(toGateway[k]) : /\ f \in UpFrame /\ \E w \in Whose : UpIsOf(w, f, k)
                                        /\ \A w \in Whose : f.channel = Chan(w) => UpIsOf(w, f, k)
<1>1. /\ \A f \in In(down[k]) : f \in DownFrame
      /\ \A f \in In(toGateway[k]) : f \in UpFrame
  <2>1. TypeOK
    BY DEF IInv
  <2>2. down[k] \in Seq(DownFrame) /\ toGateway[k] \in Seq(UpFrame)
    BY <2>1, Parts
  <2>3. In(down[k]) \subseteq DownFrame /\ In(toGateway[k]) \subseteq UpFrame
    BY <2>2, InAfter
  <2> QED
    BY <2>3
<1>2. \A v, w \in Whose : Chan(v) = Chan(w) /\ Chan(v) # 0 => v = w
  BY DEF IInv, Attached, ChannelsAgree
<1>3. /\ \A f \in In(down[k]) : \E w \in Whose : DownIsOf(w, f)
      /\ \A f \in In(toGateway[k]) : \E w \in Whose : UpIsOf(w, f, k)
  BY DEF IInv, Owned, OwnedDown, OwnedUp
<1>4. \A f \in In(down[k]), w \in Whose : f.channel = Chan(w) => DownIsOf(w, f)
  <2> TAKE f \in In(down[k]), w \in Whose
  <2>1. f.channel # 0
    BY <1>1, DownFrames, Sets
  <2>2. PICK v \in Whose : DownIsOf(v, f)
    BY <1>3
  <2>3. f.channel = Chan(v)
    BY <2>2 DEF DownIsOf
  <2> QED
    BY <1>2, <2>1, <2>2, <2>3
<1>5. \A f \in In(toGateway[k]), w \in Whose : f.channel = Chan(w) => UpIsOf(w, f, k)
  <2> TAKE f \in In(toGateway[k]), w \in Whose
  <2>1. f.channel # 0
    BY <1>1, UpFrames, Sets
  <2>2. PICK v \in Whose : UpIsOf(v, f, k)
    BY <1>3
  <2>3. f.channel = Chan(v)
    BY <2>2 DEF UpIsOf
  <2> QED
    BY <1>2, <2>1, <2>2, <2>3
<1> QED
  BY <1>1, <1>3, <1>4, <1>5

LEMMA ConnectAttached ==
  ASSUME IInv, NEW k \in Link, Connect(k) PROVE Attached'
<1>0. TypeOK /\ LinksAgree /\ ChannelsAgree /\ DshAgrees
  BY Attachments
<1>1. /\ link'[k] = "open" /\ \A j \in Link : j # k => link'[j] = link[j]
      /\ \A w \in Whose : CallerKeeps(w) /\ DshKeeps(w)
  BY <1>0, ConnectDoes
<1>2. LinksAgree'
  BY <1>0, <1>1, Sets DEF Connect, LinksAgree
<1>3. UNCHANGED <<up, boots, channelSeq, streams, wsChannels, response, browser,
                  pendingBodies, wsUpstreams, upstream>> /\ link[k] = "unused"
  BY DEF Connect, callers, tables, dsh
<1>4. \A w \in Whose : Chan(w)' = Chan(w) /\ (Idle(w)' => Idle(w)) /\ Started(w)' = Started(w) /\ AskKeeps(w)
  BY <1>0, <1>1, SameAsks DEF CallerKeeps, DshKeeps
<1>5. ChannelsAgree'
  BY <1>0, <1>3, <1>4, ChannelsStay
<1>6. DshAgrees'
  BY <1>0, <1>1, <1>3, <1>4, DshStays
<1> QED
  BY <1>2, <1>5, <1>6 DEF Attached

LEMMA LinkBreaksAttached ==
  ASSUME IInv, LinkBreaks PROVE Attached'
<1>0. TypeOK /\ LinksAgree /\ ChannelsAgree /\ DshAgrees
  BY Attachments
<1>1. /\ agent \in Link /\ link'[agent] = "lost" /\ down'[agent] = <<>>
      /\ \A j \in Link : j # agent => link'[j] = link[j] /\ down'[j] = down[j]
      /\ \A w \in Whose : CallerKeeps(w) /\ DshKeeps(w)
  BY <1>0, LinkBreaksDoes
<1>3. /\ UNCHANGED <<up, boots, channelSeq, streams, wsChannels, response, browser,
                     pendingBodies, wsUpstreams, upstream, node, toGateway>>
      /\ agent' = 0
  BY DEF LinkBreaks, gateway, callers, tables, dsh
<1>2. LinksAgree'
  BY <1>0, <1>1, <1>3, Sets DEF LinksAgree
<1>4. \A w \in Whose : Chan(w)' = Chan(w) /\ (Idle(w)' => Idle(w)) /\ Started(w)' = Started(w) /\ AskKeeps(w)
  BY <1>0, <1>1, SameAsks DEF CallerKeeps, DshKeeps
<1>5. ChannelsAgree'
  BY <1>0, <1>3, <1>4, ChannelsStay
<1>7. link[agent] = "open"
  BY <1>0, <1>1, Sets DEF LinksAgree
<1>6. DshAgrees'
  BY <1>0, <1>1, <1>3, <1>4, <1>7, DshStays
<1> QED
  BY <1>2, <1>5, <1>6 DEF Attached

LEMMA LinkClosedAttached ==
  ASSUME IInv, NEW k \in Link, LinkClosed(k) PROVE Attached'
<1>0. TypeOK /\ LinksAgree /\ ChannelsAgree /\ DshAgrees
  BY Attachments
<1>1. /\ link'[k] = "closed" /\ toGateway'[k] = <<>>
      /\ \A j \in Link : j # k => link'[j] = link[j] /\ toGateway'[j] = toGateway[j]
      /\ \A w \in Whose : DshKeeps(w)
  BY <1>0, LinkClosedDoes
<1>2. /\ \A q \in Request :
           /\ response'[q].channel = response[q].channel
           /\ response'[q].st = IF \E c \in Channel : streams[c] = q THEN "failed" ELSE response[q].st
      /\ \A b \in Browser :
           /\ browser'[b].channel = browser[b].channel
           /\ browser'[b].st = IF \E c \in Channel : wsChannels[c] = b THEN "closed" ELSE browser[b].st
  BY <1>0, LinkClosedDoes
<1>3. /\ UNCHANGED <<up, boots, channelSeq, pendingBodies, wsUpstreams, upstream, down, agent>>
      /\ link[k] = "lost" /\ node' = IF node = k THEN 0 ELSE node
      /\ \A c \in Channel : streams'[c] = Nobody /\ wsChannels'[c] = Nobody
  BY DEF LinkClosed, tables, dsh
<1>4. \A w \in Whose : Chan(w)' = Chan(w) /\ (Idle(w)' => Idle(w))
  BY <1>2, Sets DEF Chan, Idle, Whose
<1>5. \A w \in Whose : Started(w)' = Started(w) /\ AskKeeps(w)
  BY <1>0, <1>1, SameAsks DEF DshKeeps
<1>6. LinksAgree'
  <2>1. (agent = 0 \/ agent \in Link) /\ (node = 0 \/ node \in Link)
    BY <1>0, Sets DEF TypeOK
  <2> QED
    BY <1>0, <1>1, <1>3, <2>1 DEF LinksAgree
<1>7. ChannelsAgree'
  BY <1>0, <1>3, <1>4, <1>5, ChannelsStay, Sets
<1>8. DshAgrees'
  BY <1>0, <1>1, <1>3, <1>4, <1>5, DshStays
<1> QED
  BY <1>6, <1>7, <1>8 DEF Attached

LEMMA ProcessEndsAttached ==
  ASSUME IInv, ProcessEnds PROVE Attached'
<1>0. TypeOK /\ LinksAgree /\ ChannelsAgree /\ DshAgrees
  BY Attachments
<1>1. /\ \A k \in Link : /\ link'[k] = IF link[k] = "unused" THEN "unused" ELSE "closed"
                         /\ down'[k] = <<>> /\ toGateway'[k] = <<>>
      /\ \A w \in Whose : DshKeeps(w)
  BY <1>0, ProcessEndsDoes
<1>2. /\ \A q \in Request :
           /\ response'[q].channel = 0
           /\ response'[q].st = IF response[q].st = "waiting" THEN "lost" ELSE response[q].st
      /\ \A b \in Browser :
           /\ browser'[b].channel = 0
           /\ browser'[b].st = IF browser[b].st = "open" THEN "closed" ELSE browser[b].st
  BY <1>0, ProcessEndsDoes
<1>3. /\ UNCHANGED <<boots, pendingBodies, wsUpstreams, upstream>>
      /\ up' = FALSE /\ node' = 0 /\ agent' = 0 /\ channelSeq' = 0
      /\ \A c \in Channel : streams'[c] = Nobody /\ wsChannels'[c] = Nobody
  BY DEF ProcessEnds, tables, dsh
<1>4. \A w \in Whose : Chan(w)' = 0 /\ (Idle(w)' => Idle(w))
  BY <1>2, Sets DEF Chan, Idle, Whose
<1>5. \A w \in Whose : Started(w)' = Started(w) /\ AskKeeps(w)
  BY <1>0, <1>1, SameAsks DEF DshKeeps
<1>6. LinksAgree'
  BY <1>1, <1>3 DEF LinksAgree
<1>7. ChannelsAgree'
  <2>1. Holders' = {}
    BY <1>4 DEF Holders
  <2>2. Cardinality(Holders') = 0
    BY <2>1, FS_EmptySet
  <2>3. Cardinality(Holders)' = 0
    BY <2>2
  <2> QED
    BY <1>0, <1>3, <1>4, <1>5, <2>3, Sets DEF ChannelsAgree
<1>8. DshAgrees'
  <2>1. ASSUME NEW w \in Whose, Started(w)
        PROVE  /\ BootOf(w)' <= boots' /\ On(w)' \in Channel
               /\ Via(w)' \in Link /\ link'[Via(w)'] # "unused" /\ Past(w)'
    <3>1. /\ BootOf(w) <= boots /\ On(w) \in Channel
          /\ Via(w) \in Link /\ link[Via(w)] # "unused"
      BY <1>0, <2>1 DEF DshAgrees
    <3> QED
      BY <1>1, <1>3, <1>4, <1>5, <2>1, <3>1 DEF AskKeeps, Past
  <2> QED
    BY <1>0, <1>3, <1>5, <2>1, Sets DEF DshAgrees, AskKeeps
<1> QED
  BY <1>6, <1>7, <1>8 DEF Attached

LEMMA BootAttached ==
  ASSUME IInv, Boot PROVE Attached'
<1>0. TypeOK /\ LinksAgree /\ ChannelsAgree /\ DshAgrees
  BY Attachments
<1>1. boots \in Nat /\ boots' = boots + 1 /\ \A w \in Whose : CallerKeeps(w) /\ DshKeeps(w)
  BY <1>0, BootDoes
<1>2. /\ UNCHANGED <<channelSeq, streams, wsChannels, node, response, browser, link, down, toGateway,
                     agent, pendingBodies, wsUpstreams, upstream>>
      /\ ~up /\ up'
  BY DEF Boot, callers, frames, tables, dsh
<1>3. \A w \in Whose : Chan(w)' = Chan(w) /\ (Idle(w)' => Idle(w)) /\ Started(w)' = Started(w) /\ AskKeeps(w)
  BY <1>0, <1>1, SameAsks DEF CallerKeeps, DshKeeps
<1>4. LinksAgree'
  BY <1>0, <1>2 DEF LinksAgree
<1>5. ChannelsAgree'
  <2>1. Holders' = Holders
    BY <1>3 DEF Holders
  <2> QED
    BY <1>0, <1>2, <1>3, <2>1, Sets DEF ChannelsAgree
<1>6. DshAgrees'
  <2>1. ASSUME NEW w \in Whose, Started(w)
        PROVE  /\ BootOf(w)' <= boots' /\ On(w)' \in Channel
               /\ Via(w)' \in Link /\ link'[Via(w)'] # "unused" /\ Past(w)'
    <3>1. /\ BootOf(w) <= boots /\ On(w) \in Channel
          /\ Via(w) \in Link /\ link[Via(w)] # "unused" /\ Past(w)
      BY <1>0, <1>2, <2>1 DEF DshAgrees, Current
    <3>2. BootOf(w) \in Nat
      BY <1>0, PartyTypes
    <3>3. BootOf(w) < boots' /\ BootOf(w) <= boots'
      BY <1>1, <3>1, <3>2
    <3> QED
      BY <1>2, <1>3, <2>1, <3>1, <3>3 DEF AskKeeps, Past
  <2> QED
    BY <1>0, <1>2, <1>3, <2>1, Sets DEF DshAgrees, AskKeeps
<1> QED
  BY <1>4, <1>5, <1>6 DEF Attached

LEMMA AllocatesAttached ==
  ASSUME IInv, NEW w \in Whose, Idle(w), Allocates(w), node # 0,
         UNCHANGED <<up, boots, node, agent, link, toGateway, pendingBodies, wsUpstreams, upstream>>,
         NEW F \in Seq(DownFrame), down' = Down(F),
         \A c \in Channel, q \in Request :
           streams'[c] = q => IF q = w THEN c = NextChannel /\ response'[q].st = "waiting"
                              ELSE streams[c] = q /\ response'[q].st = response[q].st,
         \A c \in Channel, b \in Browser :
           wsChannels'[c] = b => IF b = w THEN c = NextChannel /\ browser'[b].st = "open"
                                 ELSE wsChannels[c] = b /\ browser'[b].st = browser[b].st
  PROVE  Attached'
<1>0. TypeOK /\ LinksAgree /\ ChannelsAgree /\ DshAgrees
  BY Attachments
<1>1. /\ NextChannel \in Channel /\ Cardinality(Holders \cup {w}) = NextChannel
      /\ \A v \in Whose : Chan(v) # NextChannel
  BY <1>0, FreshChannel
<1>2. /\ Chan(w)' = NextChannel /\ channelSeq' = NextChannel /\ ~Idle(w)'
      /\ \A v \in Whose : v # w => Chan(v)' = Chan(v) /\ (Idle(v)' => Idle(v))
  BY DEF Allocates, CallerKeeps
<1>3. \A v \in Whose : AskKeeps(v)
  BY <1>0, SameAsks DEF Allocates
<1>4. LinksAgree'
  <2>1. \A k \in Link : down'[k] = IF k = node /\ link[k] = "open" THEN down[k] \o F ELSE down[k]
    <3>1. node \in Link /\ <<>> \in Seq(UpFrame)
      BY <1>0, Sets, Items DEF TypeOK
    <3> QED
      BY <1>0, <3>1, Sending
  <2>2. \A k \in Link : down'[k] # <<>> => agent = k \/ down[k] # <<>>
    BY <1>0, <2>1 DEF LinksAgree
  <2> QED
    BY <1>0, <2>2, LinksStay
<1>5. ChannelsAgree'
  <2>1. Holders' = Holders \cup {w}
    BY <1>1, <1>2, Sets DEF Holders
  <2>2. channelSeq' = Cardinality(Holders')
    BY <1>1, <1>2, <2>1
  <2>3. up'
    BY <1>0 DEF LinksAgree
  <2>4. \A v \in Whose : Chan(v)' <= channelSeq' /\ (Idle(v)' => Chan(v)' = 0 /\ ~Started(v)')
    <3>1. channelSeq \in Nat /\ channelSeq' = channelSeq + 1
      BY <1>0, <1>2, Sets DEF NextChannel, TypeOK
    <3>2. \A v \in Whose : Chan(v) \in Nat
      BY <1>0, PartyTypes, Sets
    <3>3. \A v \in Whose : Chan(v) <= channelSeq /\ (Idle(v) => Chan(v) = 0 /\ ~Started(v))
      BY <1>0 DEF ChannelsAgree
    <3>4. \A v \in Whose : Chan(v)' <= channelSeq'
      BY <1>2, <3>1, <3>2, <3>3
    <3> QED
      BY <1>2, <1>3, <3>3, <3>4 DEF AskKeeps
  <2>5. \A u, v \in Whose : Chan(u)' = Chan(v)' /\ Chan(u)' # 0 => u = v
    BY <1>0, <1>1, <1>2 DEF ChannelsAgree
  <2>6. \A c \in Channel, q \in Request : streams'[c] = q => Chan(q)' = c /\ response'[q].st = "waiting"
    BY <1>0, <1>2, Sets DEF ChannelsAgree
  <2>7. \A c \in Channel, b \in Browser : wsChannels'[c] = b => Chan(b)' = c /\ browser'[b].st = "open"
    BY <1>0, <1>2, Sets DEF ChannelsAgree
  <2> QED
    BY <2>2, <2>3, <2>4, <2>5, <2>6, <2>7 DEF ChannelsAgree
<1>6. DshAgrees'
  <2>1. ~Started(w)
    BY <1>0 DEF ChannelsAgree
  <2>2. ASSUME NEW v \in Whose, Started(v)'
        PROVE  /\ BootOf(v)' <= boots' /\ On(v)' \in Channel
               /\ Via(v)' \in Link /\ link'[Via(v)'] # "unused" /\ (Current(v)' \/ Past(v)')
    <3>1. Started(v) /\ v # w /\ AskKeeps(v)
      BY <1>3, <2>1, <2>2 DEF AskKeeps
    <3>2. /\ BootOf(v) <= boots /\ On(v) \in Channel
          /\ Via(v) \in Link /\ link[Via(v)] # "unused" /\ (Current(v) \/ Past(v))
      BY <1>0, <3>1 DEF DshAgrees
    <3> QED
      BY <1>2, <3>1, <3>2 DEF AskKeeps, Current, Past
  <2> QED
    BY <1>0, <1>3, <2>2, Sets DEF DshAgrees, AskKeeps
<1> QED
  BY <1>4, <1>5, <1>6 DEF Attached

LEMMA RelayAttached ==
  ASSUME IInv, NEW q \in Request, Relay(q) PROVE Attached'
<1>0. TypeOK /\ LinksAgree /\ ChannelsAgree /\ DshAgrees
  BY Attachments
<1>1. /\ Allocates(q) /\ RequestFrames(q, NextChannel) \in Seq(DownFrame)
      /\ streams' = [streams EXCEPT ![NextChannel] = q]
      /\ down' = Down(RequestFrames(q, NextChannel)) /\ response'[q].st = "waiting"
      /\ \A p \in Request : p # q => response'[p] = response[p]
  BY <1>0, RelayDoes
<1>2. /\ UNCHANGED <<up, boots, node, agent, link, toGateway, pendingBodies, wsUpstreams, upstream,
                     wsChannels, browser>>
      /\ node # 0 /\ Idle(q)
  BY DEF Relay, tables, dsh, Idle
<1>3. /\ \A c \in Channel : streams'[c] = IF c = NextChannel THEN q ELSE streams[c]
      /\ \A c \in Channel : streams[c] = q => response[q].st = "waiting"
  BY <1>0, <1>1 DEF TypeOK, ChannelsAgree
<1>4. q \in Whose /\ q \notin Browser /\ response[q].st = "idle"
  BY Sets DEF Relay
<1> QED
  BY <1>1, <1>2, <1>3, <1>4, AllocatesAttached

LEMMA BrowserOpensAttached ==
  ASSUME IInv, NEW b \in Browser, BrowserOpens(b) PROVE Attached'
<1>0. TypeOK /\ LinksAgree /\ ChannelsAgree /\ DshAgrees
  BY Attachments
<1>1. /\ Allocates(b) /\ <<Frame("open", NextChannel, <<b>>)>> \in Seq(DownFrame)
      /\ wsChannels' = [wsChannels EXCEPT ![NextChannel] = b]
      /\ down' = Down(<<Frame("open", NextChannel, <<b>>)>>) /\ browser'[b].st = "open"
      /\ \A v \in Browser : v # b => browser'[v] = browser[v]
  BY <1>0, BrowserOpensDoes
<1>2. /\ UNCHANGED <<up, boots, node, agent, link, toGateway, pendingBodies, wsUpstreams, upstream,
                     streams, response>>
      /\ node # 0 /\ browser[b].st = "idle"
  BY DEF BrowserOpens, tables, dsh
<1>3. /\ \A c \in Channel : wsChannels'[c] = IF c = NextChannel THEN b ELSE wsChannels[c]
      /\ \A c \in Channel : wsChannels[c] = b => browser[b].st = "open"
  BY <1>0, <1>1 DEF TypeOK, ChannelsAgree
<1>4. b \in Whose /\ b \notin Request /\ Idle(b)
  BY <1>2, Sets DEF Idle
<1>5. \A c \in Channel, v \in Browser :
        wsChannels'[c] = v => IF v = b THEN c = NextChannel /\ browser'[v].st = "open"
                              ELSE wsChannels[c] = v /\ browser'[v].st = browser[v].st
  BY <1>1, <1>2, <1>3
<1>6. \A c \in Channel, q \in Request :
        streams'[c] = q => IF q = b THEN c = NextChannel /\ response'[q].st = "waiting"
                           ELSE streams[c] = q /\ response'[q].st = response[q].st
  BY <1>2, <1>4
<1> DEFINE F == <<Frame("open", NextChannel, <<b>>)>>
<1>7. F \in Seq(DownFrame) /\ down' = Down(F)
  BY <1>1
<1>8. Allocates(b)
  BY <1>1
<1> HIDE DEF F
<1> QED
  BY <1>2, <1>4, <1>5, <1>6, <1>7, <1>8, AllocatesAttached

(* Steps of the gateway that give no channel away, and only put frames on its link. *)
LEMMA TakesAttached ==
  ASSUME IInv, UNCHANGED <<up, boots, channelSeq, node, agent, link, pendingBodies, wsUpstreams, upstream>>,
         \A w \in Whose : CallerKeeps(w) /\ DshKeeps(w),
         \A k \in Link : down'[k] # <<>> => agent = k \/ down[k] # <<>>,
         \A k \in Link : toGateway'[k] # <<>> => toGateway[k] # <<>>,
         \A c \in Channel, q \in Request :
           streams'[c] = q => streams[c] = q /\ response'[q].st = response[q].st,
         \A c \in Channel, b \in Browser :
           wsChannels'[c] = b => wsChannels[c] = b /\ browser'[b].st = browser[b].st
  PROVE  Attached'
<1>0. TypeOK /\ LinksAgree /\ ChannelsAgree /\ DshAgrees
  BY Attachments
<1>1. \A w \in Whose : Chan(w)' = Chan(w) /\ (Idle(w)' => Idle(w)) /\ Started(w)' = Started(w) /\ AskKeeps(w)
  BY <1>0, SameAsks DEF CallerKeeps, DshKeeps
<1>2. LinksAgree'
  BY <1>0, LinksStay
<1>3. ChannelsAgree'
  BY <1>0, <1>1, ChannelsStay
<1>4. DshAgrees'
  BY <1>0, <1>1, DshStays
<1> QED
  BY <1>2, <1>3, <1>4 DEF Attached

(* What the gateway sends is for the agent's link.                              *)
LEMMA SentDown ==
  ASSUME IInv, NEW F \in Seq(DownFrame), down' = Down(F)
  PROVE  /\ \A k \in Link : \/ down'[k] = down[k]
                            \/ k = agent /\ k = node /\ link[k] = "open" /\ down'[k] = down[k] \o F
         /\ \A k \in Link : down'[k] # <<>> => agent = k \/ down[k] # <<>>
         /\ agent \in Link => down'[agent] = down[agent] \o F
<1>0. TypeOK /\ LinksAgree
  BY Attachments
<1>1. CASE Link = {}
  BY <1>1
<1>2. CASE Link # {}
  <2>1. PICK j \in Link : TRUE
    BY <1>2
  <2>2. <<>> \in Seq(UpFrame)
    BY Items
  <2>3. \A k \in Link : down'[k] = IF k = node /\ link[k] = "open" THEN down[k] \o F ELSE down[k]
    BY <1>0, <2>1, <2>2, Sending
  <2>4. \A k \in Link : link[k] = "open" => agent = k
    BY <1>0 DEF LinksAgree
  <2>5. agent \in Link => link[agent] = "open" /\ node = agent
    BY <1>0, Sets DEF LinksAgree
  <2> QED
    BY <2>3, <2>4, <2>5
<1> QED
  BY <1>1, <1>2

LEMMA BrowserSendsAttached ==
  ASSUME IInv, NEW b \in Browser, NEW c \in Channel, BrowserSends(b, c) PROVE Attached'
<1>0. TypeOK
  BY Attachments
<1> DEFINE F == <<Frame("data", c, <<b, browser[b].n + 1>>)>>
<1>1. /\ F \in Seq(DownFrame) /\ down' = Down(F)
      /\ browser'[b].st = browser[b].st
      /\ \A v \in Browser : v # b => browser'[v] = browser[v]
      /\ \A w \in Whose : CallerKeeps(w) /\ DshKeeps(w)
  BY <1>0, BrowserSendsDoes
<1> HIDE DEF F
<1>2. UNCHANGED <<up, boots, channelSeq, node, agent, link, pendingBodies, wsUpstreams, upstream,
                  streams, response, wsChannels, toGateway>>
  BY DEF BrowserSends, tables, dsh, gateway
<1>3. \A k \in Link : down'[k] # <<>> => agent = k \/ down[k] # <<>>
  BY <1>1, SentDown
<1>4. \A v \in Browser : browser'[v].st = browser[v].st
  BY <1>1
<1> QED
  BY <1>1, <1>2, <1>3, <1>4, TakesAttached

LEMMA BrowserClosesAttached ==
  ASSUME IInv, NEW b \in Browser, NEW c \in Channel, BrowserCloses(b, c) PROVE Attached'
<1>0. TypeOK /\ ChannelsAgree
  BY Attachments
<1> DEFINE F == <<Frame("close", c, <<>>)>>
<1>1. /\ F \in Seq(DownFrame) /\ down' = Down(F)
      /\ \A v \in Browser : v # b => browser'[v] = browser[v]
      /\ \A w \in Whose : CallerKeeps(w) /\ DshKeeps(w)
  BY <1>0, BrowserClosesDoes
<1> HIDE DEF F
<1>2. /\ UNCHANGED <<up, boots, channelSeq, node, agent, link, pendingBodies, wsUpstreams, upstream,
                     streams, response, toGateway>>
      /\ wsChannels' = [wsChannels EXCEPT ![c] = Nobody] /\ wsChannels[c] = b
  BY DEF BrowserCloses, tables, dsh, gateway
<1>3. \A k \in Link : down'[k] # <<>> => agent = k \/ down[k] # <<>>
  BY <1>1, SentDown
<1>4. \A d \in Channel : wsChannels[d] = b => d = c
  BY <1>0, <1>2 DEF ChannelsAgree
<1>5. \A d \in Channel : wsChannels'[d] = IF d = c THEN Nobody ELSE wsChannels[d]
  BY <1>0, <1>2 DEF TypeOK
<1>6. \A d \in Channel, v \in Browser :
        wsChannels'[d] = v => wsChannels[d] = v /\ browser'[v].st = browser[v].st
  BY <1>1, <1>4, <1>5, Sets
<1> QED
  BY <1>1, <1>2, <1>3, <1>6, TakesAttached

LEMMA RelayTimeoutAttached ==
  ASSUME IInv, NEW c \in Channel, RelayTimeout(c) PROVE Attached'
<1>0. TypeOK /\ ChannelsAgree
  BY Attachments
<1>1. PICK q \in Request : q = streams[c]
  BY <1>0, RelayTimeoutDoes
<1>2. /\ \A p \in Request : p # q => response'[p] = response[p]
      /\ \A w \in Whose : CallerKeeps(w) /\ DshKeeps(w)
  BY <1>0, <1>1, RelayTimeoutDoes
<1>3. /\ UNCHANGED <<up, boots, channelSeq, node, agent, link, pendingBodies, wsUpstreams, upstream,
                     wsChannels, browser, down, toGateway>>
      /\ streams' = [streams EXCEPT ![c] = Nobody]
  BY DEF RelayTimeout, tables, dsh, frames
<1>4. \A d \in Channel : streams[d] = q => d = c
  BY <1>0, <1>1 DEF ChannelsAgree
<1>5. \A d \in Channel : streams'[d] = IF d = c THEN Nobody ELSE streams[d]
  BY <1>0, <1>3 DEF TypeOK
<1>6. \A d \in Channel, p \in Request :
        streams'[d] = p => streams[d] = p /\ response'[p].st = response[p].st
  BY <1>2, <1>4, <1>5, Sets
<1> QED
  BY <1>2, <1>3, <1>6, TakesAttached

LEMMA GatewayReadsAttached ==
  ASSUME IInv, NEW k \in Link, GatewayReads(k) PROVE Attached'
<1>0. TypeOK /\ ChannelsAgree
  BY Attachments
<1>1. PICK f \in UpFrame :
        /\ Hearing(k, f)
        /\ \/ streams[f.channel] # Nobody /\ StreamFrame(f, streams[f.channel])
           \/ wsChannels[f.channel] # Nobody /\ BrowserFrame(f, wsChannels[f.channel])
           \/ /\ streams[f.channel] = Nobody /\ wsChannels[f.channel] = Nobody
              /\ UNCHANGED <<streams, wsChannels, callers>>
  BY <1>0, HearingDoes
<1>2. /\ UNCHANGED <<up, boots, channelSeq, node, agent, link, down, pendingBodies, wsUpstreams, upstream>>
      /\ \A j \in Link : toGateway'[j] # <<>> => toGateway[j] # <<>>
  BY <1>1 DEF Hearing, tables, dsh
<1>3. f.channel \in Channel /\ f.type \in {"response", "data", "end", "close"}
  BY UpFrames
<1>4. CASE UNCHANGED <<streams, wsChannels, callers>>
  <2>1. \A w \in Whose : CallerKeeps(w) /\ DshKeeps(w)
    BY <1>0, <1>1, <1>4, HearingNothing
  <2> QED
    BY <1>2, <1>4, <2>1, TakesAttached DEF callers
<1>5. CASE streams[f.channel] # Nobody /\ StreamFrame(f, streams[f.channel])
  <2>1. PICK q \in Request : q = streams[f.channel]
    BY <1>0, <1>3, <1>5 DEF TypeOK
  <2>2. /\ UNCHANGED <<wsChannels, browser>> /\ response'[q].channel = response[q].channel
        /\ \A p \in Request : p # q => response'[p] = response[p]
        /\ \/ f.type # "end" /\ UNCHANGED streams /\ response'[q].st = response[q].st
           \/ streams' = [streams EXCEPT ![f.channel] = Nobody] /\ response'[q].st = "ended"
        /\ \A w \in Whose : DshKeeps(w) /\ (w # q => CallerKeeps(w))
    BY <1>0, <1>1, <1>3, <1>5, <2>1, StreamFrameDoes
  <2>3. Chan(q)' = Chan(q) /\ ~Idle(q)'
    <3>1. response[q].st = "waiting"
      BY <1>0, <1>3, <2>1 DEF ChannelsAgree
    <3> QED
      BY <2>2, <3>1 DEF Chan, Idle
  <2>4. \A d \in Channel : streams[d] = q => d = f.channel
    BY <1>0, <1>3, <2>1 DEF ChannelsAgree
  <2>5. \A d \in Channel, p \in Request :
          streams'[d] = p => streams[d] = p /\ response'[p].st = response[p].st
    <3>1. CASE UNCHANGED streams /\ response'[q].st = response[q].st
      BY <2>2, <3>1
    <3>2. CASE streams' = [streams EXCEPT ![f.channel] = Nobody]
      <4>1. \A d \in Channel : streams'[d] = IF d = f.channel THEN Nobody ELSE streams[d]
        BY <1>0, <3>2 DEF TypeOK
      <4> QED
        BY <2>2, <2>4, <4>1, Sets
    <3> QED
      BY <2>2, <3>1, <3>2
  <2>6. DshAgrees /\ LinksAgree
    BY Attachments
  <2>7. \A w \in Whose : Chan(w)' = Chan(w) /\ (Idle(w)' => Idle(w)) /\ Started(w)' = Started(w) /\ AskKeeps(w)
    BY <1>0, <2>2, <2>3, SameAsks DEF CallerKeeps, DshKeeps
  <2>8. ChannelsAgree'
    BY <1>0, <1>2, <2>2, <2>5, <2>7, ChannelsStay
  <2>9. DshAgrees'
    BY <1>2, <2>6, <2>7, DshStays
  <2>10. LinksAgree'
    BY <1>2, <2>6, LinksStay
  <2> QED
    BY <2>8, <2>9, <2>10 DEF Attached
<1>6. CASE wsChannels[f.channel] # Nobody /\ BrowserFrame(f, wsChannels[f.channel])
  <2>1. PICK b \in Browser : b = wsChannels[f.channel]
    BY <1>0, <1>3, <1>6 DEF TypeOK
  <2>2. /\ UNCHANGED <<streams, response>> /\ browser'[b].channel = browser[b].channel
        /\ \A v \in Browser : v # b => browser'[v] = browser[v]
        /\ \/ UNCHANGED wsChannels /\ browser'[b].st = browser[b].st
           \/ wsChannels' = [wsChannels EXCEPT ![f.channel] = Nobody] /\ browser'[b].st = "closed"
        /\ \A w \in Whose : DshKeeps(w) /\ (w # b => CallerKeeps(w))
    BY <1>0, <1>1, <1>6, <2>1, BrowserFrameDoes
  <2>3. Chan(b)' = Chan(b) /\ ~Idle(b)'
    <3>1. browser[b].st = "open" /\ b \notin Request
      BY <1>0, <1>3, <2>1, Sets DEF ChannelsAgree
    <3> QED
      BY <2>2, <3>1 DEF Chan, Idle
  <2>4. \A d \in Channel : wsChannels[d] = b => d = f.channel
    BY <1>0, <1>3, <2>1 DEF ChannelsAgree
  <2>5. \A d \in Channel, v \in Browser :
          wsChannels'[d] = v => wsChannels[d] = v /\ browser'[v].st = browser[v].st
    <3>1. CASE UNCHANGED wsChannels /\ browser'[b].st = browser[b].st
      BY <2>2, <3>1
    <3>2. CASE wsChannels' = [wsChannels EXCEPT ![f.channel] = Nobody]
      <4>1. \A d \in Channel : wsChannels'[d] = IF d = f.channel THEN Nobody ELSE wsChannels[d]
        BY <1>0, <3>2 DEF TypeOK
      <4> QED
        BY <2>2, <2>4, <4>1, Sets
    <3> QED
      BY <2>2, <3>1, <3>2
  <2>6. DshAgrees /\ LinksAgree
    BY Attachments
  <2>7. \A w \in Whose : Chan(w)' = Chan(w) /\ (Idle(w)' => Idle(w)) /\ Started(w)' = Started(w) /\ AskKeeps(w)
    BY <1>0, <2>2, <2>3, SameAsks DEF CallerKeeps, DshKeeps
  <2>8. ChannelsAgree'
    BY <1>0, <1>2, <2>2, <2>5, <2>7, ChannelsStay
  <2>9. DshAgrees'
    BY <1>2, <2>6, <2>7, DshStays
  <2>10. LinksAgree'
    BY <1>2, <2>6, LinksStay
  <2> QED
    BY <2>8, <2>9, <2>10 DEF Attached
<1> QED
  BY <1>1, <1>4, <1>5, <1>6

(* The agent and dsh: nothing changes for the callers.                          *)
LEMMA DshSideAttached ==
  ASSUME IInv, UNCHANGED <<gateway, callers, link, agent>>,
         \A w \in Whose : CallerKeeps(w) /\ Idle(w)' = Idle(w),
         \A k \in Link : down'[k] # <<>> => down[k] # <<>>,
         \A k \in Link : toGateway'[k] # <<>> => link[k] = "open" \/ toGateway[k] # <<>>,
         \A w \in Whose : AskKeeps(w),
         \A c \in Channel, q \in Request :
           pendingBodies'[c] = q => pendingBodies[c] = q /\ upstream'[q].st = upstream[q].st,
         \A c \in Channel, b \in Browser : wsUpstreams'[c] = b => wsUpstreams[c] = b
  PROVE  Attached'
<1>0. TypeOK /\ LinksAgree /\ ChannelsAgree /\ DshAgrees
  BY Attachments
<1>1. /\ \A w \in Whose : Chan(w)' = Chan(w) /\ (Idle(w)' => Idle(w)) /\ Started(w)' = Started(w)
      /\ UNCHANGED <<up, boots, node, channelSeq, streams, wsChannels, response, browser>>
  BY <1>0 DEF CallerKeeps, AskKeeps, gateway, callers
<1>2. LinksAgree'
  BY <1>0, <1>1, LinksStay
<1>3. ChannelsAgree'
  BY <1>0, <1>1, ChannelsStay
<1>4. DshAgrees'
  BY <1>0, <1>1, DshStays
<1> QED
  BY <1>2, <1>3, <1>4 DEF Attached

(* The party w is started, on its channel and on the agent's link.                *)
LEMMA StartsAttached ==
  ASSUME IInv, UNCHANGED <<gateway, callers, link, agent, toGateway>>, agent \in Link,
         NEW w \in Whose, ~Started(w), Chan(w) \in Channel,
         Started(w)', On(w)' = Chan(w), Via(w)' = agent, BootOf(w)' = boots,
         \A v \in Whose : v # w => DshKeeps(v),
         \A k \in Link : down'[k] # <<>> => down[k] # <<>>,
         \A v \in Whose : CallerKeeps(v) /\ Idle(v)' = Idle(v),
         \A c \in Channel, q \in Request : pendingBodies'[c] = q =>
           IF q = w THEN c = Chan(w) /\ q \in WithBody /\ upstream'[q].st = "awaiting"
           ELSE pendingBodies[c] = q /\ upstream'[q].st = upstream[q].st,
         \A c \in Channel, b \in Browser : wsUpstreams'[c] = b =>
           IF b = w THEN c = Chan(w) ELSE wsUpstreams[c] = b
  PROVE  Attached'
<1>0. TypeOK /\ LinksAgree /\ ChannelsAgree /\ DshAgrees
  BY Attachments
<1>1. /\ UNCHANGED <<up, boots, node, channelSeq, streams, wsChannels, response, browser>>
      /\ \A v \in Whose : Chan(v)' = Chan(v) /\ (Idle(v)' => Idle(v))
      /\ \A v \in Whose : v # w => AskKeeps(v)
  BY <1>0, SameAsks DEF gateway, callers, CallerKeeps
<1>2. LinksAgree'
  BY <1>0, <1>1, LinksStay
<1>3. ~Idle(w) /\ up /\ link[agent] = "open" /\ boots \in Nat
  BY <1>0, Sets DEF ChannelsAgree, LinksAgree, TypeOK
<1>4. ChannelsAgree'
  <2>1. \A v \in Whose : Idle(v)' => Started(v)' = Started(v)
    BY <1>1, <1>3 DEF AskKeeps
  <2> QED
    BY <1>0, <1>1, <2>1, ChannelsStay
<1>5. DshAgrees'
  <2>1. ASSUME NEW v \in Whose, Started(v)'
        PROVE  /\ BootOf(v)' <= boots' /\ On(v)' \in Channel
               /\ Via(v)' \in Link /\ link'[Via(v)'] # "unused" /\ (Current(v)' \/ Past(v)')
    <3>1. CASE v = w
      BY <1>1, <1>3, <3>1 DEF Current
    <3>2. CASE v # w
      <4>1. /\ BootOf(v) <= boots /\ On(v) \in Channel
            /\ Via(v) \in Link /\ link[Via(v)] # "unused" /\ (Current(v) \/ Past(v))
        BY <1>0, <1>1, <2>1, <3>2 DEF DshAgrees, AskKeeps
      <4> QED
        BY <1>1, <3>2, <4>1 DEF AskKeeps, Current, Past
    <3> QED
      BY <3>1, <3>2
  <2>2. \A c \in Channel, q \in Request : pendingBodies'[c] = q =>
          q \in WithBody /\ upstream'[q].st = "awaiting" /\ On(q)' = c
    BY <1>0, <1>1, Sets DEF DshAgrees, AskKeeps
  <2>3. \A c \in Channel, b \in Browser : wsUpstreams'[c] = b => Started(b)' /\ On(b)' = c
    BY <1>0, <1>1, Sets DEF DshAgrees, AskKeeps
  <2> QED
    BY <2>1, <2>2, <2>3 DEF DshAgrees
<1> QED
  BY <1>2, <1>4, <1>5 DEF Attached

(* The frame that is read has an owner.                                        *)
LEMMA ReadIsOf ==
  ASSUME IInv, NEW f \in DownFrame, Reading(f)
  PROVE  /\ f.channel \in Channel /\ agent \in Link /\ f \in In(down[agent])
         /\ \A k \in Link : down'[k] # <<>> => down[k] # <<>>
         /\ \E w \in Whose : DownIsOf(w, f)
         /\ \A w \in Whose : f.channel = Chan(w) => DownIsOf(w, f)
<1>1. f.channel \in Channel /\ agent \in Link
  BY DownFrames DEF Reading
<1>2. down[agent] \in Seq(DownFrame) /\ down[agent] # <<>> /\ f = Head(down[agent])
  BY <1>1, Attachments, Parts DEF Reading
<1>3. f \in In(down[agent])
  BY <1>2, InAfter
<1>4. \A k \in Link : down'[k] # <<>> => down[k] # <<>>
  BY <1>2 DEF Reading
<1> QED
  BY <1>1, <1>3, <1>4, OwnerOf

LEMMA OnRequestAttached ==
  ASSUME IInv, NEW f \in DownFrame, Reading(f), f.type = "request", OnRequest(f.data[1], f.channel)
  PROVE  Attached'
<1>0. TypeOK /\ ChannelsAgree /\ DshAgrees
  BY Attachments
<1> DEFINE q == f.data[1] c == f.channel
<1>1. /\ q \in Request /\ c \in Channel /\ f.data = <<q>>
      /\ pendingBodies' = IF q \in WithBody THEN [pendingBodies EXCEPT ![c] = q] ELSE pendingBodies
      /\ upstream'[q] = Asked(q, c) /\ \A p \in Request : p # q => upstream'[p] = upstream[p]
      /\ UNCHANGED <<wsUpstreams, socket>>
      /\ \A w \in Whose : CallerKeeps(w) /\ Idle(w)' = Idle(w) /\ (w # q => DshKeeps(w))
  BY <1>0, OnRequestDoes
<1>2. /\ UNCHANGED <<gateway, callers, link, agent, toGateway>> /\ agent \in Link
      /\ \A k \in Link : down'[k] # <<>> => down[k] # <<>>
  BY ReadIsOf DEF Reading
<1>3. q \in Whose /\ Chan(q) = c /\ ~Started(q)
  <2>1. PICK w \in Whose : DownIsOf(w, f)
    BY ReadIsOf
  <2>2. f.data = <<w>> /\ c = Chan(w) /\ ~Started(w)
    BY <2>1 DEF DownIsOf
  <2>3. w = q
    BY <2>2
  <2> QED
    BY <2>2, <2>3
<1>4. /\ Started(q)' /\ On(q)' = c /\ Via(q)' = agent /\ BootOf(q)' = boots
      /\ upstream'[q].st = IF q \in WithBody THEN "awaiting" ELSE "sent"
  <2>1. agent \in 0 .. MaxLinks /\ boots \in 0 .. MaxBoots
    BY <1>0 DEF TypeOK
  <2> DEFINE s == Asked(q, c)
  <2>2. /\ s.channel = c /\ s.link = agent /\ s.boot = boots
        /\ s.st = IF q \in WithBody THEN "awaiting" ELSE "sent"
    BY <1>1, <2>1, AskedIs
  <2>3. upstream'[q] = s
    BY <1>1
  <2> HIDE DEF s, q, c
  <2> QED
    BY <1>1, <2>2, <2>3 DEF Started, On, Via, BootOf
<1>5. \A d \in Channel, p \in Request : pendingBodies'[d] = p =>
        IF p = q THEN d = Chan(q) /\ p \in WithBody /\ upstream'[p].st = "awaiting"
        ELSE pendingBodies[d] = p /\ upstream'[p].st = upstream[p].st
  <2>1. \A d \in Channel : pendingBodies[d] # q
    BY <1>0, <1>1, <1>3 DEF DshAgrees, Started
  <2>2. \A d \in Channel : pendingBodies'[d] =
          IF q \in WithBody /\ d = c THEN q ELSE pendingBodies[d]
    BY <1>0, <1>1 DEF TypeOK
  <2> HIDE DEF q, c
  <2> QED
    BY <1>1, <1>3, <1>4, <2>1, <2>2
<1> HIDE DEF q, c
<1> QED
  BY <1>1, <1>2, <1>3, <1>4, <1>5, Sets, StartsAttached

LEMMA OnOpenAttached ==
  ASSUME IInv, NEW f \in DownFrame, Reading(f), f.type = "open", OnOpen(f.data[1], f.channel)
  PROVE  Attached'
<1>0. TypeOK /\ ChannelsAgree /\ DshAgrees
  BY Attachments
<1> DEFINE b == f.data[1] c == f.channel
<1>1. /\ b \in Browser /\ c \in Channel /\ f.data = <<b>>
      /\ wsUpstreams' = [wsUpstreams EXCEPT ![c] = b]
      /\ socket'[b] = Opened(c) /\ \A v \in Browser : v # b => socket'[v] = socket[v]
      /\ UNCHANGED <<pendingBodies, upstream>>
      /\ \A w \in Whose : CallerKeeps(w) /\ Idle(w)' = Idle(w) /\ (w # b => DshKeeps(w))
  BY <1>0, OnOpenDoes
<1>2. /\ UNCHANGED <<gateway, callers, link, agent, toGateway>> /\ agent \in Link
      /\ \A k \in Link : down'[k] # <<>> => down[k] # <<>>
  BY ReadIsOf DEF Reading
<1>3. b \in Whose /\ b \notin Request /\ Chan(b) = c /\ ~Started(b)
  <2>1. PICK w \in Whose : DownIsOf(w, f)
    BY ReadIsOf
  <2>2. f.data = <<w>> /\ c = Chan(w) /\ ~Started(w)
    BY <2>1 DEF DownIsOf
  <2>3. w = b
    BY <2>2
  <2> QED
    BY <1>1, <2>2, <2>3, Sets
<1>4. Started(b)' /\ On(b)' = c /\ Via(b)' = agent /\ BootOf(b)' = boots
  <2>1. agent \in 0 .. MaxLinks /\ boots \in 0 .. MaxBoots
    BY <1>0 DEF TypeOK
  <2> DEFINE s == Opened(c)
  <2>2. s.channel = c /\ s.link = agent /\ s.boot = boots /\ s.st = "connecting"
    BY <1>1, <2>1, OpenedIs
  <2>3. socket'[b] = s
    BY <1>1
  <2> HIDE DEF s, b, c
  <2> QED
    BY <1>1, <1>3, <2>2, <2>3 DEF Started, On, Via, BootOf
<1>5. \A d \in Channel, v \in Browser : wsUpstreams'[d] = v =>
        IF v = b THEN d = Chan(b) ELSE wsUpstreams[d] = v
  <2>1. \A d \in Channel : wsUpstreams[d] # b
    BY <1>0, <1>1, <1>3 DEF DshAgrees
  <2>2. \A d \in Channel : wsUpstreams'[d] = IF d = c THEN b ELSE wsUpstreams[d]
    BY <1>0, <1>1 DEF TypeOK
  <2> HIDE DEF b, c
  <2> QED
    BY <1>3, <2>1, <2>2
<1>6. \A d \in Channel, p \in Request : pendingBodies'[d] = p =>
        IF p = b THEN d = Chan(b) /\ p \in WithBody /\ upstream'[p].st = "awaiting"
        ELSE pendingBodies[d] = p /\ upstream'[p].st = upstream[p].st
  BY <1>1, <1>3
<1> HIDE DEF b, c
<1> QED
  BY <1>1, <1>2, <1>3, <1>4, <1>5, <1>6, Sets, StartsAttached

LEMMA OnDataAttached ==
  ASSUME IInv, NEW f \in DownFrame, Reading(f), f.type = "data", OnData(f.channel, f.data)
  PROVE  Attached'
<1>0. TypeOK /\ ChannelsAgree /\ DshAgrees /\ \A b \in Browser : socket[b].st = "open" => socket[b].queue = <<>>
  BY Attachments
<1> DEFINE c == f.channel x == f.data
<1>1. /\ c \in Channel /\ x \in Item /\ UNCHANGED wsUpstreams
      /\ \/ /\ wsUpstreams[c] \in Browser
            /\ socket'[wsUpstreams[c]] = Delivered(socket[wsUpstreams[c]], x)
            /\ \A v \in Browser : v # wsUpstreams[c] => socket'[v] = socket[v]
            /\ UNCHANGED <<pendingBodies, upstream>>
         \/ /\ wsUpstreams[c] = Nobody /\ pendingBodies[c] \in Request
            /\ upstream'[pendingBodies[c]] =
                 [upstream[pendingBodies[c]] EXCEPT !.st = "sent", !.body = x]
            /\ \A p \in Request : p # pendingBodies[c] => upstream'[p] = upstream[p]
            /\ pendingBodies' = [pendingBodies EXCEPT ![c] = Nobody] /\ UNCHANGED socket
         \/ wsUpstreams[c] = Nobody /\ UNCHANGED <<pendingBodies, upstream, socket>>
      /\ \A w \in Whose : CallerKeeps(w) /\ Idle(w)' = Idle(w)
  BY <1>0, OnDataDoes
<1>2. /\ UNCHANGED <<gateway, callers, link, agent, toGateway>> /\ agent \in Link
      /\ \A k \in Link : down'[k] # <<>> => down[k] # <<>>
  BY ReadIsOf DEF Reading
<1> HIDE DEF c, x
<1>3. CASE wsUpstreams[c] \in Browser /\ UNCHANGED <<pendingBodies, upstream>>
           /\ socket'[wsUpstreams[c]] = Delivered(socket[wsUpstreams[c]], x)
           /\ \A v \in Browser : v # wsUpstreams[c] => socket'[v] = socket[v]
  <2>1. PICK b \in Browser : b = wsUpstreams[c]
    BY <1>3
  <2> DEFINE s == Delivered(socket[b], x)
  <2>2. socket[b] \in SocketRecord /\ (socket[b].st = "open" => socket[b].queue = <<>>)
    BY <1>0, Parts
  <2>3. SameAsk(socket[b], s) /\ s.st = socket[b].st
    BY <1>1, <2>2, DeliveredIs
  <2>4. socket'[b] = s
    BY <1>3, <2>1
  <2> HIDE DEF s
  <2>5. AskKeeps(b)
    BY <1>0, <2>3, <2>4, SameAsks
  <2>6. \A w \in Whose : AskKeeps(w)
    <3>1. \A v \in Browser : v # b => DshKeeps(v)
      BY <1>3, <2>1, SameParties
    <3>2. \A q \in Request : DshKeeps(q)
      BY <1>3, SameParties
    <3> QED
      BY <1>0, <2>5, <3>1, <3>2, SameAsks DEF Whose
  <2> QED
    BY <1>1, <1>2, <1>3, <2>6, DshSideAttached
<1>4. CASE /\ wsUpstreams[c] = Nobody /\ pendingBodies[c] \in Request
           /\ upstream'[pendingBodies[c]] =
                 [upstream[pendingBodies[c]] EXCEPT !.st = "sent", !.body = x]
           /\ \A p \in Request : p # pendingBodies[c] => upstream'[p] = upstream[p]
           /\ pendingBodies' = [pendingBodies EXCEPT ![c] = Nobody] /\ UNCHANGED socket
  <2>1. PICK q \in Request : q = pendingBodies[c]
    BY <1>4
  <2> DEFINE s == [upstream[q] EXCEPT !.st = "sent", !.body = x]
  <2>2. SameAsk(upstream[q], s) /\ s.st = "sent"
    <3>1. upstream[q] \in UpstreamRecord
      BY <1>0, Parts
    <3>2. \A r \in UpstreamRecord : LET t == [r EXCEPT !.st = "sent", !.body = x] IN
            SameAsk(r, t) /\ t.st = "sent"
      BY <1>1, Upstreams
    <3> QED
      BY <3>1, <3>2
  <2>3. upstream'[q] = s
    BY <1>4, <2>1
  <2> HIDE DEF s
  <2>4. upstream[q].st = "awaiting" /\ On(q) = c
    BY <1>0, <1>1, <2>1 DEF DshAgrees
  <2>5. AskKeeps(q)
    BY <1>0, <2>2, <2>3, <2>4, SameAsks
  <2>6. \A w \in Whose : AskKeeps(w)
    <3>1. \A p \in Request : p # q => DshKeeps(p)
      BY <1>4, <2>1, SameParties
    <3>2. \A b \in Browser : DshKeeps(b)
      BY <1>4, SameParties
    <3> QED
      BY <1>0, <2>5, <3>1, <3>2, SameAsks DEF Whose
  <2>7. \A d \in Channel, p \in Request :
          pendingBodies'[d] = p => pendingBodies[d] = p /\ upstream'[p].st = upstream[p].st
    <3>1. \A d \in Channel : pendingBodies'[d] = IF d = c THEN Nobody ELSE pendingBodies[d]
      BY <1>0, <1>4 DEF TypeOK
    <3>2. \A d \in Channel : pendingBodies[d] = q => d = c
      BY <1>0, <2>4 DEF DshAgrees
    <3> QED
      BY <1>4, <2>1, <3>1, <3>2, Sets
  <2> QED
    BY <1>1, <1>2, <2>6, <2>7, DshSideAttached
<1>5. CASE UNCHANGED <<pendingBodies, upstream, socket>>
  <2>1. UNCHANGED dsh
    BY <1>5 DEF dsh
  <2>2. \A w \in Whose : AskKeeps(w)
    BY <1>0, <2>1, SameAsks, SameParties
  <2> QED
    BY <1>1, <1>2, <1>5, <2>2, DshSideAttached
<1> QED
  BY <1>1, <1>3, <1>4, <1>5

LEMMA OnCloseAttached ==
  ASSUME IInv, NEW f \in DownFrame, Reading(f), f.type = "close", OnClose(f.channel)
  PROVE  Attached'
<1>0. TypeOK /\ DshAgrees
  BY Attachments
<1>1. /\ f.channel \in Channel /\ wsUpstreams' = [wsUpstreams EXCEPT ![f.channel] = Nobody]
      /\ UNCHANGED <<pendingBodies, upstream>>
      /\ \A w \in Whose : CallerKeeps(w) /\ Idle(w)' = Idle(w)
  BY <1>0, OnCloseDoes
<1>2. \A b \in Browser :
        /\ SameAsk(socket[b], socket'[b])
        /\ \/ socket'[b].st = socket[b].st
           \/ wsUpstreams[f.channel] = b /\ socket'[b].st \in {"closing", "closed"}
  BY <1>0, OnCloseDoes
<1>3. /\ UNCHANGED <<gateway, callers, link, agent, toGateway>>
      /\ \A k \in Link : down'[k] # <<>> => down[k] # <<>>
  BY ReadIsOf DEF Reading
<1>4. \A w \in Whose : AskKeeps(w)
  <2>1. \A b \in Browser : wsUpstreams[f.channel] = b => socket[b].st # "none"
    BY <1>0, <1>1, Sets DEF DshAgrees, Started
  <2>2. \A b \in Browser : AskKeeps(b)
    BY <1>0, <1>2, <2>1, SameAsks
  <2>3. \A q \in Request : AskKeeps(q)
    <3>1. \A q \in Request : DshKeeps(q)
      BY <1>1, SameParties
    <3> QED
      BY <1>0, <3>1, SameAsks, Sets
  <2> QED
    BY <2>2, <2>3 DEF Whose
<1>5. \A d \in Channel, b \in Browser : wsUpstreams'[d] = b => wsUpstreams[d] = b
  BY <1>0, <1>1, Sets DEF TypeOK
<1> QED
  BY <1>1, <1>3, <1>4, <1>5, DshSideAttached

LEMMA AgentReadsAttached ==
  ASSUME IInv, AgentReads PROVE Attached'
BY Attachments, ReadingDoes, OnRequestAttached, OnOpenAttached, OnDataAttached, OnCloseAttached

(* What the agent sends goes on an open link.                                   *)
LEMMA SentUp ==
  ASSUME IInv, NEW k \in Link, NEW F \in Seq(UpFrame), toGateway' = Up(k, F)
  PROVE  \A j \in Link :
           /\ toGateway'[j] = IF j = k /\ link[j] = "open" THEN toGateway[j] \o F ELSE toGateway[j]
           /\ toGateway'[j] # <<>> => link[j] = "open" \/ toGateway[j] # <<>>
<1>0. TypeOK
  BY Attachments
<1>1. <<>> \in Seq(DownFrame)
  BY Items
<1> QED
  BY <1>0, <1>1, Sending

LEMMA AnswerAttached ==
  ASSUME IInv, NEW q \in Request, NEW st \in {"awaiting", "sent", "answering", "done"},
         NEW n \in 0 .. Chunks, NEW F \in Seq(UpFrame), Answer(q, st, n, F),
         upstream[q].st \in {"sent", "answering"}
  PROVE  Attached'
<1>0. TypeOK /\ DshAgrees /\ upstream[q].link \in Link
  BY Attachments
<1>1. /\ SameAsk(upstream[q], upstream'[q]) /\ upstream'[q].st = st
      /\ \A p \in Request : p # q => upstream'[p] = upstream[p]
      /\ toGateway' = Up(upstream[q].link, F)
      /\ UNCHANGED <<gateway, callers, link, down, agent, tables, socket>>
      /\ \A w \in Whose : CallerKeeps(w) /\ Idle(w)' = Idle(w) /\ (w # q => DshKeeps(w))
  BY <1>0, AnswerDoes
<1>2. \A j \in Link : toGateway'[j] # <<>> => link[j] = "open" \/ toGateway[j] # <<>>
  BY <1>0, <1>1, SentUp
<1>3. \A w \in Whose : AskKeeps(w)
  BY <1>0, <1>1, SameAsks
<1>4. \A c \in Channel : pendingBodies[c] # q
  BY <1>0 DEF DshAgrees
<1>5. \A c \in Channel, p \in Request :
        pendingBodies'[c] = p => pendingBodies[c] = p /\ upstream'[p].st = upstream[p].st
  BY <1>1, <1>4 DEF tables
<1> QED
  BY <1>1, <1>2, <1>3, <1>5, DshSideAttached DEF tables

LEMMA RetryAttached ==
  ASSUME IInv, NEW q \in Request, Retry(q) PROVE Attached'
<1>0. TypeOK
  BY Attachments
<1>1. /\ \A p \in Request : upstream'[p].st = upstream[p].st
      /\ UNCHANGED <<gateway, callers, frames, tables, socket>>
      /\ \A w \in Whose : CallerKeeps(w) /\ Idle(w)' = Idle(w) /\ DshKeeps(w)
  BY <1>0, RetryDoes
<1>2. \A w \in Whose : AskKeeps(w)
  BY <1>0, <1>1, SameAsks
<1> QED
  BY <1>1, <1>2, DshSideAttached DEF tables, frames

LEMMA SocketOpensAttached ==
  ASSUME IInv, NEW b \in Browser, SocketOpens(b) PROVE Attached'
<1>0. TypeOK /\ socket[b].got = <<>>
  BY Attachments DEF SocketOpens
<1>1. /\ UNCHANGED <<gateway, callers, frames, tables, upstream>>
      /\ \A w \in Whose : CallerKeeps(w) /\ Idle(w)' = Idle(w) /\ DshKeeps(w)
  BY <1>0, SocketOpensDoes
<1>2. \A w \in Whose : AskKeeps(w)
  BY <1>0, <1>1, SameAsks
<1> QED
  BY <1>1, <1>2, DshSideAttached DEF tables, frames

LEMMA SocketSendsAttached ==
  ASSUME IInv, NEW b \in Browser, SocketSends(b) PROVE Attached'
<1>0. TypeOK /\ socket[b].link \in Link /\ socket[b].channel \in Channel
  BY Attachments DEF SocketSends
<1> DEFINE F == <<Frame("data", socket[b].channel, <<b, socket[b].n + 1>>)>>
<1>1. /\ F \in Seq(UpFrame) /\ toGateway' = Up(socket[b].link, F)
      /\ UNCHANGED <<gateway, callers, link, down, agent, tables, upstream>>
      /\ \A w \in Whose : CallerKeeps(w) /\ Idle(w)' = Idle(w) /\ (w # b => DshKeeps(w))
  BY <1>0, SocketSendsDoes
<1>2. AskKeeps(b)
  BY <1>0, SocketSendsDoes DEF AskKeeps
<1>3. \A w \in Whose : AskKeeps(w)
  BY <1>0, <1>1, <1>2, SameAsks
<1> HIDE DEF F
<1>4. \A j \in Link : toGateway'[j] # <<>> => link[j] = "open" \/ toGateway[j] # <<>>
  BY <1>0, <1>1, SentUp
<1> QED
  BY <1>1, <1>3, <1>4, DshSideAttached DEF tables

LEMMA SocketClosesAttached ==
  ASSUME IInv, NEW b \in Browser, SocketCloses(b) PROVE Attached'
<1>0. TypeOK /\ socket[b].link \in Link /\ socket[b].channel \in Channel
  BY Attachments DEF SocketCloses
<1> DEFINE F == <<Frame("close", socket[b].channel, <<>>)>>
<1>1. /\ F \in Seq(UpFrame) /\ toGateway' = Up(socket[b].link, F)
      /\ UNCHANGED <<gateway, callers, link, down, agent, tables, upstream>>
      /\ \A w \in Whose : CallerKeeps(w) /\ Idle(w)' = Idle(w) /\ DshKeeps(w)
  BY <1>0, SocketClosesDoes
<1>2. \A w \in Whose : AskKeeps(w)
  BY <1>0, <1>1, SameAsks
<1> HIDE DEF F
<1>3. \A j \in Link : toGateway'[j] # <<>> => link[j] = "open" \/ toGateway[j] # <<>>
  BY <1>0, <1>1, SentUp
<1> QED
  BY <1>1, <1>2, <1>3, DshSideAttached DEF tables
-------------------------------------------------------------------------------
(* The second layer: whose the frames are.                                     *)

LEMMA DownIsOfStays ==
  ASSUME NEW w \in Whose, NEW f \in DownFrame, DownIsOf(w, f), Chan(w)' = Chan(w),
         f.type \in {"request", "open"} => ~Started(w)',
         w \in Browser => /\ browser[w].n \in Nat /\ browser'[w].n \in Nat
                          /\ browser[w].n <= browser'[w].n
  PROVE  DownIsOf(w, f)'
<1>1. f.type \in {"request", "open"} => f.data = <<w>> /\ ~Started(w)'
  BY DEF DownIsOf
<1>2. /\ f.channel = Chan(w)' /\ (f.type = "request" => w \in Request)
      /\ f.type = "open" => w \in Browser
  BY DEF DownIsOf
<1>3. f.type = "data" =>
        /\ w \in Request => w \in WithBody /\ f.data = <<w, 0>>
        /\ w \in Browser => \E m \in 1 .. browser'[w].n : f.data = <<w, m>>
  <2>1. f.type = "data" /\ w \in Request => w \in WithBody /\ f.data = <<w, 0>>
    BY DEF DownIsOf
  <2>2. ASSUME f.type = "data", w \in Browser PROVE \E m \in 1 .. browser'[w].n : f.data = <<w, m>>
    <3>1. PICK m \in 1 .. browser[w].n : f.data = <<w, m>>
      BY <2>2 DEF DownIsOf
    <3>2. m \in 1 .. browser'[w].n
      BY <2>2
    <3> QED
      BY <3>1, <3>2
  <2> QED
    BY <2>1, <2>2
<1> QED
  BY <1>1, <1>2, <1>3 DEF DownIsOf

(* A party keeps its channel while it has one, and its messages only become more.   *)
CallersGoOn ==
  /\ \A w \in Whose : Chan(w) # 0 => Chan(w)' = Chan(w)
  /\ \A b \in Browser : /\ browser[b].n \in Nat /\ browser'[b].n \in Nat
                        /\ browser[b].n <= browser'[b].n

LEMMA OwnedDownStays ==
  ASSUME IInv, CallersGoOn,
         \A k \in Link : \A f \in In(down'[k]) : f \in In(down[k]) \/ \E w \in Whose : DownIsOf(w, f)',
         \A k \in Link, c \in Channel : Once(down'[k], OpenOn(c)),
         \A w \in Whose : \/ Started(w)' => Started(w)
                          \/ \A k \in Link : In(down'[k]) \cap OpenOn(Chan(w)) = {}
  PROVE  OwnedDown'
<1> SUFFICES ASSUME NEW k \in Link, NEW f \in In(down'[k]), f \in In(down[k])
             PROVE  \E w \in Whose : DownIsOf(w, f)'
  BY DEF OwnedDown
<1>1. f \in DownFrame /\ f.channel # 0
  BY OwnerOf, DownFrames, Sets
<1>2. PICK w \in Whose : DownIsOf(w, f)
  BY OwnerOf
<1>3. f.channel = Chan(w) /\ Chan(w)' = Chan(w)
  BY <1>1, <1>2 DEF DownIsOf, CallersGoOn
<1>4. f.type \in {"request", "open"} => ~Started(w)'
  <2>1. f.type \in {"request", "open"} => f \in OpenOn(Chan(w)) /\ ~Started(w)
    BY <1>1, <1>2, <1>3 DEF OpenOn, DownIsOf
  <2> QED
    BY <2>1
<1>5. DownIsOf(w, f)'
  BY <1>1, <1>2, <1>3, <1>4, DownIsOfStays DEF CallersGoOn
<1> QED
  BY <1>5

LEMMA OwnedUpStays ==
  ASSUME IInv, \A w \in Whose : Chan(w) # 0 => Chan(w)' = Chan(w),
         \A w \in Whose : Started(w) => Started(w)' /\ Via(w)' = Via(w),
         \A k \in Link : \A f \in In(toGateway'[k]) :
           f \in In(toGateway[k]) \/ \E w \in Whose : UpIsOf(w, f, k)'
  PROVE  OwnedUp'
<1> SUFFICES ASSUME NEW k \in Link, NEW f \in In(toGateway'[k]), f \in In(toGateway[k])
             PROVE  \E w \in Whose : UpIsOf(w, f, k)'
  BY DEF OwnedUp
<1>1. f \in UpFrame /\ f.channel # 0
  BY OwnerOf, UpFrames, Sets
<1>2. PICK w \in Whose : UpIsOf(w, f, k)
  BY OwnerOf
<1>3. f.channel = Chan(w)' /\ Started(w)' /\ Via(w)' = k
  BY <1>1, <1>2 DEF UpIsOf
<1>4. UpIsOf(w, f, k)'
  BY <1>2, <1>3 DEF UpIsOf
<1> QED
  BY <1>4

LEMMA OwnBodiesStay ==
  ASSUME IInv, boots' = boots,
         \A q \in Request :
           /\ upstream'[q].boot = upstream[q].boot /\ upstream'[q].body = upstream[q].body
           /\ upstream'[q].st \in {"sent", "answering", "done"} =>
                upstream[q].st \in {"sent", "answering", "done"}
  PROVE  OwnBodies'
BY DEF IInv, Owned, OwnBodies

(* Nothing changes that the second layer speaks of, but that frames are lost.       *)
LEMMA OwnedStays ==
  ASSUME IInv, CallersGoOn, \A w \in Whose : AskKeeps(w), boots' = boots, UNCHANGED upstream,
         \A k \in Link : /\ down'[k] = down[k] \/ down'[k] = <<>>
                         /\ toGateway'[k] = toGateway[k] \/ toGateway'[k] = <<>>
  PROVE  Owned'
<1>1. In(<<>>) = {} /\ \A c \in Channel : Once(<<>>, OpenOn(c))
  BY InAfter DEF Once
<1>2. \A k \in Link, c \in Channel : Once(down[k], OpenOn(c))
  BY DEF IInv, Owned, OwnedDown
<1>3. OwnedDown'
  BY <1>1, <1>2, OwnedDownStays DEF AskKeeps
<1>4. OwnedUp'
  BY <1>1, OwnedUpStays DEF AskKeeps, CallersGoOn
<1>5. OwnBodies'
  BY OwnBodiesStay
<1> QED
  BY <1>3, <1>4, <1>5 DEF Owned

LEMMA CallersKept ==
  ASSUME TypeOK, TypeOK', \A w \in Whose : Chan(w)' = Chan(w),
         \A b \in Browser : browser'[b].n = browser[b].n
  PROVE  CallersGoOn
<1>1. \A b \in Browser : browser[b].n \in Nat /\ browser'[b].n \in Nat
  <2>1. \A b \in Browser : browser[b].n \in 0 .. Messages /\ browser'[b].n \in 0 .. Messages
    BY DEF TypeOK, BrowserRecord
  <2> QED
    BY <2>1, Sets
<1> QED
  BY <1>1 DEF CallersGoOn

LEMMA ConnectOwned ==
  ASSUME IInv, NEW k \in Link, Connect(k) PROVE Owned'
<1>0. TypeOK
  BY Attachments
<1>1. /\ TypeOK' /\ \A w \in Whose : Chan(w)' = Chan(w) /\ AskKeeps(w)
  BY <1>0, ConnectDoes, SameAsks DEF CallerKeeps
<1>2. UNCHANGED <<boots, browser, down, toGateway, upstream>>
  BY DEF Connect, callers, dsh
<1>3. CallersGoOn
  BY <1>0, <1>1, <1>2, CallersKept
<1> QED
  BY <1>1, <1>2, <1>3, OwnedStays

LEMMA LinkBreaksOwned ==
  ASSUME IInv, LinkBreaks PROVE Owned'
<1>0. TypeOK
  BY Attachments
<1>1. /\ TypeOK' /\ \A w \in Whose : Chan(w)' = Chan(w) /\ AskKeeps(w)
      /\ \A j \in Link : down'[j] = down[j] \/ down'[j] = <<>>
  BY <1>0, LinkBreaksDoes, SameAsks DEF CallerKeeps
<1>2. UNCHANGED <<boots, browser, toGateway, upstream>>
  BY DEF LinkBreaks, gateway, callers, dsh
<1>3. CallersGoOn
  BY <1>0, <1>1, <1>2, CallersKept
<1> QED
  BY <1>1, <1>2, <1>3, OwnedStays

LEMMA LinkClosedOwned ==
  ASSUME IInv, NEW k \in Link, LinkClosed(k) PROVE Owned'
<1>0. TypeOK
  BY Attachments
<1>1. /\ TypeOK' /\ \A w \in Whose : AskKeeps(w)
      /\ \A j \in Link : toGateway'[j] = toGateway[j] \/ toGateway'[j] = <<>>
      /\ \A q \in Request : response'[q].channel = response[q].channel
      /\ \A b \in Browser : browser'[b].channel = browser[b].channel /\ browser'[b].n = browser[b].n
  BY <1>0, LinkClosedDoes, SameAsks
<1>2. UNCHANGED <<boots, down, upstream>>
  BY DEF LinkClosed, dsh
<1>3. \A w \in Whose : Chan(w)' = Chan(w)
  BY <1>1 DEF Chan, Whose
<1>4. CallersGoOn
  BY <1>0, <1>1, <1>3, CallersKept
<1> QED
  BY <1>1, <1>2, <1>4, OwnedStays

LEMMA ProcessEndsOwned ==
  ASSUME IInv, ProcessEnds PROVE Owned'
<1>1. \A k \in Link : down'[k] = <<>> /\ toGateway'[k] = <<>>
  BY Attachments, ProcessEndsDoes
<1>2. UNCHANGED <<boots, upstream>>
  BY DEF ProcessEnds, dsh
<1>3. In(<<>>) = {} /\ \A c \in Channel : Once(<<>>, OpenOn(c))
  BY InAfter DEF Once
<1>4. OwnedDown' /\ OwnedUp'
  BY <1>1, <1>3 DEF OwnedDown, OwnedUp
<1>5. OwnBodies'
  BY <1>2, OwnBodiesStay
<1> QED
  BY <1>4, <1>5 DEF Owned

LEMMA BootOwned ==
  ASSUME IInv, Boot PROVE Owned'
<1>0. TypeOK
  BY Attachments
<1>1. /\ TypeOK' /\ boots \in Nat /\ boots' = boots + 1
      /\ \A w \in Whose : Chan(w)' = Chan(w) /\ AskKeeps(w)
  BY <1>0, BootDoes, SameAsks DEF CallerKeeps
<1>2. UNCHANGED <<browser, down, toGateway, upstream>>
  BY DEF Boot, callers, frames, dsh
<1>3. CallersGoOn
  BY <1>0, <1>1, <1>2, CallersKept
<1>4. \A k \in Link, c \in Channel : Once(down[k], OpenOn(c))
  BY DEF IInv, Owned, OwnedDown
<1>5. OwnedDown'
  BY <1>1, <1>2, <1>3, <1>4, OwnedDownStays DEF AskKeeps
<1>6. OwnedUp'
  BY <1>1, <1>2, OwnedUpStays DEF AskKeeps
<1>7. OwnBodies'
  <2>1. ASSUME NEW q \in Request, upstream[q].st # "none" PROVE upstream[q].boot # boots'
    <3>1. upstream[q].boot <= boots
      BY <2>1, Attachments, Sets DEF DshAgrees, Started, BootOf
    <3>2. upstream[q].boot \in Nat
      BY <1>0, PartyTypes, Sets DEF BootOf
    <3> QED
      BY <1>1, <3>1, <3>2
  <2> QED
    BY <1>2, <2>1 DEF IInv, Owned, OwnBodies
<1> QED
  BY <1>5, <1>6, <1>7 DEF Owned

LEMMA SentDownOwned ==
  ASSUME IInv, CallersGoOn, \A w \in Whose : AskKeeps(w),
         UNCHANGED <<boots, upstream, toGateway>>, NEW F \in Seq(DownFrame), down' = Down(F),
         \A f \in In(F) : \E w \in Whose : DownIsOf(w, f)',
         \A c \in Channel :
           /\ Once(F, OpenOn(c))
           /\ In(F) \cap OpenOn(c) # {} => \A k \in Link : In(down[k]) \cap OpenOn(c) = {}
  PROVE  Owned'
<1>1. \A k \in Link : down'[k] = down[k] \/ down'[k] = down[k] \o F
  BY SentDown
<1>2. \A k \in Link : down[k] \in Seq(DownFrame)
  BY Attachments, Parts
<1>3. \A k \in Link : \A f \in In(down'[k]) : f \in In(down[k]) \/ \E w \in Whose : DownIsOf(w, f)'
  <2>1. \A k \in Link : In(down[k] \o F) = In(down[k]) \cup In(F)
    BY <1>2, InAfter
  <2> QED
    BY <1>1, <2>1
<1>4. ASSUME NEW k \in Link, NEW c \in Channel PROVE Once(down'[k], OpenOn(c))
  <2>1. Once(down[k], OpenOn(c))
    BY DEF IInv, Owned, OwnedDown
  <2>2. \A G \in Seq(DownFrame) :
          Once(G, OpenOn(c)) /\ (In(G) \cap OpenOn(c) = {} \/ In(down[k]) \cap OpenOn(c) = {})
            => Once(down[k] \o G, OpenOn(c))
    BY <1>2, <2>1, OnceAfter
  <2> QED
    BY <1>1, <2>1, <2>2
<1>5. OwnedDown'
  BY <1>3, <1>4, OwnedDownStays DEF AskKeeps
<1>6. OwnedUp'
  BY OwnedUpStays DEF AskKeeps, CallersGoOn
<1>7. OwnBodies'
  BY OwnBodiesStay
<1> QED
  BY <1>5, <1>6, <1>7 DEF Owned

(* No frame in transit is on a channel that is nobody's.                         *)
LEMMA NobodysChannel ==
  ASSUME IInv, NEW c \in Channel, \A w \in Whose : Chan(w) # c
  PROVE  \A k \in Link : /\ \A f \in In(down[k]) : f.channel # c
                         /\ \A f \in In(toGateway[k]) : f.channel # c
BY OwnerOf DEF DownIsOf, UpIsOf

LEMMA AllocatesKept ==
  ASSUME TypeOK, TypeOK', NEW w \in Whose, Allocates(w), Chan(w) = 0,
         \A b \in Browser : browser'[b].n = browser[b].n
  PROVE  CallersGoOn
<1>1. \A b \in Browser : browser[b].n \in Nat /\ browser'[b].n \in Nat
  <2>1. \A b \in Browser : browser[b].n \in 0 .. Messages /\ browser'[b].n \in 0 .. Messages
    BY DEF TypeOK, BrowserRecord
  <2> QED
    BY <2>1, Sets
<1> QED
  BY <1>1 DEF CallersGoOn, Allocates, CallerKeeps

LEMMA RelayOwned ==
  ASSUME IInv, NEW q \in Request, Relay(q) PROVE Owned'
<1>0. TypeOK /\ ChannelsAgree /\ q \in Whose /\ q \notin Browser
  BY Attachments, Sets
<1>2. Idle(q) /\ Chan(q) = 0 /\ ~Started(q)
  BY <1>0 DEF Relay, Idle, ChannelsAgree
<1>3. PICK c \in Channel : c = NextChannel /\ \A v \in Whose : Chan(v) # c
  BY <1>0, <1>2, FreshChannel
<1> DEFINE F == RequestFrames(q, c)
<1>1. /\ TypeOK' /\ Allocates(q) /\ F \in Seq(DownFrame) /\ down' = Down(F)
  BY <1>0, <1>3, RelayDoes
<1>4. /\ UNCHANGED <<boots, upstream, toGateway, browser>>
  BY DEF Relay, dsh
<1>5. CallersGoOn /\ \A w \in Whose : AskKeeps(w)
  BY <1>0, <1>1, <1>2, <1>4, AllocatesKept, SameAsks DEF Allocates
<1>6. Chan(q)' = c /\ ~Started(q)'
  BY <1>0, <1>1, <1>2, <1>3, <1>5 DEF Allocates, AskKeeps
<1> DEFINE e == Frame("request", c, <<q>>) d == Frame("data", c, <<q, 0>>)
<1>7. /\ DownIsOf(q, e)' /\ (q \in WithBody => DownIsOf(q, d)')
      /\ e.type = "request" /\ e.channel = c /\ d.type = "data" /\ d.channel = c
  BY <1>0, <1>6 DEF DownIsOf, Frame
<1> DEFINE G == IF q \in WithBody THEN <<d>> ELSE <<>>
<1>8. F = <<e>> \o G
  BY DEF RequestFrames
<1>13. e \in DownFrame /\ d \in DownFrame
  <2>1. <<q, 0>> \in Item
    BY <1>0, Items
  <2> QED
    BY <2>1, Frames
<1>14. <<e>> \in Seq(DownFrame) /\ G \in Seq(DownFrame)
  BY <1>13, Items
<1>15. /\ In(<<e>>) = {e} /\ In(G) = IF q \in WithBody THEN {d} ELSE {}
       /\ \A A : Once(<<e>>, A) /\ Once(G, A)
  BY DEF In, Once
<1>9. In(F) = {e} \cup IF q \in WithBody THEN {d} ELSE {}
  <2>1. \A s, t \in Seq(DownFrame) : In(s \o t) = In(s) \cup In(t)
    BY InAfter
  <2>2. In(<<e>> \o G) = In(<<e>>) \cup In(G)
    BY <1>14, <2>1
  <2> QED
    BY <1>8, <1>15, <2>2
<1>10. \A f \in In(F) : \E w \in Whose : DownIsOf(w, f)'
  BY <1>0, <1>7, <1>9
<1>11. ASSUME NEW b \in Channel PROVE Once(F, OpenOn(b))
  <2>1. In(G) \cap OpenOn(b) = {}
    BY <1>7, <1>15 DEF OpenOn
  <2>2. \A H \in Seq(DownFrame) :
          Once(H, OpenOn(b)) /\ In(H) \cap OpenOn(b) = {} => Once(<<e>> \o H, OpenOn(b))
    BY <1>14, <1>15, OnceAfter
  <2> HIDE DEF G
  <2> QED
    BY <1>8, <1>14, <1>15, <2>1, <2>2
<1>12. ASSUME NEW b \in Channel, In(F) \cap OpenOn(b) # {}
       PROVE  \A k \in Link : In(down[k]) \cap OpenOn(b) = {}
  <2>1. b = c
    BY <1>7, <1>9, <1>12 DEF OpenOn
  <2>2. \A k \in Link : \A f \in In(down[k]) : f.channel # b
    BY <1>3, <2>1, NobodysChannel
  <2> QED
    BY <2>2 DEF OpenOn
<1> HIDE DEF F
<1> QED
  BY <1>1, <1>4, <1>5, <1>10, <1>11, <1>12, SentDownOwned

LEMMA BrowserOpensOwned ==
  ASSUME IInv, NEW b \in Browser, BrowserOpens(b) PROVE Owned'
<1>0. TypeOK /\ ChannelsAgree /\ b \in Whose /\ b \notin Request
  BY Attachments, Sets
<1>2. Idle(b) /\ Chan(b) = 0 /\ ~Started(b)
  BY <1>0 DEF BrowserOpens, Idle, ChannelsAgree
<1>3. PICK c \in Channel : c = NextChannel /\ \A v \in Whose : Chan(v) # c
  BY <1>0, <1>2, FreshChannel
<1> DEFINE e == Frame("open", c, <<b>>)
           F == <<e>>
<1>1. /\ TypeOK' /\ Allocates(b) /\ F \in Seq(DownFrame) /\ down' = Down(F)
      /\ browser'[b].n = browser[b].n
      /\ \A v \in Browser : v # b => browser'[v] = browser[v]
  BY <1>0, <1>3, BrowserOpensDoes
<1>4. UNCHANGED <<boots, upstream, toGateway>>
  BY DEF BrowserOpens, dsh
<1>5. CallersGoOn /\ \A w \in Whose : AskKeeps(w)
  <2>1. \A v \in Browser : browser'[v].n = browser[v].n
    BY <1>1
  <2> QED
    BY <1>0, <1>1, <1>2, <2>1, AllocatesKept, SameAsks DEF Allocates
<1>6. Chan(b)' = c /\ ~Started(b)'
  BY <1>0, <1>1, <1>2, <1>3, <1>5 DEF Allocates, AskKeeps
<1>7. DownIsOf(b, e)' /\ e.type = "open" /\ e.channel = c
  BY <1>0, <1>6 DEF DownIsOf, Frame
<1>8. (\A f \in In(F) : f = e) /\ \A d \in Channel : Once(F, OpenOn(d))
  BY DEF In, Once
<1>9. \A f \in In(F) : \E w \in Whose : DownIsOf(w, f)'
  BY <1>0, <1>7, <1>8
<1>10. ASSUME NEW d \in Channel, In(F) \cap OpenOn(d) # {}
       PROVE  \A k \in Link : In(down[k]) \cap OpenOn(d) = {}
  <2>1. d = c
    BY <1>7, <1>8, <1>10 DEF OpenOn
  <2>2. \A k \in Link : \A f \in In(down[k]) : f.channel # d
    BY <1>3, <2>1, NobodysChannel
  <2> QED
    BY <2>2 DEF OpenOn
<1> HIDE DEF F
<1> QED
  BY <1>1, <1>4, <1>5, <1>8, <1>9, <1>10, SentDownOwned

LEMMA BrowserSendsOwned ==
  ASSUME IInv, NEW b \in Browser, NEW c \in Channel, BrowserSends(b, c) PROVE Owned'
<1>0. TypeOK /\ ChannelsAgree /\ b \in Whose /\ b \notin Request
  BY Attachments, Sets
<1>9. PICK m : m = browser[b].n + 1
  OBVIOUS
<1> DEFINE e == Frame("data", c, <<b, m>>)
           F == <<e>>
<1>1. /\ TypeOK' /\ F \in Seq(DownFrame) /\ down' = Down(F)
      /\ browser[b].n \in Nat /\ browser'[b].n = browser[b].n + 1
      /\ \A v \in Browser : v # b => browser'[v] = browser[v]
      /\ \A w \in Whose : CallerKeeps(w) /\ AskKeeps(w)
  BY <1>0, <1>9, BrowserSendsDoes, SameAsks
<1>2. Chan(b) = c
  BY <1>0 DEF BrowserSends, ChannelsAgree
<1>3. UNCHANGED <<boots, upstream, toGateway>>
  BY DEF BrowserSends, dsh, gateway
<1>4. CallersGoOn
  <2>1. \A v \in Browser : browser[v].n \in Nat
    <3>1. \A v \in Browser : browser[v].n \in 0 .. Messages
      BY <1>0 DEF TypeOK, BrowserRecord
    <3> QED
      BY <3>1, Sets
  <2>2. \A v \in Browser : browser'[v].n = browser[v].n \/ browser'[v].n = browser[v].n + 1
    BY <1>1
  <2> QED
    BY <1>1, <2>1, <2>2 DEF CallersGoOn, CallerKeeps
<1>5. DownIsOf(b, e)' /\ e.type = "data"
  <2>1. m \in 1 .. browser'[b].n
    BY <1>1, <1>9
  <2>2. Chan(b)' = c
    BY <1>0, <1>1, <1>2 DEF CallerKeeps
  <2>3. e.type = "data" /\ e.channel = c /\ e.data = <<b, m>>
    BY DEF Frame
  <2> HIDE DEF e
  <2> QED
    BY <1>0, <2>1, <2>2, <2>3 DEF DownIsOf
<1>6. (\A f \in In(F) : f = e) /\ \A d \in Channel : Once(F, OpenOn(d))
  BY DEF In, Once
<1>7. \A f \in In(F) : \E w \in Whose : DownIsOf(w, f)'
  BY <1>0, <1>5, <1>6
<1>8. \A d \in Channel : In(F) \cap OpenOn(d) = {}
  BY <1>5, <1>6 DEF OpenOn
<1> HIDE DEF F
<1> QED
  BY <1>1, <1>3, <1>4, <1>6, <1>7, <1>8, SentDownOwned

LEMMA BrowserClosesOwned ==
  ASSUME IInv, NEW b \in Browser, NEW c \in Channel, BrowserCloses(b, c) PROVE Owned'
<1>0. TypeOK /\ ChannelsAgree /\ b \in Whose /\ b \notin Request
  BY Attachments, Sets
<1> DEFINE e == Frame("close", c, <<>>)
           F == <<e>>
<1>1. /\ TypeOK' /\ F \in Seq(DownFrame) /\ down' = Down(F)
      /\ \A v \in Browser : browser'[v].n = browser[v].n
      /\ \A w \in Whose : Chan(w)' = Chan(w) /\ AskKeeps(w)
  BY <1>0, BrowserClosesDoes, SameAsks DEF CallerKeeps
<1>2. Chan(b) = c
  BY <1>0 DEF BrowserCloses, ChannelsAgree
<1>3. UNCHANGED <<boots, upstream, toGateway>>
  BY DEF BrowserCloses, dsh
<1>4. CallersGoOn
  BY <1>0, <1>1, CallersKept
<1>5. DownIsOf(b, e)' /\ e.type = "close"
  BY <1>0, <1>1, <1>2 DEF DownIsOf, Frame
<1>6. (\A f \in In(F) : f = e) /\ \A d \in Channel : Once(F, OpenOn(d))
  BY DEF In, Once
<1>7. \A f \in In(F) : \E w \in Whose : DownIsOf(w, f)'
  BY <1>0, <1>5, <1>6
<1>8. \A d \in Channel : In(F) \cap OpenOn(d) = {}
  BY <1>5, <1>6 DEF OpenOn
<1> HIDE DEF F
<1> QED
  BY <1>1, <1>3, <1>4, <1>6, <1>7, <1>8, SentDownOwned

LEMMA RelayTimeoutOwned ==
  ASSUME IInv, NEW c \in Channel, RelayTimeout(c) PROVE Owned'
<1>0. TypeOK
  BY Attachments
<1>1. TypeOK' /\ \A w \in Whose : Chan(w)' = Chan(w) /\ AskKeeps(w)
  BY <1>0, RelayTimeoutDoes, SameAsks DEF CallerKeeps
<1>2. UNCHANGED <<boots, browser, down, toGateway, upstream>>
  BY DEF RelayTimeout, frames, dsh
<1>3. CallersGoOn
  BY <1>0, <1>1, <1>2, CallersKept
<1> QED
  BY <1>1, <1>2, <1>3, OwnedStays

(* What is left to read when the agent has read f.                              *)
LEMMA LeftToRead ==
  ASSUME IInv, NEW f \in DownFrame, Reading(f)
  PROVE  /\ \A k \in Link : In(down'[k]) \subseteq In(down[k])
         /\ \A k \in Link, c \in Channel : Once(down'[k], OpenOn(c))
         /\ \A k \in Link, c \in Channel : f \in OpenOn(c) => In(down'[k]) \cap OpenOn(c) = {}
<1>1. /\ agent \in Link /\ down[agent] \in Seq(DownFrame) /\ down[agent] # <<>> /\ f = Head(down[agent])
      /\ down'[agent] = Tail(down[agent]) /\ \A k \in Link : k # agent => down'[k] = down[k]
  BY Attachments, Parts DEF Reading
<1>2. \A k \in Link, c \in Channel : Once(down[k], OpenOn(c))
  BY DEF IInv, Owned, OwnedDown
<1>3. \A k \in Link : k # agent => In(down[k]) = {}
  BY Attachments, InAfter DEF LinksAgree
<1>4. In(Tail(down[agent])) \subseteq In(down[agent])
  BY <1>1, InAfter
<1>5. \A c \in Channel : /\ Once(Tail(down[agent]), OpenOn(c))
                         /\ f \in OpenOn(c) => In(Tail(down[agent])) \cap OpenOn(c) = {}
  BY <1>1, <1>2, OnceAfter
<1> QED
  BY <1>1, <1>2, <1>3, <1>4, <1>5

(* Dsh's side, and the agent: the callers stay as they are.                      *)
LEMMA CallersUntouched ==
  ASSUME IInv, UNCHANGED callers
  PROVE  CallersGoOn
<1>1. \A b \in Browser : browser[b].n \in Nat
  <2>1. \A b \in Browser : browser[b].n \in 0 .. Messages
    BY Attachments DEF TypeOK, BrowserRecord
  <2> QED
    BY <2>1, Sets
<1> QED
  BY <1>1, SameParties DEF CallersGoOn, callers, CallerKeeps

LEMMA ReadOwned ==
  ASSUME IInv, NEW f \in DownFrame, Reading(f), NEW w \in Whose,
         \/ AskKeeps(w)
         \/ f \in OpenOn(Chan(w)) /\ Chan(w) \in Channel /\ ~Started(w) /\ Started(w)',
         \A v \in Whose : v # w => AskKeeps(v),
         OwnBodies'
  PROVE  Owned'
<1>1. CallersGoOn
  BY CallersUntouched DEF Reading
<1>2. UNCHANGED toGateway
  BY DEF Reading
<1>3. \A v \in Whose : \/ Started(v)' => Started(v)
                       \/ \A k \in Link : In(down'[k]) \cap OpenOn(Chan(v)) = {}
  BY LeftToRead DEF AskKeeps
<1>4. OwnedDown'
  BY <1>1, <1>3, LeftToRead, OwnedDownStays
<1>5. OwnedUp'
  <2>1. \A v \in Whose : Started(v) => Started(v)' /\ Via(v)' = Via(v)
    BY DEF AskKeeps
  <2> QED
    BY <1>1, <1>2, <2>1, OwnedUpStays DEF CallersGoOn
<1> QED
  BY <1>4, <1>5 DEF Owned

(* A request, or a browser, is started by its own frame.                         *)
LEMMA StartedByOwn ==
  ASSUME IInv, NEW f \in DownFrame, Reading(f), f.type \in {"request", "open"}
  PROVE  \E w \in Whose : /\ f.data = <<w>> /\ f.data[1] = w /\ Chan(w) = f.channel /\ ~Started(w)
                          /\ Chan(w) \in Channel /\ f \in OpenOn(Chan(w))
                          /\ f.type = "request" => w \in Request
                          /\ f.type = "open" => w \in Browser
<1>1. PICK w \in Whose : DownIsOf(w, f)
  BY ReadIsOf
<1>2. f.data = <<w>> /\ Chan(w) = f.channel /\ ~Started(w) /\ f.channel \in Channel
  BY <1>1, ReadIsOf DEF DownIsOf
<1> QED
  BY <1>1, <1>2 DEF DownIsOf, OpenOn

LEMMA OnRequestOwned ==
  ASSUME IInv, NEW f \in DownFrame, Reading(f), f.type = "request", OnRequest(f.data[1], f.channel)
  PROVE  Owned'
<1>0. TypeOK
  BY Attachments
<1>1. PICK q \in Request : /\ q = f.data[1] /\ ~Started(q)
                           /\ Chan(q) \in Channel /\ f \in OpenOn(Chan(q))
  BY StartedByOwn
<1>2. PICK c \in Channel : c = f.channel
  BY DownFrames
<1>3. /\ upstream'[q] = Asked(q, c) /\ \A p \in Request : p # q => upstream'[p] = upstream[p]
      /\ \A w \in Whose : w # q => DshKeeps(w)
  BY <1>0, <1>1, <1>2, OnRequestDoes
<1>4. upstream'[q].st = IF q \in WithBody THEN "awaiting" ELSE "sent"
  BY <1>3, <1>0, AskedIs DEF TypeOK
<1>5. upstream'[q].body = <<>>
  BY <1>3, <1>0, AskedIs DEF TypeOK
<1>6. Started(q)'
  BY <1>4 DEF Started
<1>7. boots' = boots
  BY DEF Reading, gateway
<1>8. OwnBodies'
  BY <1>3, <1>4, <1>5, <1>7 DEF IInv, Owned, OwnBodies
<1> QED
  BY <1>0, <1>1, <1>3, <1>6, <1>8, ReadOwned, SameAsks, Sets

LEMMA OnOpenOwned ==
  ASSUME IInv, NEW f \in DownFrame, Reading(f), f.type = "open", OnOpen(f.data[1], f.channel)
  PROVE  Owned'
<1>0. TypeOK
  BY Attachments
<1>1. PICK b \in Browser : /\ b = f.data[1] /\ ~Started(b)
                           /\ Chan(b) \in Channel /\ f \in OpenOn(Chan(b))
  BY StartedByOwn
<1>2. PICK c \in Channel : c = f.channel
  BY DownFrames
<1>3. /\ socket'[b] = Opened(c) /\ UNCHANGED upstream
      /\ \A w \in Whose : w # b => DshKeeps(w)
  BY <1>0, <1>1, <1>2, OnOpenDoes
<1>4. socket'[b].st = "connecting"
  BY <1>3, <1>0, OpenedIs DEF TypeOK
<1>5. Started(b)'
  BY <1>4, Sets DEF Started
<1>6. boots' = boots
  BY DEF Reading, gateway
<1>7. OwnBodies'
  BY <1>3, <1>6, OwnBodiesStay
<1> QED
  BY <1>0, <1>1, <1>3, <1>5, <1>7, ReadOwned, SameAsks, Sets

(* A body that is still waited for, of a request of this process, is its own.       *)
LEMMA BodyIsOwn ==
  ASSUME IInv, NEW f \in DownFrame, Reading(f), f.type = "data",
         NEW q \in Request, pendingBodies[f.channel] = q, upstream[q].boot = boots
  PROVE  f.data = <<q, 0>>
<1>0. TypeOK /\ LinksAgree /\ DshAgrees /\ q \in Whose
  BY Attachments, Sets
<1>1. f.channel \in Channel /\ agent \in Link
  BY DownFrames DEF Reading
<1>2. upstream[q].st = "awaiting" /\ On(q) = f.channel
  BY <1>0, <1>1 DEF DshAgrees
<1>3. Started(q) /\ BootOf(q) = boots /\ boots \in Nat
  BY <1>0, <1>2, Sets DEF Started, BootOf, TypeOK
<1>4. up
  BY <1>0, <1>1, Sets DEF LinksAgree
<1>5. Current(q)
  BY <1>0, <1>3, <1>4 DEF DshAgrees, Past
<1>6. DownIsOf(q, f)
  BY <1>0, <1>2, <1>5, ReadIsOf DEF Current
<1> QED
  BY <1>6 DEF DownIsOf

LEMMA OnDataOwned ==
  ASSUME IInv, NEW f \in DownFrame, Reading(f), f.type = "data", OnData(f.channel, f.data)
  PROVE  Owned'
<1>0. TypeOK /\ DshAgrees /\ \A b \in Browser : socket[b].st = "open" => socket[b].queue = <<>>
  BY Attachments
<1>1. PICK c \in Channel : c = f.channel
  BY DownFrames
<1>2. PICK x \in Item : x = f.data
  BY DownFrames
<1>3. \/ /\ wsUpstreams[c] \in Browser
         /\ socket'[wsUpstreams[c]] = Delivered(socket[wsUpstreams[c]], x)
         /\ \A v \in Browser : v # wsUpstreams[c] => socket'[v] = socket[v]
         /\ UNCHANGED <<pendingBodies, upstream>>
      \/ /\ wsUpstreams[c] = Nobody /\ pendingBodies[c] \in Request
         /\ upstream'[pendingBodies[c]] =
              [upstream[pendingBodies[c]] EXCEPT !.st = "sent", !.body = x]
         /\ \A p \in Request : p # pendingBodies[c] => upstream'[p] = upstream[p]
         /\ pendingBodies' = [pendingBodies EXCEPT ![c] = Nobody] /\ UNCHANGED socket
      \/ wsUpstreams[c] = Nobody /\ UNCHANGED <<pendingBodies, upstream, socket>>
  BY <1>0, <1>1, <1>2, OnDataDoes
<1>4. boots' = boots
  BY DEF Reading, gateway
<1>5. CASE wsUpstreams[c] \in Browser /\ UNCHANGED <<pendingBodies, upstream>>
           /\ socket'[wsUpstreams[c]] = Delivered(socket[wsUpstreams[c]], x)
           /\ \A v \in Browser : v # wsUpstreams[c] => socket'[v] = socket[v]
  <2>1. PICK b \in Browser : b = wsUpstreams[c]
    BY <1>5
  <2> DEFINE s == Delivered(socket[b], x)
  <2>2. socket[b] \in SocketRecord /\ (socket[b].st = "open" => socket[b].queue = <<>>)
    BY <1>0, Parts
  <2>3. SameAsk(socket[b], s) /\ s.st = socket[b].st
    BY <1>1, <2>2, DeliveredIs
  <2>4. socket'[b] = s
    BY <1>5, <2>1
  <2> HIDE DEF s
  <2>5. AskKeeps(b)
    BY <1>0, <2>3, <2>4, SameAsks
  <2>6. \A w \in Whose : w # b => AskKeeps(w)
    BY <1>0, <1>5, <2>1, SameAsks, SameParties DEF Whose
  <2>7. OwnBodies'
    BY <1>4, <1>5, OwnBodiesStay
  <2> QED
    BY <2>5, <2>6, <2>7, ReadOwned, Sets
<1>6. CASE /\ pendingBodies[c] \in Request
           /\ upstream'[pendingBodies[c]] =
                 [upstream[pendingBodies[c]] EXCEPT !.st = "sent", !.body = x]
           /\ \A p \in Request : p # pendingBodies[c] => upstream'[p] = upstream[p]
           /\ UNCHANGED socket
  <2>1. PICK q \in Request : q = pendingBodies[c]
    BY <1>6
  <2> DEFINE s == [upstream[q] EXCEPT !.st = "sent", !.body = x]
  <2>2. SameAsk(upstream[q], s) /\ s.st = "sent" /\ s.body = x
    <3>1. upstream[q] \in UpstreamRecord
      BY <1>0, Parts
    <3>2. \A r \in UpstreamRecord : LET t == [r EXCEPT !.st = "sent", !.body = x] IN
            SameAsk(r, t) /\ t.st = "sent" /\ t.body = x
      BY Upstreams
    <3> QED
      BY <3>1, <3>2
  <2>3. upstream'[q] = s
    BY <1>6, <2>1
  <2> HIDE DEF s
  <2>4. q \in WithBody /\ upstream[q].st = "awaiting"
    BY <1>0, <2>1 DEF DshAgrees
  <2>5. AskKeeps(q)
    BY <1>0, <2>2, <2>3, <2>4, SameAsks
  <2>6. \A w \in Whose : w # q => AskKeeps(w)
    BY <1>0, <1>6, <2>1, SameAsks, SameParties DEF Whose
  <2>7. upstream[q].boot = boots => x = <<q, 0>>
    BY <1>1, <1>2, <2>1, BodyIsOwn
  <2>8. OwnBodies'
    <3>1. upstream'[q].boot = upstream[q].boot /\ upstream'[q].body = x
      BY <2>2, <2>3 DEF SameAsk
    <3> QED
      BY <1>4, <1>6, <2>1, <2>4, <2>7, <3>1 DEF IInv, Owned, OwnBodies
  <2> QED
    BY <2>5, <2>6, <2>8, ReadOwned, Sets
<1>7. CASE UNCHANGED <<upstream, socket>>
  <2>1. \A w \in Whose : AskKeeps(w)
    BY <1>0, <1>7, SameAsks, SameParties DEF dsh
  <2>2. OwnBodies'
    BY <1>4, <1>7, OwnBodiesStay
  <2>3. PICK w \in Whose : DownIsOf(w, f)
    BY ReadIsOf
  <2> QED
    BY <2>1, <2>2, <2>3, ReadOwned
<1> QED
  BY <1>3, <1>5, <1>6, <1>7

LEMMA OnCloseOwned ==
  ASSUME IInv, NEW f \in DownFrame, Reading(f), f.type = "close", OnClose(f.channel)
  PROVE  Owned'
<1>0. TypeOK /\ DshAgrees
  BY Attachments
<1>1. f.channel \in Channel /\ UNCHANGED upstream
  BY <1>0, OnCloseDoes
<1>2. \A b \in Browser :
        /\ SameAsk(socket[b], socket'[b])
        /\ \/ socket'[b].st = socket[b].st
           \/ wsUpstreams[f.channel] = b /\ socket'[b].st \in {"closing", "closed"}
  BY <1>0, OnCloseDoes
<1>3. \A w \in Whose : AskKeeps(w)
  <2>1. \A b \in Browser : wsUpstreams[f.channel] = b => socket[b].st # "none"
    BY <1>0, <1>1, Sets DEF DshAgrees, Started
  <2>2. \A b \in Browser : AskKeeps(b)
    BY <1>0, <1>2, <2>1, SameAsks
  <2>3. \A q \in Request : AskKeeps(q)
    <3>1. \A q \in Request : DshKeeps(q)
      BY <1>1, SameParties
    <3> QED
      BY <1>0, <3>1, SameAsks, Sets
  <2> QED
    BY <2>2, <2>3 DEF Whose
<1>4. OwnBodies'
  BY <1>1, OwnBodiesStay DEF Reading, gateway
<1>5. PICK w \in Whose : DownIsOf(w, f)
  BY ReadIsOf
<1> QED
  BY <1>3, <1>4, <1>5, ReadOwned

LEMMA AgentReadsOwned ==
  ASSUME IInv, AgentReads PROVE Owned'
BY Attachments, ReadingDoes, OnRequestOwned, OnOpenOwned, OnDataOwned, OnCloseOwned

(* Dsh, in one form: the frames F of an answer, on the channel of the request.      *)
Answers(q, c, st, n, F) ==
  /\ upstream[q].st \in {"sent", "answering"} /\ c = On(q) /\ Answer(q, st, n, F)
  /\ \A f \in In(F) : /\ f.channel = c /\ f.type \in {"response", "data", "end"}
                      /\ f.type = "data" => f.data[1] = q
  /\ \/ /\ upstream[q].st = "sent" /\ st = "answering" /\ n = 0
        /\ In(F) \cap (DataOn(c) \cup EndOn(c)) = {}
     \/ /\ upstream[q].st = "answering" /\ st = "answering" /\ n = upstream[q].n + 1
        /\ \E f \in DataOn(c) \cap UpFrame : F = <<f>> /\ f.data[2] = n
     \/ /\ st = "done" /\ n = IF upstream[q].st = "sent" THEN 0 ELSE upstream[q].n
        /\ In(F) \cap (DataOn(c) \cup OwnOn(c)) = {}

LEMMA AnswersAre ==
  ASSUME IInv, NEW q \in Request,
         Responds(q) \/ SendsChunk(q) \/ Ends(q) \/ Refused(q) \/ Reset(q)
  PROVE  \E c \in Channel, st \in {"answering", "done"}, n \in 0 .. Chunks, F \in Seq(UpFrame) :
           Answers(q, c, st, n, F)
<1>0. TypeOK /\ upstream[q] \in UpstreamRecord /\ upstream[q].n \in 0 .. Chunks
  BY Attachments, Parts DEF UpstreamRecord
<1>1. PICK c \in Channel : c = upstream[q].channel /\ c = On(q)
  BY Attachments DEF On, Responds, SendsChunk, Ends, Refused, Reset
<1>2. 0 \in 0 .. Chunks
  BY Sets
<1> DEFINE own == Frame("response", c, <<"own">>)
           bad == Frame("response", c, <<"bad">>)
           end == Frame("end", c, <<>>)
<1>3. own \in UpFrame /\ bad \in UpFrame /\ end \in UpFrame
  BY Frames
<1>4. /\ own.type = "response" /\ own.channel = c
      /\ bad.type = "response" /\ bad.channel = c /\ bad.data = <<"bad">> /\ bad.data # <<"own">>
      /\ end.type = "end" /\ end.channel = c
  BY DEF Frame
<1>5. CASE Responds(q)
  <2> DEFINE F == <<own>>
  <2>1. upstream[q].st = "sent" /\ Answer(q, "answering", 0, F)
    BY <1>1, <1>5 DEF Responds, Of
  <2> HIDE DEF own
  <2>2. F \in Seq(UpFrame) /\ In(F) = {own}
    BY <1>3, Items DEF In
  <2> HIDE DEF F
  <2>3. Answers(q, c, "answering", 0, F)
    BY <1>1, <1>4, <2>1, <2>2 DEF Answers, DataOn, EndOn
  <2> QED
    BY <1>2, <2>2, <2>3
<1>6. CASE SendsChunk(q)
  <2>1. PICK n \in 0 .. Chunks : n = upstream[q].n + 1
    <3>1. upstream[q].n + 1 \in 0 .. Chunks
      BY <1>0, <1>6, Sets DEF SendsChunk
    <3> QED
      BY <3>1
  <2> DEFINE e == Frame("data", c, <<q, n>>)
             F == <<e>>
  <2>2. upstream[q].st = "answering" /\ Answer(q, "answering", n, F)
    BY <1>1, <1>6, <2>1 DEF SendsChunk, Of
  <2>3. e \in UpFrame /\ e.type = "data" /\ e.channel = c /\ e.data[1] = q /\ e.data[2] = n
    <3>1. <<q, n>> \in Item
      BY Sets, Items
    <3> QED
      BY <3>1, Frames DEF Frame
  <2> HIDE DEF e
  <2>4. F \in Seq(UpFrame) /\ In(F) = {e} /\ e \in DataOn(c)
    BY <2>3, Items DEF In, DataOn
  <2>5. Answers(q, c, "answering", n, F)
    BY <1>1, <2>1, <2>2, <2>3, <2>4 DEF Answers
  <2> HIDE DEF F
  <2> QED
    BY <2>4, <2>5
<1>7. CASE Ends(q)
  <2> DEFINE F == <<end>>
  <2>1. upstream[q].st = "answering" /\ Answer(q, "done", upstream[q].n, F)
    BY <1>1, <1>7 DEF Ends, Of
  <2> HIDE DEF end
  <2>2. F \in Seq(UpFrame) /\ In(F) = {end}
    BY <1>3, Items DEF In
  <2> HIDE DEF F
  <2>3. Answers(q, c, "done", upstream[q].n, F)
    BY <1>1, <1>4, <2>1, <2>2 DEF Answers, DataOn, OwnOn
  <2> QED
    BY <1>0, <2>2, <2>3
<1>8. CASE Refused(q)
  <2> DEFINE F == <<bad, end>>
  <2>1. upstream[q].st = "sent" /\ Answer(q, "done", 0, F)
    BY <1>1, <1>8 DEF Refused, Of
  <2> HIDE DEF end, bad
  <2>2. F \in Seq(UpFrame) /\ In(F) = {bad, end}
    BY <1>3 DEF In
  <2> HIDE DEF F
  <2>3. Answers(q, c, "done", 0, F)
    BY <1>1, <1>4, <2>1, <2>2 DEF Answers, DataOn, OwnOn
  <2> QED
    BY <1>2, <2>2, <2>3
<1>9. CASE Reset(q)
  <2> DEFINE F == <<bad, end, end>>
  <2>1. upstream[q].st = "answering" /\ Answer(q, "done", upstream[q].n, F)
    BY <1>1, <1>9 DEF Reset, Of
  <2> HIDE DEF end, bad
  <2>2. F \in Seq(UpFrame) /\ In(F) = {bad, end}
    BY <1>3 DEF In
  <2> HIDE DEF F
  <2>3. Answers(q, c, "done", upstream[q].n, F)
    BY <1>1, <1>4, <2>1, <2>2 DEF Answers, DataOn, OwnOn
  <2> QED
    BY <1>0, <2>2, <2>3
<1> QED
  BY <1>5, <1>6, <1>7, <1>8, <1>9

(* A party whose link is not closed has been started by this process.              *)
LEMMA StartedHere ==
  ASSUME IInv, NEW w \in Whose, Started(w)
  PROVE  /\ Via(w) \in Link /\ On(w) \in Channel
         /\ link[Via(w)] # "closed" => Current(w)
         /\ Chan(w) # 0 => Current(w)
BY Attachments DEF DshAgrees, Past

LEMMA SentUpOwned ==
  ASSUME IInv, NEW w \in Whose, Started(w), NEW k, k = Via(w), NEW c, c = On(w),
         NEW F \in Seq(UpFrame), toGateway' = Up(k, F), UNCHANGED <<callers, down>>,
         \A v \in Whose : AskKeeps(v), OwnBodies',
         \A f \in In(F) : /\ f.channel = c /\ (f.type = "data" => f.data[1] = w)
                          /\ f.type \in IF w \in Request THEN {"response", "data", "end"}
                                                        ELSE {"data", "close"}
  PROVE  Owned'
<1>0. TypeOK /\ k \in Link /\ \A j \in Link : toGateway[j] \in Seq(UpFrame)
  BY Attachments, StartedHere, Parts
<1>1. CallersGoOn
  BY CallersUntouched
<1>2. \A j \in Link, d \in Channel : Once(down[j], OpenOn(d))
  BY DEF IInv, Owned, OwnedDown
<1>3. OwnedDown'
  BY <1>1, <1>2, OwnedDownStays DEF AskKeeps
<1>4. \A j \in Link : \A f \in In(toGateway'[j]) :
        f \in In(toGateway[j]) \/ \E v \in Whose : UpIsOf(v, f, j)'
  <2> SUFFICES ASSUME NEW j \in Link, NEW f \in In(toGateway'[j]), f \notin In(toGateway[j])
               PROVE  \E v \in Whose : UpIsOf(v, f, j)'
    OBVIOUS
  <2>1. toGateway'[j] = IF j = k /\ link[j] = "open" THEN toGateway[j] \o F ELSE toGateway[j]
    BY <1>0, SentUp
  <2>2. In(toGateway[j] \o F) = In(toGateway[j]) \cup In(F)
    BY <1>0, InAfter
  <2>3. j = k /\ link[k] = "open" /\ f \in In(F)
    BY <2>1, <2>2
  <2>4. Chan(w) = c
    BY <2>3, StartedHere DEF Current
  <2>5. Chan(w)' = c /\ Started(w)' /\ Via(w)' = k
    BY <2>4, SameParties DEF AskKeeps, CallerKeeps
  <2>6. UpIsOf(w, f, k)'
    BY <2>3, <2>5 DEF UpIsOf
  <2> QED
    BY <2>3, <2>6
<1>5. OwnedUp'
  BY <1>1, <1>4, OwnedUpStays DEF AskKeeps, CallersGoOn
<1> QED
  BY <1>3, <1>5 DEF Owned

LEMMA AnswersOwned ==
  ASSUME IInv, NEW q \in Request, NEW c \in Channel, NEW st \in {"answering", "done"},
         NEW n \in 0 .. Chunks, NEW F \in Seq(UpFrame), Answers(q, c, st, n, F)
  PROVE  Owned'
<1>0. TypeOK /\ q \in Whose /\ upstream[q].link \in Link /\ upstream[q].st \in {"sent", "answering"}
  BY Attachments, Sets DEF Answers
<1>1. /\ SameAsk(upstream[q], upstream'[q]) /\ upstream'[q].st = st /\ upstream'[q].body = upstream[q].body
      /\ \A p \in Request : p # q => upstream'[p] = upstream[p]
      /\ toGateway' = Up(upstream[q].link, F)
      /\ UNCHANGED <<gateway, callers, link, down, agent, tables, socket>>
      /\ \A w \in Whose : w # q => DshKeeps(w)
  BY <1>0, AnswerDoes DEF Answers
<1>2. \A w \in Whose : AskKeeps(w)
  BY <1>0, <1>1, SameAsks
<1>3. OwnBodies'
  <2>1. \A p \in Request : /\ upstream'[p].boot = upstream[p].boot /\ upstream'[p].body = upstream[p].body
                           /\ upstream'[p].st \in {"sent", "answering", "done"} =>
                                upstream[p].st \in {"sent", "answering", "done"}
    BY <1>0, <1>1 DEF SameAsk
  <2> QED
    BY <1>1, <2>1, OwnBodiesStay DEF gateway
<1>4. Started(q) /\ Via(q) = upstream[q].link
  BY <1>0 DEF Started, Via
<1> QED
  BY <1>0, <1>1, <1>2, <1>3, <1>4, SentUpOwned DEF Answers

LEMMA RetryOwned ==
  ASSUME IInv, NEW q \in Request, Retry(q) PROVE Owned'
<1>0. TypeOK
  BY Attachments
<1>1. /\ \A p \in Request : /\ upstream'[p].st = upstream[p].st /\ upstream'[p].body = upstream[p].body
                            /\ SameAsk(upstream[p], upstream'[p])
      /\ UNCHANGED <<gateway, callers, frames>> /\ \A w \in Whose : AskKeeps(w)
  BY <1>0, RetryDoes, SameAsks
<1>2. CallersGoOn
  BY <1>1, CallersUntouched
<1>3. \A k \in Link, c \in Channel : Once(down[k], OpenOn(c))
  BY DEF IInv, Owned, OwnedDown
<1>4. OwnedDown' /\ OwnedUp'
  BY <1>1, <1>2, <1>3, OwnedDownStays, OwnedUpStays DEF AskKeeps, CallersGoOn, frames
<1>5. OwnBodies'
  BY <1>1, OwnBodiesStay DEF SameAsk, gateway
<1> QED
  BY <1>4, <1>5 DEF Owned

LEMMA SocketOpensOwned ==
  ASSUME IInv, NEW b \in Browser, SocketOpens(b) PROVE Owned'
<1>0. TypeOK /\ socket[b].got = <<>>
  BY Attachments DEF SocketOpens
<1>1. /\ UNCHANGED <<gateway, callers, frames, upstream>> /\ \A w \in Whose : AskKeeps(w)
  BY <1>0, SocketOpensDoes, SameAsks
<1>2. CallersGoOn
  BY <1>1, CallersUntouched
<1> QED
  BY <1>1, <1>2, OwnedStays DEF frames, gateway

LEMMA SocketSendsOwned ==
  ASSUME IInv, NEW b \in Browser, SocketSends(b) PROVE Owned'
<1>0. /\ TypeOK /\ socket[b].link \in Link /\ socket[b].channel \in Channel
      /\ b \in Whose /\ b \notin Request /\ socket[b].st = "open"
  BY Attachments, Sets DEF SocketSends
<1> DEFINE e == Frame("data", socket[b].channel, <<b, socket[b].n + 1>>)
           F == <<e>>
<1>1. /\ F \in Seq(UpFrame) /\ toGateway' = Up(socket[b].link, F)
      /\ UNCHANGED <<gateway, callers, link, down, agent, tables, upstream>>
      /\ \A w \in Whose : w # b => DshKeeps(w)
  BY <1>0, SocketSendsDoes
<1>2. AskKeeps(b)
  BY <1>0, SocketSendsDoes DEF AskKeeps
<1>3. \A w \in Whose : AskKeeps(w)
  BY <1>0, <1>1, <1>2, SameAsks
<1>4. Started(b) /\ Via(b) = socket[b].link /\ On(b) = socket[b].channel
  BY <1>0 DEF Started, Via, On
<1>5. e.type = "data" /\ e.channel = socket[b].channel /\ e.data[1] = b
  BY DEF Frame
<1> HIDE DEF e
<1>6. \A f \in In(F) : f = e
  BY DEF In
<1>7. OwnBodies'
  BY <1>1, OwnBodiesStay DEF gateway
<1> HIDE DEF F
<1> QED
  BY <1>0, <1>1, <1>3, <1>4, <1>5, <1>6, <1>7, SentUpOwned

LEMMA SocketClosesOwned ==
  ASSUME IInv, NEW b \in Browser, SocketCloses(b) PROVE Owned'
<1>0. /\ TypeOK /\ socket[b].link \in Link /\ socket[b].channel \in Channel
      /\ b \in Whose /\ b \notin Request /\ socket[b].st # "none"
  BY Attachments, Sets DEF SocketCloses
<1> DEFINE e == Frame("close", socket[b].channel, <<>>)
           F == <<e>>
<1>1. /\ F \in Seq(UpFrame) /\ toGateway' = Up(socket[b].link, F)
      /\ UNCHANGED <<gateway, callers, link, down, agent, tables, upstream>>
      /\ \A w \in Whose : AskKeeps(w)
  BY <1>0, SocketClosesDoes, SameAsks
<1>4. Started(b) /\ Via(b) = socket[b].link /\ On(b) = socket[b].channel
  BY <1>0 DEF Started, Via, On
<1>5. e.type = "close" /\ e.channel = socket[b].channel
  BY DEF Frame
<1> HIDE DEF e
<1>6. \A f \in In(F) : f = e
  BY DEF In
<1>7. OwnBodies'
  BY <1>1, OwnBodiesStay DEF gateway
<1> HIDE DEF F
<1> QED
  BY <1>0, <1>1, <1>4, <1>5, <1>6, <1>7, SentUpOwned

LEMMA GatewayReadsOwned ==
  ASSUME IInv, NEW k \in Link, GatewayReads(k) PROVE Owned'
<1>0. TypeOK
  BY Attachments
<1>1. PICK f \in UpFrame :
        /\ Hearing(k, f)
        /\ \/ streams[f.channel] # Nobody /\ StreamFrame(f, streams[f.channel])
           \/ wsChannels[f.channel] # Nobody /\ BrowserFrame(f, wsChannels[f.channel])
           \/ /\ streams[f.channel] = Nobody /\ wsChannels[f.channel] = Nobody
              /\ UNCHANGED <<streams, wsChannels, callers>>
  BY <1>0, HearingDoes
<1>2. f.channel \in Channel
  BY UpFrames
<1>3. /\ TypeOK' /\ (\A q \in Request : response'[q].channel = response[q].channel)
      /\ \A b \in Browser : browser'[b].channel = browser[b].channel /\ browser'[b].n = browser[b].n
  <2>1. CASE UNCHANGED <<streams, wsChannels, callers>>
    BY <1>0, <1>1, <2>1, HearingNothing DEF callers
  <2>2. CASE streams[f.channel] # Nobody /\ StreamFrame(f, streams[f.channel])
    <3>1. PICK q \in Request : q = streams[f.channel]
      BY <1>0, <1>2, <2>2 DEF TypeOK
    <3>2. /\ TypeOK' /\ UNCHANGED browser /\ response'[q].channel = response[q].channel
          /\ \A p \in Request : p # q => response'[p] = response[p]
      BY <1>0, <1>1, <2>2, <3>1, StreamFrameDoes
    <3> QED
      BY <3>2
  <2>3. CASE wsChannels[f.channel] # Nobody /\ BrowserFrame(f, wsChannels[f.channel])
    <3>1. PICK b \in Browser : b = wsChannels[f.channel]
      BY <1>0, <1>2, <2>3 DEF TypeOK
    <3>2. /\ TypeOK' /\ UNCHANGED response
          /\ browser'[b].channel = browser[b].channel /\ browser'[b].n = browser[b].n
          /\ \A v \in Browser : v # b => browser'[v] = browser[v]
      BY <1>0, <1>1, <2>3, <3>1, BrowserFrameDoes
    <3> QED
      BY <3>2
  <2> QED
    BY <1>1, <2>1, <2>2, <2>3
<1>4. \A w \in Whose : Chan(w)' = Chan(w)
  BY <1>3 DEF Chan, Whose
<1>5. CallersGoOn
  BY <1>0, <1>3, <1>4, CallersKept
<1>6. /\ UNCHANGED <<boots, down, upstream, socket>>
      /\ \A j \in Link : j # k => toGateway'[j] = toGateway[j]
  BY <1>1 DEF Hearing, dsh
<1>7. \A w \in Whose : AskKeeps(w)
  BY <1>0, <1>6, SameAsks, SameParties DEF dsh
<1>8. In(toGateway'[k]) \subseteq In(toGateway[k])
  <2>1. toGateway[k] \in Seq(UpFrame) /\ toGateway[k] # <<>> /\ toGateway'[k] = Tail(toGateway[k])
    BY <1>0, <1>1, Parts DEF Hearing
  <2> QED
    BY <2>1, InAfter
<1>9. \A j \in Link, c \in Channel : Once(down[j], OpenOn(c))
  BY DEF IInv, Owned, OwnedDown
<1>10. OwnedDown'
  BY <1>5, <1>6, <1>7, <1>9, OwnedDownStays DEF AskKeeps
<1>11. OwnedUp'
  BY <1>4, <1>6, <1>7, <1>8, OwnedUpStays DEF AskKeeps
<1>12. OwnBodies'
  BY <1>6, OwnBodiesStay
<1> QED
  BY <1>10, <1>11, <1>12 DEF Owned
-------------------------------------------------------------------------------
(* The third layer, upwards: what is read continues what was read.                *)

LEMMA ChainWeaker ==
  ASSUME NEW s, NEW c, NEW low \in Nat, NEW high \in Nat, NEW more \in Nat, high <= more,
         Chain(s, c, low, high)
  PROVE  Chain(s, c, low, more)
BY DEF Chain

(* Who listens on a channel has it, and what was asked for him is of this process.   *)
LEMMA Listeners ==
  ASSUME IInv, NEW w \in Whose, NEW c \in Channel, Listening(w, c)
  PROVE  /\ Chan(w) = c /\ c # 0 /\ ~Idle(w) /\ FlowsUp(w, c) /\ (w \in Request => Heads(w, c))
         /\ Started(w) => Current(w) /\ On(w) = c /\ Via(w) \in Link
<1>1. Chan(w) = c /\ c # 0
  BY Attachments, Sets DEF Listening, ChannelsAgree
<1>2. ~Idle(w) /\ FlowsUp(w, c) /\ (w \in Request => Heads(w, c))
  BY <1>1, Attachments DEF IInv, FlowingUp
<1>3. Started(w) => Current(w) /\ On(w) = c /\ Via(w) \in Link
  BY <1>1, StartedHere DEF Current
<1> QED
  BY <1>1, <1>2, <1>3

LEMMA FlowsUpStays ==
  ASSUME IInv, NEW w \in Whose, NEW c \in Channel, Listening(w, c),
         Heard(w)' = Heard(w), AskKeeps(w), Given(w)' = Given(w),
         \A k \in Link : /\ toGateway'[k] = toGateway[k]
                         /\ link'[k] = "open" => link[k] \in {"open", "unused"}
  PROVE  FlowsUp(w, c)'
<1>1. FlowsUp(w, c)
  BY Listeners
<1>2. CASE ~Started(w)
  BY <1>1, <1>2 DEF FlowsUp, AskKeeps
<1>3. CASE Started(w)
  <2>1. Via(w) \in Link /\ link[Via(w)] # "unused"
    BY <1>3, Attachments DEF DshAgrees
  <2> QED
    BY <1>1, <1>3, <2>1 DEF FlowsUp, AskKeeps
<1> QED
  BY <1>2, <1>3

LEMMA HeadsStay ==
  ASSUME IInv, NEW q \in Request, NEW c \in Channel, Listening(q, c), Heard(q)' = Heard(q),
         upstream'[q].link = upstream[q].link, upstream'[q].n = upstream[q].n,
         upstream'[q].st = "none" <=> upstream[q].st = "none",
         upstream[q].st = "done" => upstream'[q].st = "done",
         \A k \in Link : toGateway'[k] = toGateway[k]
  PROVE  Heads(q, c)'
<1>1. Heads(q, c)
  BY Listeners, Sets
<1>2. upstream[q].st # "none" => upstream[q].link \in Link
  BY Attachments
<1> QED
  BY <1>1, <1>2 DEF Heads

(* The histories of a request that a step does not make longer.                   *)
HistoriesKept ==
  /\ \A q \in Request :
       /\ response'[q].out = response[q].out /\ response'[q].buf = response[q].buf
       /\ response'[q].st = "ended" => response[q].st = "ended"
       /\ upstream'[q].n = upstream[q].n /\ (upstream'[q].st = "done" <=> upstream[q].st = "done")
       /\ upstream'[q].st \in {"none", "awaiting", "sent"} =>
            upstream[q].st \in {"none", "awaiting", "sent"}
  /\ \A b \in Browser : browser'[b].got = browser[b].got
  /\ \A w \in Whose : Idle(w)' => Idle(w)

LEMMA HistoriesStay ==
  ASSUME IInv, HistoriesKept
  PROVE  /\ \A w \in Whose : Heard(w)' = Heard(w) /\ (Idle(w)' => Heard(w)' = 0)
         /\ \A q \in Request : Reads(q)'
         /\ \A b \in Browser : IsFirstOf(browser'[b].got, b)
<1>1. \A w \in Whose : Heard(w)' = Heard(w)
  BY Sets DEF HistoriesKept, Heard
<1>2. \A w \in Whose : Idle(w)' => Heard(w)' = 0
  BY <1>1 DEF HistoriesKept, IInv, FlowingUp
<1>3. \A q \in Request : Reads(q)'
  BY DEF HistoriesKept, IInv, FlowingUp, Reads
<1>4. \A b \in Browser : IsFirstOf(browser'[b].got, b)
  BY DEF HistoriesKept, IInv, FlowingUp
<1> QED
  BY <1>1, <1>2, <1>3, <1>4

LEMMA FlowingUpStays ==
  ASSUME IInv, HistoriesKept, \A w \in Whose : AskKeeps(w),
         \A b \in Browser : socket'[b].n = socket[b].n,
         \A w \in Whose, c \in Channel : Listening(w, c)' => Listening(w, c),
         \/ \A w \in Whose, c \in Channel : ~Listening(w, c)'
         \/ \A k \in Link : /\ toGateway'[k] = toGateway[k]
                            /\ link'[k] = "open" => link[k] \in {"open", "unused"}
  PROVE  FlowingUp'
<1>1. /\ \A w \in Whose : Heard(w)' = Heard(w) /\ (Idle(w)' => Heard(w)' = 0)
      /\ \A q \in Request : Reads(q)'
      /\ \A b \in Browser : IsFirstOf(browser'[b].got, b)
  BY HistoriesStay
<1>2. \A w \in Whose : Given(w)' = Given(w)
  BY Sets DEF HistoriesKept, Given
<1>3. \A w \in Whose, c \in Channel : Listening(w, c)' => FlowsUp(w, c)'
  BY <1>1, <1>2, FlowsUpStays
<1>4. ASSUME NEW q \in Request, NEW c \in Channel, Listening(q, c)' PROVE Heads(q, c)'
  <2>1. q \in Whose
    BY Sets
  <2>2. /\ upstream'[q].link = upstream[q].link
        /\ upstream'[q].st = "none" <=> upstream[q].st = "none"
    BY <2>1 DEF AskKeeps, Via, Started
  <2> QED
    BY <1>1, <1>4, <2>1, <2>2, HeadsStay DEF HistoriesKept
<1> QED
  BY <1>1, <1>3, <1>4 DEF FlowingUp

LEMMA ConnectFlowingUp ==
  ASSUME IInv, NEW k \in Link, Connect(k) PROVE FlowingUp'
<1>0. TypeOK
  BY Attachments
<1>1. /\ link'[k] = "open" /\ \A j \in Link : j # k => link'[j] = link[j]
      /\ \A w \in Whose : CallerKeeps(w) /\ AskKeeps(w)
  BY <1>0, ConnectDoes, SameAsks
<1>2. /\ UNCHANGED <<streams, wsChannels, response, browser, toGateway, upstream, socket>>
      /\ link[k] = "unused"
  BY DEF Connect, callers, dsh
<1>3. HistoriesKept
  BY <1>1, <1>2 DEF HistoriesKept, CallerKeeps
<1> QED
  BY <1>1, <1>2, <1>3, FlowingUpStays DEF Listening

LEMMA LinkBreaksFlowingUp ==
  ASSUME IInv, LinkBreaks PROVE FlowingUp'
<1>0. TypeOK
  BY Attachments
<1>1. /\ link'[agent] = "lost" /\ \A j \in Link : j # agent => link'[j] = link[j]
      /\ \A w \in Whose : CallerKeeps(w) /\ AskKeeps(w)
  BY <1>0, LinkBreaksDoes, SameAsks
<1>2. UNCHANGED <<streams, wsChannels, response, browser, toGateway, upstream, socket>>
  BY DEF LinkBreaks, callers, dsh, gateway
<1>3. HistoriesKept
  BY <1>1, <1>2 DEF HistoriesKept, CallerKeeps
<1> QED
  BY <1>1, <1>2, <1>3, FlowingUpStays DEF Listening

LEMMA LinkClosedFlowingUp ==
  ASSUME IInv, NEW k \in Link, LinkClosed(k) PROVE FlowingUp'
<1>0. TypeOK
  BY Attachments
<1>1. /\ \A w \in Whose : AskKeeps(w)
      /\ \A q \in Request :
           /\ response'[q].out = response[q].out /\ response'[q].buf = response[q].buf
           /\ response'[q].st = IF \E c \in Channel : streams[c] = q THEN "failed" ELSE response[q].st
      /\ \A b \in Browser :
           /\ browser'[b].got = browser[b].got
           /\ browser'[b].st = IF \E c \in Channel : wsChannels[c] = b THEN "closed" ELSE browser[b].st
  BY <1>0, LinkClosedDoes, SameAsks
<1>2. UNCHANGED <<upstream, socket>> /\ \A c \in Channel : streams'[c] = Nobody /\ wsChannels'[c] = Nobody
  BY DEF LinkClosed, dsh
<1>3. HistoriesKept
  <2>1. \A w \in Whose : Idle(w)' => Idle(w)
    BY <1>1 DEF Idle, Whose
  <2> QED
    BY <1>1, <1>2, <2>1 DEF HistoriesKept
<1>4. \A w \in Whose, c \in Channel : ~Listening(w, c)'
  BY <1>2, Sets DEF Listening
<1> QED
  BY <1>1, <1>2, <1>3, <1>4, FlowingUpStays

LEMMA ProcessEndsFlowingUp ==
  ASSUME IInv, ProcessEnds PROVE FlowingUp'
<1>0. TypeOK
  BY Attachments
<1>1. /\ \A w \in Whose : AskKeeps(w)
      /\ \A q \in Request :
           /\ response'[q].out = response[q].out /\ response'[q].buf = response[q].buf
           /\ response'[q].st = IF response[q].st = "waiting" THEN "lost" ELSE response[q].st
      /\ \A b \in Browser :
           /\ browser'[b].got = browser[b].got
           /\ browser'[b].st = IF browser[b].st = "open" THEN "closed" ELSE browser[b].st
  BY <1>0, ProcessEndsDoes, SameAsks
<1>2. UNCHANGED <<upstream, socket>> /\ \A c \in Channel : streams'[c] = Nobody /\ wsChannels'[c] = Nobody
  BY DEF ProcessEnds, dsh
<1>3. HistoriesKept
  <2>1. \A w \in Whose : Idle(w)' => Idle(w)
    BY <1>1 DEF Idle, Whose
  <2> QED
    BY <1>1, <1>2, <2>1 DEF HistoriesKept
<1>4. \A w \in Whose, c \in Channel : ~Listening(w, c)'
  BY <1>2, Sets DEF Listening
<1> QED
  BY <1>1, <1>2, <1>3, <1>4, FlowingUpStays

LEMMA BootFlowingUp ==
  ASSUME IInv, Boot PROVE FlowingUp'
<1>0. TypeOK
  BY Attachments
<1>1. \A w \in Whose : CallerKeeps(w) /\ AskKeeps(w)
  BY <1>0, BootDoes, SameAsks
<1>2. UNCHANGED <<streams, wsChannels, response, browser, link, toGateway, upstream, socket>>
  BY DEF Boot, callers, dsh, frames
<1>3. HistoriesKept
  BY <1>1, <1>2 DEF HistoriesKept, CallerKeeps
<1> QED
  BY <1>1, <1>2, <1>3, FlowingUpStays DEF Listening

(* A party that is given a channel has heard nothing, and dsh knows nothing of it.   *)
LEMMA AllocatesFlowingUp ==
  ASSUME IInv, NEW w \in Whose, Idle(w), Allocates(w), HistoriesKept,
         UNCHANGED <<toGateway, link, upstream, socket>>,
         \A v \in Whose, c \in Channel : Listening(v, c)' => v = w \/ Listening(v, c)
  PROVE  FlowingUp'
<1>0. TypeOK /\ ~Started(w) /\ Heard(w) = 0
  BY Attachments DEF ChannelsAgree, IInv, FlowingUp
<1>1. /\ \A v \in Whose : Heard(v)' = Heard(v) /\ (Idle(v)' => Heard(v)' = 0)
      /\ \A q \in Request : Reads(q)'
      /\ \A b \in Browser : IsFirstOf(browser'[b].got, b)
  BY HistoriesStay
<1>2. \A v \in Whose : AskKeeps(v) /\ Given(v)' = Given(v)
  BY <1>0, SameAsks DEF Allocates, DshKeeps
<1>3. ASSUME NEW v \in Whose, NEW c \in Channel, Listening(v, c)' PROVE FlowsUp(v, c)'
  <2>1. CASE v = w
    BY <1>0, <1>1, <1>2, <2>1 DEF FlowsUp, AskKeeps
  <2>2. CASE v # w
    BY <1>1, <1>2, <1>3, <2>2, FlowsUpStays
  <2> QED
    BY <2>1, <2>2
<1>4. ASSUME NEW q \in Request, NEW c \in Channel, Listening(q, c)' PROVE Heads(q, c)'
  <2>0. q \in Whose
    BY Sets
  <2>1. CASE q = w
    BY <1>0, <2>1 DEF Heads, Started
  <2>2. CASE q # w
    BY <1>1, <1>4, <2>0, <2>2, HeadsStay
  <2> QED
    BY <2>1, <2>2
<1> QED
  BY <1>1, <1>3, <1>4 DEF FlowingUp

LEMMA RelayFlowingUp ==
  ASSUME IInv, NEW q \in Request, Relay(q) PROVE FlowingUp'
<1>0. TypeOK /\ ChannelsAgree /\ q \in Whose /\ Idle(q)
  BY Attachments, Sets DEF Relay, Idle
<1>1. /\ Allocates(q) /\ streams' = [streams EXCEPT ![NextChannel] = q]
      /\ response'[q].st = "waiting" /\ response'[q].out = response[q].out
      /\ response'[q].buf = response[q].buf
      /\ \A p \in Request : p # q => response'[p] = response[p]
  BY <1>0, RelayDoes
<1>2. UNCHANGED <<toGateway, link, upstream, socket, wsChannels, browser>>
  BY DEF Relay, dsh
<1>3. HistoriesKept
  <2>1. \A w \in Whose : Idle(w)' => Idle(w)
    BY <1>0, <1>1 DEF Allocates, CallerKeeps
  <2>2. \A p \in Request : /\ response'[p].out = response[p].out /\ response'[p].buf = response[p].buf
                           /\ response'[p].st = "ended" => response[p].st = "ended"
    BY <1>1
  <2> QED
    BY <1>2, <2>1, <2>2 DEF HistoriesKept
<1>4. \A v \in Whose, c \in Channel : Listening(v, c)' => v = q \/ Listening(v, c)
  <2>1. \A c \in Channel : streams'[c] = q \/ streams'[c] = streams[c]
    BY <1>0, <1>1 DEF TypeOK
  <2> QED
    BY <1>2, <2>1 DEF Listening
<1> QED
  BY <1>0, <1>1, <1>2, <1>3, <1>4, AllocatesFlowingUp

LEMMA BrowserOpensFlowingUp ==
  ASSUME IInv, NEW b \in Browser, BrowserOpens(b) PROVE FlowingUp'
<1>0. TypeOK /\ ChannelsAgree /\ b \in Whose /\ Idle(b)
  BY Attachments, Sets DEF BrowserOpens, Idle
<1>1. /\ Allocates(b) /\ wsChannels' = [wsChannels EXCEPT ![NextChannel] = b]
      /\ browser'[b].got = browser[b].got
      /\ \A v \in Browser : v # b => browser'[v] = browser[v]
  BY <1>0, BrowserOpensDoes
<1>2. UNCHANGED <<toGateway, link, upstream, socket, streams, response>>
  BY DEF BrowserOpens, dsh
<1>3. HistoriesKept
  <2>1. \A w \in Whose : Idle(w)' => Idle(w)
    BY <1>0, <1>1 DEF Allocates, CallerKeeps
  <2>2. \A v \in Browser : browser'[v].got = browser[v].got
    BY <1>1
  <2> QED
    BY <1>2, <2>1, <2>2 DEF HistoriesKept
<1>4. \A v \in Whose, c \in Channel : Listening(v, c)' => v = b \/ Listening(v, c)
  <2>1. \A c \in Channel : wsChannels'[c] = b \/ wsChannels'[c] = wsChannels[c]
    BY <1>0, <1>1 DEF TypeOK
  <2> QED
    BY <1>2, <2>1 DEF Listening
<1> QED
  BY <1>0, <1>1, <1>2, <1>3, <1>4, AllocatesFlowingUp

LEMMA BrowserSendsFlowingUp ==
  ASSUME IInv, NEW b \in Browser, NEW c \in Channel, BrowserSends(b, c) PROVE FlowingUp'
<1>0. TypeOK
  BY Attachments
<1>1. /\ \A w \in Whose : CallerKeeps(w) /\ AskKeeps(w)
      /\ \A v \in Browser : browser'[v].got = browser[v].got
  BY <1>0, BrowserSendsDoes, SameAsks
<1>2. UNCHANGED <<streams, wsChannels, response, link, toGateway, upstream, socket>>
  BY DEF BrowserSends, gateway, dsh
<1>3. HistoriesKept
  BY <1>1, <1>2 DEF HistoriesKept, CallerKeeps
<1> QED
  BY <1>1, <1>2, <1>3, FlowingUpStays DEF Listening

LEMMA BrowserClosesFlowingUp ==
  ASSUME IInv, NEW b \in Browser, NEW c \in Channel, BrowserCloses(b, c) PROVE FlowingUp'
<1>0. TypeOK
  BY Attachments
<1>1. /\ \A w \in Whose : CallerKeeps(w) /\ AskKeeps(w)
      /\ \A v \in Browser : browser'[v].got = browser[v].got
  BY <1>0, BrowserClosesDoes, SameAsks
<1>2. /\ UNCHANGED <<streams, response, link, toGateway, upstream, socket>>
      /\ wsChannels' = [wsChannels EXCEPT ![c] = Nobody]
  BY DEF BrowserCloses, dsh
<1>3. HistoriesKept
  BY <1>1, <1>2 DEF HistoriesKept, CallerKeeps
<1>4. \A w \in Whose, d \in Channel : Listening(w, d)' => Listening(w, d)
  <2>1. \A d \in Channel : wsChannels'[d] = IF d = c THEN Nobody ELSE wsChannels[d]
    BY <1>0, <1>2 DEF TypeOK
  <2> QED
    BY <1>2, <2>1, Sets DEF Listening
<1> QED
  BY <1>1, <1>2, <1>3, <1>4, FlowingUpStays

LEMMA RelayTimeoutFlowingUp ==
  ASSUME IInv, NEW c \in Channel, RelayTimeout(c) PROVE FlowingUp'
<1>0. TypeOK
  BY Attachments
<1>1. PICK p \in Request : p = streams[c]
  BY <1>0, RelayTimeoutDoes
<1>2. /\ \A w \in Whose : CallerKeeps(w) /\ AskKeeps(w)
      /\ \A q \in Request :
           /\ response'[q].out = response[q].out /\ response'[q].buf = response[q].buf
           /\ q # p => response'[q] = response[q]
      /\ response'[p].st = "failed"
  BY <1>0, <1>1, RelayTimeoutDoes, SameAsks
<1>3. /\ UNCHANGED <<wsChannels, browser, link, toGateway, upstream, socket>>
      /\ streams' = [streams EXCEPT ![c] = Nobody]
  BY DEF RelayTimeout, frames, dsh
<1>4. HistoriesKept
  <2>1. \A q \in Request : response'[q].st = "ended" => response[q].st = "ended"
    BY <1>2
  <2> QED
    BY <1>2, <1>3, <2>1 DEF HistoriesKept, CallerKeeps
<1>5. \A w \in Whose, d \in Channel : Listening(w, d)' => Listening(w, d)
  <2>1. \A d \in Channel : streams'[d] = IF d = c THEN Nobody ELSE streams[d]
    BY <1>0, <1>3 DEF TypeOK
  <2> QED
    BY <1>3, <2>1, Sets DEF Listening
<1> QED
  BY <1>2, <1>3, <1>4, <1>5, FlowingUpStays

(* The party w is started: nothing is on its way up to it yet.                    *)
LEMMA StartsFlowingUp ==
  ASSUME IInv, NEW f \in DownFrame, Reading(f), NEW w \in Whose, ~Started(w), Started(w)',
         Via(w)' = agent, Given(w)' = 0, HistoriesKept,
         \A v \in Whose : v # w => AskKeeps(v) /\ Given(v)' = Given(v),
         w \in Request => upstream'[w].st \in {"awaiting", "sent"}
  PROVE  FlowingUp'
<1>0. TypeOK /\ agent \in Link /\ UNCHANGED <<streams, wsChannels, toGateway, link>>
  BY Attachments DEF Reading, gateway
<1>1. /\ \A v \in Whose : Heard(v)' = Heard(v) /\ (Idle(v)' => Heard(v)' = 0)
      /\ \A q \in Request : Reads(q)'
      /\ \A b \in Browser : IsFirstOf(browser'[b].got, b)
  BY HistoriesStay
<1>2. \A v \in Whose, c \in Channel : Listening(v, c)' => Listening(v, c)
  BY <1>0 DEF Listening
<1> DEFINE s == toGateway[agent]
<1>3. ASSUME NEW c \in Channel, Listening(w, c)
      PROVE  /\ In(s) \cap DataOn(c) = {} /\ In(s) \cap OwnOn(c) = {} /\ In(s) \cap EndOn(c) = {}
             /\ Heard(w) = 0
  <2>1. Chan(w) = c /\ Heard(w) = 0
    BY <1>3, Listeners DEF FlowsUp
  <2>2. \A g \in In(s) : g.channel # c
    BY <1>0, <2>1, OwnerOf DEF UpIsOf
  <2> QED
    BY <2>1, <2>2 DEF DataOn, OwnOn, EndOn
<1>4. ASSUME NEW v \in Whose, NEW c \in Channel, Listening(v, c)' PROVE FlowsUp(v, c)'
  <2>1. CASE v = w
    <3>1. /\ In(s) \cap DataOn(c) = {} /\ Heard(w)' = 0
      BY <1>1, <1>2, <1>3, <1>4, <2>1
    <3>2. Chain(s, c, 0, 0) /\ Complete(s, c, 0, 0)
      BY <3>1, NoData DEF Complete
    <3>3. toGateway'[Via(w)'] = s
      BY <1>0
    <3> HIDE DEF s
    <3> QED
      BY <2>1, <3>1, <3>2, <3>3 DEF FlowsUp
  <2>2. CASE v # w
    BY <1>0, <1>1, <1>2, <1>4, <2>2, FlowsUpStays
  <2> QED
    BY <2>1, <2>2
<1>5. ASSUME NEW q \in Request, NEW c \in Channel, Listening(q, c)' PROVE Heads(q, c)'
  <2>0. q \in Whose
    BY Sets
  <2>1. CASE q = w
    <3>1. /\ In(s) \cap DataOn(c) = {} /\ In(s) \cap OwnOn(c) = {} /\ In(s) \cap EndOn(c) = {}
      BY <1>2, <1>3, <1>5, <2>0, <2>1
    <3>2. Precedes(s, OwnOn(c), DataOn(c)) /\ Precedes(s, DataOn(c), EndOn(c))
      BY <3>1, NoData
    <3>3. toGateway'[upstream'[q].link] = s
      <4>1. upstream'[q].link = agent
        BY <2>1 DEF Via
      <4> QED
        BY <1>0, <4>1
    <3> HIDE DEF s
    <3> QED
      BY <3>1, <3>2, <3>3 DEF Heads
  <2>2. CASE q # w
    <3>1. /\ upstream'[q].link = upstream[q].link /\ upstream'[q].n = upstream[q].n
          /\ upstream'[q].st = "none" <=> upstream[q].st = "none"
      BY <2>0, <2>2 DEF AskKeeps, Given, Via, Started
    <3> QED
      BY <1>0, <1>1, <1>2, <1>5, <2>0, <3>1, HeadsStay DEF HistoriesKept
  <2> QED
    BY <2>1, <2>2
<1> QED
  BY <1>1, <1>4, <1>5 DEF FlowingUp

LEMMA OnRequestFlowingUp ==
  ASSUME IInv, NEW f \in DownFrame, Reading(f), f.type = "request", OnRequest(f.data[1], f.channel)
  PROVE  FlowingUp'
<1>0. TypeOK /\ UNCHANGED callers
  BY Attachments DEF Reading
<1>1. PICK q \in Request : q = f.data[1] /\ ~Started(q)
  BY StartedByOwn
<1>2. PICK c \in Channel : c = f.channel
  BY DownFrames
<1>3. /\ upstream'[q] = Asked(q, c) /\ \A p \in Request : p # q => upstream'[p] = upstream[p]
      /\ \A w \in Whose : (Idle(w)' = Idle(w)) /\ (w # q => DshKeeps(w))
  BY <1>0, <1>1, <1>2, OnRequestDoes
<1> DEFINE s == Asked(q, c)
<1>4. s.n = 0 /\ s.link = agent /\ s.st = IF q \in WithBody THEN "awaiting" ELSE "sent"
  BY <1>0, AskedIs DEF TypeOK
<1>5. upstream'[q] = s
  BY <1>3
<1> HIDE DEF s
<1>6. upstream'[q].n = 0 /\ upstream'[q].link = agent /\ upstream'[q].st \in {"awaiting", "sent"}
  BY <1>4, <1>5
<1>7. q \in Whose /\ Started(q)' /\ Via(q)' = agent /\ Given(q)' = 0
  BY <1>6, Sets DEF Started, Via, Given
<1>8. upstream[q].st = "none" /\ upstream[q].n = 0
  BY <1>1 DEF Started, IInv, FlowingUp, Reads
<1>9. HistoriesKept
  BY <1>0, <1>3, <1>6, <1>8 DEF HistoriesKept, callers
<1> QED
  BY <1>0, <1>1, <1>3, <1>6, <1>7, <1>9, StartsFlowingUp, SameAsks DEF DshKeeps

LEMMA OnOpenFlowingUp ==
  ASSUME IInv, NEW f \in DownFrame, Reading(f), f.type = "open", OnOpen(f.data[1], f.channel)
  PROVE  FlowingUp'
<1>0. TypeOK /\ UNCHANGED callers
  BY Attachments DEF Reading
<1>1. PICK b \in Browser : b = f.data[1] /\ ~Started(b)
  BY StartedByOwn
<1>2. PICK c \in Channel : c = f.channel
  BY DownFrames
<1>3. /\ socket'[b] = Opened(c) /\ UNCHANGED upstream
      /\ \A w \in Whose : (Idle(w)' = Idle(w)) /\ (w # b => DshKeeps(w))
  BY <1>0, <1>1, <1>2, OnOpenDoes
<1> DEFINE s == Opened(c)
<1>4. s.n = 0 /\ s.link = agent /\ s.st = "connecting"
  BY <1>0, OpenedIs DEF TypeOK
<1>5. socket'[b] = s
  BY <1>3
<1> HIDE DEF s
<1>6. b \in Whose /\ b \notin Request /\ Started(b)' /\ Via(b)' = agent /\ Given(b)' = 0
  BY <1>4, <1>5, Sets DEF Started, Via, Given
<1>7. HistoriesKept
  BY <1>0, <1>3 DEF HistoriesKept, callers
<1> QED
  BY <1>0, <1>1, <1>3, <1>6, <1>7, StartsFlowingUp, SameAsks DEF DshKeeps

LEMMA OnDataFlowingUp ==
  ASSUME IInv, NEW f \in DownFrame, Reading(f), f.type = "data", OnData(f.channel, f.data)
  PROVE  FlowingUp'
<1>0. TypeOK /\ DshAgrees /\ \A b \in Browser : socket[b].st = "open" => socket[b].queue = <<>>
  BY Attachments
<1>1. PICK c \in Channel : c = f.channel
  BY DownFrames
<1>2. PICK x \in Item : x = f.data
  BY DownFrames
<1>3. \/ /\ wsUpstreams[c] \in Browser
         /\ socket'[wsUpstreams[c]] = Delivered(socket[wsUpstreams[c]], x)
         /\ \A v \in Browser : v # wsUpstreams[c] => socket'[v] = socket[v]
         /\ UNCHANGED <<pendingBodies, upstream>>
      \/ /\ wsUpstreams[c] = Nobody /\ pendingBodies[c] \in Request
         /\ upstream'[pendingBodies[c]] =
              [upstream[pendingBodies[c]] EXCEPT !.st = "sent", !.body = x]
         /\ \A p \in Request : p # pendingBodies[c] => upstream'[p] = upstream[p]
         /\ pendingBodies' = [pendingBodies EXCEPT ![c] = Nobody] /\ UNCHANGED socket
      \/ wsUpstreams[c] = Nobody /\ UNCHANGED <<pendingBodies, upstream, socket>>
  BY <1>0, <1>1, <1>2, OnDataDoes
<1>4. \A w \in Whose : Idle(w)' = Idle(w)
  BY <1>0, OnDataDoes
<1>5. UNCHANGED <<streams, wsChannels, response, browser, link, toGateway>>
  BY DEF Reading, gateway, callers
<1>6. CASE wsUpstreams[c] \in Browser /\ UNCHANGED <<pendingBodies, upstream>>
           /\ socket'[wsUpstreams[c]] = Delivered(socket[wsUpstreams[c]], x)
           /\ \A v \in Browser : v # wsUpstreams[c] => socket'[v] = socket[v]
  <2>1. PICK b \in Browser : b = wsUpstreams[c]
    BY <1>6
  <2> DEFINE s == Delivered(socket[b], x)
  <2>2. socket[b] \in SocketRecord /\ (socket[b].st = "open" => socket[b].queue = <<>>)
    BY <1>0, Parts
  <2>3. SameAsk(socket[b], s) /\ s.st = socket[b].st /\ s.n = socket[b].n
    BY <1>1, <2>2, DeliveredIs
  <2>4. socket'[b] = s
    BY <1>6, <2>1
  <2> HIDE DEF s
  <2>5. AskKeeps(b)
    BY <1>0, <2>3, <2>4, SameAsks
  <2>6. \A w \in Whose : AskKeeps(w)
    BY <1>0, <1>6, <2>1, <2>5, SameAsks, SameParties DEF Whose
  <2>7. \A v \in Browser : socket'[v].n = socket[v].n
    BY <1>6, <2>1, <2>3, <2>4
  <2>8. HistoriesKept
    BY <1>4, <1>5, <1>6 DEF HistoriesKept
  <2> QED
    BY <1>5, <2>6, <2>7, <2>8, FlowingUpStays DEF Listening
<1>7. CASE /\ pendingBodies[c] \in Request
           /\ upstream'[pendingBodies[c]] =
                 [upstream[pendingBodies[c]] EXCEPT !.st = "sent", !.body = x]
           /\ \A p \in Request : p # pendingBodies[c] => upstream'[p] = upstream[p]
           /\ UNCHANGED socket
  <2>1. PICK q \in Request : q = pendingBodies[c]
    BY <1>7
  <2> DEFINE s == [upstream[q] EXCEPT !.st = "sent", !.body = x]
  <2>2. SameAsk(upstream[q], s) /\ s.st = "sent" /\ s.n = upstream[q].n
    <3>1. upstream[q] \in UpstreamRecord
      BY <1>0, Parts
    <3>2. \A r \in UpstreamRecord : LET t == [r EXCEPT !.st = "sent", !.body = x] IN
            SameAsk(r, t) /\ t.st = "sent" /\ t.n = r.n
      BY Upstreams
    <3> QED
      BY <3>1, <3>2
  <2>3. upstream'[q] = s
    BY <1>7, <2>1
  <2> HIDE DEF s
  <2>4. upstream[q].st = "awaiting"
    BY <1>0, <2>1 DEF DshAgrees
  <2>5. AskKeeps(q)
    BY <1>0, <2>2, <2>3, <2>4, SameAsks
  <2>6. \A w \in Whose : AskKeeps(w)
    BY <1>0, <1>7, <2>1, <2>5, SameAsks, SameParties DEF Whose
  <2>7. HistoriesKept
    <3>1. \A p \in Request :
            /\ upstream'[p].n = upstream[p].n /\ (upstream'[p].st = "done" <=> upstream[p].st = "done")
            /\ upstream'[p].st \in {"none", "awaiting", "sent"} =>
                 upstream[p].st \in {"none", "awaiting", "sent"}
      BY <1>7, <2>1, <2>2, <2>3, <2>4
    <3> QED
      BY <1>4, <1>5, <3>1 DEF HistoriesKept
  <2> QED
    BY <1>5, <1>7, <2>6, <2>7, FlowingUpStays DEF Listening
<1>8. CASE UNCHANGED <<upstream, socket>>
  <2>1. \A w \in Whose : AskKeeps(w)
    BY <1>0, <1>8, SameAsks, SameParties DEF dsh
  <2>2. HistoriesKept
    BY <1>4, <1>5, <1>8 DEF HistoriesKept
  <2> QED
    BY <1>5, <1>8, <2>1, <2>2, FlowingUpStays DEF Listening
<1> QED
  BY <1>3, <1>6, <1>7, <1>8

LEMMA OnCloseFlowingUp ==
  ASSUME IInv, NEW f \in DownFrame, Reading(f), f.type = "close", OnClose(f.channel)
  PROVE  FlowingUp'
<1>0. TypeOK /\ DshAgrees
  BY Attachments
<1>1. f.channel \in Channel /\ UNCHANGED upstream /\ \A w \in Whose : Idle(w)' = Idle(w)
  BY <1>0, OnCloseDoes
<1>2. \A b \in Browser :
        /\ SameAsk(socket[b], socket'[b]) /\ socket'[b].n = socket[b].n
        /\ \/ socket'[b].st = socket[b].st
           \/ wsUpstreams[f.channel] = b /\ socket'[b].st \in {"closing", "closed"}
  BY <1>0, OnCloseDoes
<1>3. \A w \in Whose : AskKeeps(w)
  <2>1. \A b \in Browser : wsUpstreams[f.channel] = b => socket[b].st # "none"
    BY <1>0, <1>1, Sets DEF DshAgrees, Started
  <2>2. \A b \in Browser : AskKeeps(b)
    BY <1>0, <1>2, <2>1, SameAsks
  <2>3. \A q \in Request : AskKeeps(q)
    <3>1. \A q \in Request : DshKeeps(q)
      BY <1>1, SameParties
    <3> QED
      BY <1>0, <3>1, SameAsks, Sets
  <2> QED
    BY <2>2, <2>3 DEF Whose
<1>4. UNCHANGED <<streams, wsChannels, response, browser, link, toGateway>>
  BY DEF Reading, gateway, callers
<1>5. HistoriesKept
  BY <1>1, <1>4 DEF HistoriesKept
<1> QED
  BY <1>2, <1>3, <1>4, <1>5, FlowingUpStays DEF Listening

LEMMA AgentReadsFlowingUp ==
  ASSUME IInv, AgentReads PROVE FlowingUp'
BY Attachments, ReadingDoes, OnRequestFlowingUp, OnOpenFlowingUp, OnDataFlowingUp, OnCloseFlowingUp

LEMMA RetryFlowingUp ==
  ASSUME IInv, NEW q \in Request, Retry(q) PROVE FlowingUp'
<1>0. TypeOK
  BY Attachments
<1>1. /\ \A p \in Request : upstream'[p].st = upstream[p].st /\ upstream'[p].n = upstream[p].n
      /\ UNCHANGED <<gateway, callers, frames, socket>>
      /\ \A w \in Whose : AskKeeps(w) /\ Idle(w)' = Idle(w)
  BY <1>0, RetryDoes, SameAsks
<1>2. HistoriesKept
  BY <1>1 DEF HistoriesKept, callers
<1> QED
  BY <1>1, <1>2, FlowingUpStays DEF Listening, gateway, frames

LEMMA SocketOpensFlowingUp ==
  ASSUME IInv, NEW b \in Browser, SocketOpens(b) PROVE FlowingUp'
<1>0. TypeOK /\ socket[b].got = <<>> /\ b \in Whose /\ b \notin Request
  BY Attachments, Sets DEF SocketOpens
<1>1. /\ UNCHANGED <<gateway, callers, frames, upstream>>
      /\ \A v \in Browser : v # b => socket'[v] = socket[v]
      /\ \A w \in Whose : AskKeeps(w) /\ DshKeeps(w) /\ Idle(w)' = Idle(w)
  BY <1>0, SocketOpensDoes, SameAsks
<1>2. HistoriesKept
  BY <1>1 DEF HistoriesKept, callers
<1>3. \A v \in Browser : socket'[v].n = socket[v].n
  BY <1>1, Sets DEF DshKeeps, Given
<1> QED
  BY <1>1, <1>2, <1>3, FlowingUpStays DEF Listening, gateway, frames

(* What goes up a link: nothing of the data of w, or its next one.                 *)
LEMMA SendsUp ==
  ASSUME IInv, NEW w \in Whose, NEW c \in Channel, Listening(w, c),
         NEW k \in Link, NEW F \in Seq(UpFrame), toGateway' = Up(k, F), UNCHANGED link,
         AskKeeps(w), Heard(w)' = Heard(w),
         \/ /\ Given(w)' = Given(w)
            /\ link[k] = "open" => In(F) \cap DataOn(c) = {}
         \/ /\ Started(w) /\ k = Via(w) /\ Given(w)' = Given(w) + 1
            /\ \E f \in DataOn(c) \cap UpFrame : F = <<f>> /\ f.data[2] = Given(w)'
  PROVE  FlowsUp(w, c)'
<1>0. TypeOK /\ FlowsUp(w, c) /\ Heard(w) \in Nat /\ Given(w) \in Nat
  BY Attachments, Listeners, PartyTypes
<1>1. CASE ~Started(w)
  BY <1>0, <1>1 DEF FlowsUp, AskKeeps
<1>2. CASE Started(w)
  <2>1. PICK v \in Link : v = Via(w)
    BY <1>2, StartedHere
  <2> DEFINE s == toGateway[v] low == Heard(w) high == Given(w)
  <2>2. /\ low <= high /\ Chain(s, c, low, high) /\ (link[v] = "open" => Complete(s, c, low, high))
        /\ low \in Nat /\ high \in Nat /\ s \in Seq(UpFrame)
    BY <1>0, <1>2, <2>1, Parts DEF FlowsUp
  <2>3. toGateway'[v] = IF v = k /\ link[v] = "open" THEN s \o F ELSE s
    BY SentUp
  <2> SUFFICES /\ low <= Given(w)' /\ Chain(toGateway'[v], c, low, Given(w)')
               /\ link[v] = "open" => Complete(toGateway'[v], c, low, Given(w)')
    BY <1>2, <2>1 DEF FlowsUp, AskKeeps
  <2>4. CASE Given(w)' = Given(w) /\ (link[k] = "open" => In(F) \cap DataOn(c) = {})
    <3>1. Given(w)' = high
      BY <2>4
    <3> HIDE DEF low, high, s
    <3>2. In(F) \cap DataOn(c) = {} =>
            /\ Chain(s \o F, c, low, high)
            /\ Complete(s, c, low, high) => Complete(s \o F, c, low, high)
      BY <2>2, ChainKept
    <3> QED
      BY <2>2, <2>3, <2>4, <3>1, <3>2
  <2>5. CASE /\ k = Via(w) /\ Given(w)' = Given(w) + 1
             /\ \E f \in DataOn(c) \cap UpFrame : F = <<f>> /\ f.data[2] = Given(w)'
    <3>1. PICK f \in UpFrame : f \in DataOn(c) /\ F = <<f>> /\ f.data[2] = high + 1
      BY <2>5
    <3>2. Given(w)' = high + 1
      BY <2>5
    <3> HIDE DEF low, high, s
    <3>3. /\ Complete(s, c, low, high) => Chain(s \o F, c, low, high + 1)
          /\ Complete(s \o F, c, low, high + 1)
      BY <2>2, <3>1, ChainGrows
    <3>4. Chain(s, c, low, high + 1) /\ low <= high + 1
      BY <2>2, ChainWeaker
    <3> QED
      BY <2>1, <2>2, <2>3, <2>5, <3>2, <3>3, <3>4
  <2> QED
    BY <2>4, <2>5
<1> QED
  BY <1>1, <1>2

LEMMA OthersHeads ==
  ASSUME IInv, NEW q \in Request, NEW c \in Channel, Listening(q, c),
         NEW k \in Link, NEW F \in Seq(UpFrame), toGateway' = Up(k, F),
         upstream'[q] = upstream[q], Heard(q)' = Heard(q),
         link[k] = "open" => In(F) \cap (DataOn(c) \cup OwnOn(c) \cup EndOn(c)) = {}
  PROVE  Heads(q, c)'
<1>0. TypeOK /\ Heads(q, c) /\ Heard(q) \in Nat /\ upstream[q].n \in Nat
  BY Attachments, Listeners, PartyTypes, Sets DEF Given
<1>1. CASE upstream[q].st = "none"
  BY <1>1 DEF Heads
<1>2. CASE upstream[q].st # "none"
  <2>1. PICK v \in Link : v = upstream[q].link
    BY <1>2, Attachments
  <2> DEFINE s == toGateway[v]
  <2>2. /\ s \in Seq(UpFrame)
        /\ Precedes(s, OwnOn(c), DataOn(c)) /\ Precedes(s, DataOn(c), EndOn(c))
        /\ In(s) \cap OwnOn(c) # {} => Heard(q) = 0
        /\ In(s) \cap EndOn(c) # {} =>
             upstream[q].st = "done" /\ Complete(s, c, Heard(q), upstream[q].n)
    BY <1>0, <1>2, <2>1, Parts DEF Heads
  <2>3. toGateway'[v] = IF v = k /\ link[v] = "open" THEN s \o F ELSE s
    BY SentUp
  <2> HIDE DEF s
  <2>4. CASE toGateway'[v] = s
    BY <1>2, <2>1, <2>2, <2>4 DEF Heads
  <2>5. CASE toGateway'[v] = s \o F /\ In(F) \cap (DataOn(c) \cup OwnOn(c) \cup EndOn(c)) = {}
    <3>1. In(s \o F) = In(s) \cup In(F)
      BY <2>2, InAfter
    <3>2. Precedes(F, OwnOn(c), DataOn(c)) /\ Precedes(F, DataOn(c), EndOn(c))
      BY <2>5, NoData
    <3>3. \A G \in Seq(UpFrame) : Precedes(G, OwnOn(c), DataOn(c)) /\ In(G) \cap OwnOn(c) = {} =>
            Precedes(s \o G, OwnOn(c), DataOn(c))
      BY <2>2, PrecedesAfter
    <3>4. \A G \in Seq(UpFrame) : Precedes(G, DataOn(c), EndOn(c)) /\ In(G) \cap DataOn(c) = {} =>
            Precedes(s \o G, DataOn(c), EndOn(c))
      BY <2>2, PrecedesAfter
    <3>5. Precedes(s \o F, OwnOn(c), DataOn(c)) /\ Precedes(s \o F, DataOn(c), EndOn(c))
      BY <2>5, <3>2, <3>3, <3>4
    <3>6. Complete(s, c, Heard(q), upstream[q].n) => Complete(s \o F, c, Heard(q), upstream[q].n)
      BY <1>0, <2>2, <2>5, ChainKept
    <3> QED
      BY <1>2, <2>1, <2>2, <2>5, <3>1, <3>5, <3>6 DEF Heads
  <2> QED
    BY <2>3, <2>4, <2>5
<1> QED
  BY <1>1, <1>2

LEMMA AnswersHeads ==
  ASSUME IInv, NEW q \in Request, NEW c \in Channel, Listening(q, c),
         NEW st \in {"answering", "done"}, NEW n \in 0 .. Chunks, NEW F \in Seq(UpFrame),
         Answers(q, c, st, n, F), upstream'[q].st = st, upstream'[q].n = n, Heard(q)' = Heard(q),
         upstream'[q].link = upstream[q].link, toGateway' = Up(upstream[q].link, F)
  PROVE  Heads(q, c)'
<1>0. /\ TypeOK /\ Heads(q, c) /\ FlowsUp(q, c) /\ Heard(q) \in Nat /\ upstream[q].n \in Nat
      /\ q \in Whose /\ Started(q) /\ upstream[q].st \in {"sent", "answering"}
      /\ Reads(q) /\ Given(q) = upstream[q].n
  BY Attachments, Listeners, PartyTypes, Sets DEF Given, Started, Answers, IInv, FlowingUp
<1>1. PICK v \in Link : v = upstream[q].link /\ v = Via(q)
  BY <1>0, Attachments DEF Via
<1> DEFINE s == toGateway[v]
<1>2. /\ s \in Seq(UpFrame)
      /\ Precedes(s, OwnOn(c), DataOn(c)) /\ Precedes(s, DataOn(c), EndOn(c))
      /\ In(s) \cap OwnOn(c) # {} => Heard(q) = 0
      /\ In(s) \cap EndOn(c) = {}
  BY <1>0, <1>1, Parts DEF Heads
<1>3. /\ Heard(q) <= upstream[q].n /\ Chain(s, c, Heard(q), upstream[q].n)
      /\ link[v] = "open" => Complete(s, c, Heard(q), upstream[q].n)
  BY <1>0, <1>1 DEF FlowsUp
<1>4. toGateway'[v] = IF link[v] = "open" THEN s \o F ELSE s
  BY <1>1, SentUp
<1>5. upstream[q].st = "sent" => upstream[q].n = 0 /\ In(s) \cap DataOn(c) = {}
  <2>1. upstream[q].st = "sent" => upstream[q].n = 0
    BY <1>0 DEF Reads
  <2> HIDE DEF s
  <2>2. upstream[q].n = 0 => In(s) \cap DataOn(c) = {}
    <3>1. ASSUME upstream[q].n = 0, NEW i \in DOMAIN s, s[i] \in DataOn(c) PROVE FALSE
      <4>1. s[i].data[2] \in (Heard(q) + 1) .. 0
        BY <1>3, <3>1 DEF Chain
      <4> QED
        BY <1>0, <4>1
    <3> QED
      BY <3>1 DEF In
  <2> QED
    BY <2>1, <2>2
<1> HIDE DEF s
<1>6. CASE toGateway'[v] = s
  BY <1>1, <1>2, <1>6 DEF Heads
<1>7. CASE link[v] = "open" /\ toGateway'[v] = s \o F
  <2>1. In(s \o F) = In(s) \cup In(F)
    BY <1>2, InAfter
  <2>2. \A G \in Seq(UpFrame) :
          /\ Precedes(G, OwnOn(c), DataOn(c)) /\ (In(G) \cap OwnOn(c) = {} \/ In(s) \cap DataOn(c) = {})
               => Precedes(s \o G, OwnOn(c), DataOn(c))
          /\ Precedes(G, DataOn(c), EndOn(c)) /\ (In(G) \cap DataOn(c) = {} \/ In(s) \cap EndOn(c) = {})
               => Precedes(s \o G, DataOn(c), EndOn(c))
    <3>1. \A G \in Seq(UpFrame) :
            Precedes(G, OwnOn(c), DataOn(c)) /\ (In(G) \cap OwnOn(c) = {} \/ In(s) \cap DataOn(c) = {})
               => Precedes(s \o G, OwnOn(c), DataOn(c))
      BY <1>2, PrecedesAfter
    <3>2. \A G \in Seq(UpFrame) :
            Precedes(G, DataOn(c), EndOn(c)) /\ (In(G) \cap DataOn(c) = {} \/ In(s) \cap EndOn(c) = {})
               => Precedes(s \o G, DataOn(c), EndOn(c))
      BY <1>2, PrecedesAfter
    <3> QED
      BY <3>1, <3>2
  <2>3. CASE /\ upstream[q].st = "sent" /\ st = "answering" /\ n = 0
             /\ In(F) \cap (DataOn(c) \cup EndOn(c)) = {}
    <3>1. Precedes(F, OwnOn(c), DataOn(c)) /\ Precedes(F, DataOn(c), EndOn(c))
      BY <2>3, NoData
    <3>2. Precedes(s \o F, OwnOn(c), DataOn(c)) /\ Precedes(s \o F, DataOn(c), EndOn(c))
      BY <1>2, <1>5, <2>2, <2>3, <3>1
    <3>3. Heard(q) = 0 /\ In(s \o F) \cap EndOn(c) = {}
      BY <1>0, <1>2, <1>3, <1>5, <2>1, <2>3
    <3> QED
      BY <1>1, <1>7, <3>2, <3>3 DEF Heads
  <2>4. CASE /\ upstream[q].st = "answering" /\ st = "answering"
             /\ \E f \in DataOn(c) \cap UpFrame : F = <<f>> /\ f.data[2] = n
    <3>1. PICK f \in DataOn(c) : F = <<f>>
      BY <2>4
    <3>2. In(F) = {f} /\ f.type = "data"
      BY <3>1 DEF In, DataOn
    <3>3. In(F) \cap OwnOn(c) = {} /\ In(F) \cap EndOn(c) = {}
      BY <3>2 DEF OwnOn, EndOn
    <3>4. Precedes(F, OwnOn(c), DataOn(c)) /\ Precedes(F, DataOn(c), EndOn(c))
      BY <3>3 DEF In, Precedes
    <3>5. Precedes(s \o F, OwnOn(c), DataOn(c)) /\ Precedes(s \o F, DataOn(c), EndOn(c))
      BY <1>2, <2>2, <3>3, <3>4
    <3>6. In(s \o F) \cap EndOn(c) = {} /\ (In(s \o F) \cap OwnOn(c) # {} => Heard(q) = 0)
      BY <1>2, <2>1, <3>3
    <3> QED
      BY <1>1, <1>7, <3>5, <3>6 DEF Heads
  <2>5. CASE /\ st = "done" /\ n = IF upstream[q].st = "sent" THEN 0 ELSE upstream[q].n
             /\ In(F) \cap (DataOn(c) \cup OwnOn(c)) = {}
    <3>1. Precedes(F, OwnOn(c), DataOn(c)) /\ Precedes(F, DataOn(c), EndOn(c))
      BY <2>5, NoData
    <3>2. Precedes(s \o F, OwnOn(c), DataOn(c)) /\ Precedes(s \o F, DataOn(c), EndOn(c))
      BY <2>2, <2>5, <3>1
    <3>3. n = upstream[q].n
      BY <1>5, <2>5
    <3>4. Complete(s \o F, c, Heard(q), n)
      BY <1>0, <1>2, <1>3, <1>7, <2>5, <3>3, ChainKept
    <3>5. In(s \o F) \cap OwnOn(c) # {} => Heard(q) = 0
      BY <1>2, <2>1, <2>5
    <3> QED
      BY <1>1, <1>7, <2>5, <3>2, <3>4, <3>5 DEF Heads
  <2> QED
    BY <2>3, <2>4, <2>5 DEF Answers
<1> QED
  BY <1>4, <1>6, <1>7

(* The rest of the gateway's side is as it was: only w goes on.                    *)
LEMMA OnlyOneGoesOn ==
  ASSUME IInv, UNCHANGED <<streams, wsChannels, callers, link>>, \A v \in Whose : AskKeeps(v),
         NEW w \in Whose, Started(w), NEW k \in Link, k = Via(w),
         NEW F \in Seq(UpFrame), toGateway' = Up(k, F), \A f \in In(F) : f.channel = On(w),
         \A v \in Whose : v # w => Given(v)' = Given(v),
         \A q \in Request : q # w => upstream'[q] = upstream[q],
         \A c \in Channel : Listening(w, c) =>
           FlowsUp(w, c)' /\ (w \in Request => Heads(w, c)'),
         \A q \in Request : q = w => Reads(q)'
  PROVE  FlowingUp'
<1>0. TypeOK /\ \A v \in Whose : (Heard(v)' = Heard(v)) /\ (Idle(v)' = Idle(v))
  BY Attachments, SameParties DEF callers, CallerKeeps
<1>1. \A v \in Whose : Idle(v)' => Heard(v)' = 0
  BY <1>0 DEF IInv, FlowingUp
<1>2. \A v \in Whose, c \in Channel : Listening(v, c)' <=> Listening(v, c)
  BY DEF Listening
<1>3. \A b \in Browser : IsFirstOf(browser'[b].got, b)
  BY DEF IInv, FlowingUp, callers
<1>4. \A q \in Request : Reads(q)'
  <2>1. \A q \in Request : q # w => Reads(q)'
    BY DEF IInv, FlowingUp, Reads, callers
  <2> QED
    BY <2>1
<1>5. ASSUME NEW v \in Whose, v # w, NEW c \in Channel, Listening(v, c)
      PROVE  link[k] = "open" => \A f \in In(F) : f.channel # c
  <2>1. Chan(v) = c /\ c # 0
    BY <1>5, Listeners
  <2>2. link[k] = "open" => On(w) = Chan(w)
    BY StartedHere DEF Current
  <2>3. Chan(w) # c
    BY <1>5, <2>1, Attachments DEF ChannelsAgree
  <2> QED
    BY <2>2, <2>3
<1>6. ASSUME NEW v \in Whose, NEW c \in Channel, Listening(v, c) PROVE FlowsUp(v, c)'
  <2>1. CASE v # w
    <3>1. link[k] = "open" => In(F) \cap DataOn(c) = {}
      BY <1>5, <1>6, <2>1 DEF DataOn
    <3> QED
      BY <1>0, <1>6, <2>1, <3>1, SendsUp
  <2> QED
    BY <1>6, <2>1
<1>7. ASSUME NEW q \in Request, NEW c \in Channel, Listening(q, c) PROVE Heads(q, c)'
  <2>0. q \in Whose
    BY Sets
  <2>1. CASE q # w
    <3>1. link[k] = "open" => In(F) \cap (DataOn(c) \cup OwnOn(c) \cup EndOn(c)) = {}
      BY <1>5, <1>7, <2>0, <2>1 DEF DataOn, OwnOn, EndOn
    <3> QED
      BY <1>0, <1>7, <2>0, <2>1, <3>1, OthersHeads
  <2> QED
    BY <1>7, <2>1
<1> QED
  BY <1>1, <1>2, <1>3, <1>4, <1>6, <1>7, Sets DEF FlowingUp

LEMMA AnswersFlowingUp ==
  ASSUME IInv, NEW q \in Request, NEW c \in Channel, NEW st \in {"answering", "done"},
         NEW n \in 0 .. Chunks, NEW F \in Seq(UpFrame), Answers(q, c, st, n, F)
  PROVE  FlowingUp'
<1>0. /\ TypeOK /\ q \in Whose /\ upstream[q].link \in Link /\ upstream[q].st \in {"sent", "answering"}
      /\ Started(q) /\ Via(q) = upstream[q].link
  BY Attachments, Sets DEF Answers, Started, Via
<1>1. /\ SameAsk(upstream[q], upstream'[q]) /\ upstream'[q].st = st /\ upstream'[q].n = n
      /\ \A p \in Request : p # q => upstream'[p] = upstream[p]
      /\ toGateway' = Up(upstream[q].link, F)
      /\ UNCHANGED <<gateway, callers, link, down, agent, tables, socket>>
      /\ \A w \in Whose : w # q => DshKeeps(w)
  BY <1>0, AnswerDoes DEF Answers
<1>2. \A w \in Whose : AskKeeps(w) /\ Heard(w)' = Heard(w)
  BY <1>0, <1>1, SameAsks, SameParties DEF CallerKeeps, callers
<1>3. \A f \in In(F) : f.channel = On(q)
  BY DEF Answers
<1>4. UNCHANGED <<streams, wsChannels>>
  BY <1>1 DEF gateway
<1>5. Reads(q) /\ (upstream[q].st = "sent" => upstream[q].n = 0)
  BY DEF IInv, FlowingUp, Reads
<1>6. Reads(q)'
  <2>1. response'[q] = response[q]
    BY <1>1 DEF callers
  <2>2. response[q].st # "ended"
    BY <1>0, <1>5 DEF Reads
  <2> QED
    BY <1>1, <1>5, <2>1, <2>2 DEF Reads
<1>7. ASSUME NEW d \in Channel, Listening(q, d) PROVE FlowsUp(q, d)' /\ Heads(q, d)'
  <2>1. d = c
    BY <1>0, <1>7, Listeners DEF Answers
  <2>2. Given(q) = upstream[q].n /\ Given(q)' = n
    BY <1>1 DEF Given
  <2>9. PICK k \in Link : k = upstream[q].link /\ k = Via(q)
    BY <1>0
  <2>8. toGateway' = Up(k, F) /\ UNCHANGED link /\ AskKeeps(q) /\ Heard(q)' = Heard(q) /\ Listening(q, c)
    BY <1>0, <1>1, <1>2, <1>7, <2>1, <2>9
  <2>3. ASSUME n = upstream[q].n + 1,
               \E f \in DataOn(c) \cap UpFrame : F = <<f>> /\ f.data[2] = n
        PROVE  FlowsUp(q, d)'
    <3>1. /\ Started(q) /\ k = Via(q) /\ Given(q)' = Given(q) + 1
          /\ \E f \in DataOn(c) \cap UpFrame : F = <<f>> /\ f.data[2] = Given(q)'
      BY <1>0, <2>9, <2>2, <2>3
    <3> QED
      BY <1>0, <2>1, <2>8, <3>1, SendsUp
  <2>4. ASSUME n = upstream[q].n, In(F) \cap DataOn(c) = {} PROVE FlowsUp(q, d)'
    BY <1>0, <2>1, <2>8, <2>2, <2>4, SendsUp
  <2>5. FlowsUp(q, d)'
    BY <1>5, <2>3, <2>4 DEF Answers
  <2>6. upstream'[q].link = upstream[q].link
    BY <1>1 DEF SameAsk
  <2>7. Heads(q, d)'
    BY <1>0, <1>1, <1>2, <1>7, <2>1, <2>6, AnswersHeads
  <2> QED
    BY <2>5, <2>7
<1>8. \A w \in Whose : w # q => Given(w)' = Given(w)
  BY <1>1 DEF DshKeeps
<1> QED
  BY <1>0, <1>1, <1>2, <1>3, <1>4, <1>6, <1>7, <1>8, OnlyOneGoesOn

LEMMA SocketSendsFlowingUp ==
  ASSUME IInv, NEW b \in Browser, SocketSends(b) PROVE FlowingUp'
<1>0. /\ TypeOK /\ socket[b].link \in Link /\ socket[b].channel \in Channel
      /\ b \in Whose /\ b \notin Request /\ socket[b].st = "open"
  BY Attachments, Sets DEF SocketSends
<1> DEFINE e == Frame("data", socket[b].channel, <<b, socket[b].n + 1>>)
           F == <<e>>
<1>1. /\ F \in Seq(UpFrame) /\ toGateway' = Up(socket[b].link, F) /\ e \in UpFrame
      /\ UNCHANGED <<gateway, callers, link, down, agent, tables, upstream>>
      /\ \A w \in Whose : w # b => DshKeeps(w)
      /\ socket'[b].n = socket[b].n + 1
  BY <1>0, SocketSendsDoes
<1>2. AskKeeps(b)
  BY <1>0, SocketSendsDoes DEF AskKeeps
<1>3. \A w \in Whose : AskKeeps(w) /\ Heard(w)' = Heard(w)
  BY <1>0, <1>1, <1>2, SameAsks, SameParties DEF CallerKeeps, callers
<1>4. /\ Started(b) /\ Via(b) = socket[b].link /\ On(b) = socket[b].channel
      /\ Given(b) = socket[b].n /\ Given(b)' = Given(b) + 1
  BY <1>0, <1>1 DEF Started, Via, On, Given
<1>5. /\ e.type = "data" /\ e.channel = socket[b].channel /\ e.data[1] = b
      /\ e.data[2] = socket[b].n + 1
  BY DEF Frame
<1> HIDE DEF e
<1>6. \A f \in In(F) : f = e
  BY DEF In
<1>7. e \in DataOn(On(b)) \cap UpFrame
  BY <1>1, <1>4, <1>5 DEF DataOn
<1>8. F = <<e>>
  OBVIOUS
<1> HIDE DEF F
<1>9. ASSUME NEW c \in Channel, Listening(b, c) PROVE FlowsUp(b, c)'
  <2>1. On(b) = c
    BY <1>0, <1>4, <1>9, Listeners
  <2>2. \E f \in DataOn(c) \cap UpFrame : F = <<f>> /\ f.data[2] = Given(b)'
    BY <1>4, <1>5, <1>7, <1>8, <2>1
  <2> QED
    BY <1>0, <1>1, <1>3, <1>4, <1>9, <2>2, SendsUp
<1>10. UNCHANGED <<streams, wsChannels, callers, link>> /\ \A q \in Request : upstream'[q] = upstream[q]
  BY <1>1 DEF gateway
<1>11. \A w \in Whose : w # b => Given(w)' = Given(w)
  BY <1>1 DEF DshKeeps
<1>12. \A f \in In(F) : f.channel = On(b)
  BY <1>4, <1>5, <1>6
<1>13. \A q \in Request : q # b
  BY <1>0
<1> QED
  BY <1>0, <1>1, <1>3, <1>4, <1>9, <1>10, <1>11, <1>12, <1>13, OnlyOneGoesOn

LEMMA SocketClosesFlowingUp ==
  ASSUME IInv, NEW b \in Browser, SocketCloses(b) PROVE FlowingUp'
<1>0. /\ TypeOK /\ socket[b].link \in Link /\ socket[b].channel \in Channel
      /\ b \in Whose /\ b \notin Request /\ socket[b].st # "none"
  BY Attachments, Sets DEF SocketCloses
<1> DEFINE e == Frame("close", socket[b].channel, <<>>)
           F == <<e>>
<1>1. /\ F \in Seq(UpFrame) /\ toGateway' = Up(socket[b].link, F)
      /\ UNCHANGED <<gateway, callers, link, down, agent, tables, upstream>>
      /\ \A w \in Whose : DshKeeps(w)
  BY <1>0, SocketClosesDoes
<1>2. \A w \in Whose : AskKeeps(w) /\ (Heard(w)' = Heard(w)) /\ Given(w)' = Given(w)
  BY <1>0, <1>1, SameAsks, SameParties DEF CallerKeeps, DshKeeps, callers
<1>4. Started(b) /\ Via(b) = socket[b].link /\ On(b) = socket[b].channel
  BY <1>0 DEF Started, Via, On
<1>5. e.type = "close" /\ e.channel = socket[b].channel
  BY DEF Frame
<1> HIDE DEF e
<1>6. \A f \in In(F) : f = e
  BY DEF In
<1> HIDE DEF F
<1>7. \A c : In(F) \cap DataOn(c) = {}
  BY <1>5, <1>6 DEF DataOn
<1>9. ASSUME NEW c \in Channel, Listening(b, c) PROVE FlowsUp(b, c)'
  BY <1>0, <1>1, <1>2, <1>7, <1>9, SendsUp
<1>10. UNCHANGED <<streams, wsChannels, callers, link>> /\ \A q \in Request : upstream'[q] = upstream[q]
  BY <1>1 DEF gateway
<1>12. \A f \in In(F) : f.channel = On(b)
  BY <1>4, <1>5, <1>6
<1>13. \A q \in Request : q # b
  BY <1>0
<1> QED
  BY <1>0, <1>1, <1>2, <1>4, <1>9, <1>10, <1>12, <1>13, OnlyOneGoesOn

(* What is heard next follows what was: sent on, held back, or both.                *)
GoesOn(s, n, x) == \A i \in DOMAIN s : s[i] = <<x, n + i>>

LEMMA HearsAll ==
  ASSUME NEW x, NEW out \in Seq(Item), NEW buf \in Seq(Item), IsFirstOf(out, x),
         GoesOn(buf, Len(out), x)
  PROVE  IsFirstOf(out \o buf, x)
<1>0. /\ Len(out) \in Nat /\ DOMAIN out = 1 .. Len(out) /\ Len(buf) \in Nat /\ DOMAIN buf = 1 .. Len(buf)
      /\ out \o buf \in Seq(Item) /\ Len(out \o buf) = Len(out) + Len(buf)
  BY LenProperties, ConcatProperties
<1>1. ASSUME NEW i \in DOMAIN (out \o buf) PROVE (out \o buf)[i] = <<x, i>>
  <2>1. \/ i \in DOMAIN out /\ (out \o buf)[i] = out[i]
        \/ i > Len(out) /\ i - Len(out) \in DOMAIN buf /\ (out \o buf)[i] = buf[i - Len(out)]
    BY Joined
  <2>2. DOMAIN (out \o buf) \subseteq Nat
    BY <1>0, LenProperties
  <2>3. ASSUME i > Len(out), i - Len(out) \in DOMAIN buf, (out \o buf)[i] = buf[i - Len(out)]
        PROVE  (out \o buf)[i] = <<x, i>>
    <3>1. buf[i - Len(out)] = <<x, Len(out) + (i - Len(out))>>
      BY <2>3 DEF GoesOn
    <3>2. Len(out) + (i - Len(out)) = i
      BY <1>0, <2>2
    <3> QED
      BY <2>3, <3>1, <3>2
  <2> QED
    BY <2>1, <2>3 DEF IsFirstOf
<1> QED
  BY <1>1 DEF IsFirstOf

LEMMA HearsNext ==
  ASSUME NEW x, NEW out \in Seq(Item), NEW buf \in Seq(Item), IsFirstOf(out, x),
         GoesOn(buf, Len(out), x),
         NEW y \in Item, y = <<x, Len(out) + Len(buf) + 1>>
  PROVE  /\ IsFirstOf(out \o buf \o <<y>>, x)
         /\ GoesOn(buf \o <<y>>, Len(out), x)
<1> DEFINE s == out \o buf
<1>1. /\ Len(out) \in Nat /\ Len(buf) \in Nat /\ s \in Seq(Item) /\ Len(s) + 1 = Len(out) + Len(buf) + 1
      /\ \A i \in DOMAIN s : s[i] = <<x, i>>
  BY LenProperties, ConcatProperties, HearsAll DEF IsFirstOf
<1> HIDE DEF s
<1>2. \A i \in DOMAIN (s \o <<y>>) :
        (i \in DOMAIN s /\ (s \o <<y>>)[i] = s[i]) \/ (i = Len(s) + 1 /\ (s \o <<y>>)[i] = y)
  BY <1>1, LastOf
<1>3. IsFirstOf(s \o <<y>>, x)
  BY <1>1, <1>2 DEF IsFirstOf
<1>4. \A i \in DOMAIN (buf \o <<y>>) :
        (i \in DOMAIN buf /\ (buf \o <<y>>)[i] = buf[i]) \/ (i = Len(buf) + 1 /\ (buf \o <<y>>)[i] = y)
  BY LastOf
<1>5. Len(out) + (Len(buf) + 1) = Len(out) + Len(buf) + 1
  BY <1>1
<1> QED
  BY <1>3, <1>4, <1>5 DEF s, GoesOn

(* The frame that the gateway reads, if somebody listens on its channel.            *)
LEMMA HeardIsOf ==
  ASSUME IInv, NEW k \in Link, NEW f \in UpFrame, Hearing(k, f), NEW w \in Whose,
         NEW c \in Channel, Listening(w, c), f.channel = c
  PROVE  UpIsOf(w, f, k) /\ Via(w) = k /\ Started(w) /\ f \in In(toGateway[k])
<1>1. TypeOK /\ toGateway[k] \in Seq(UpFrame)
  BY Attachments, Parts
<1>2. f \in In(toGateway[k])
  BY <1>1, InAfter DEF Hearing
<1>3. f.channel = Chan(w)
  BY Listeners
<1> QED
  BY <1>2, <1>3, OwnerOf DEF UpIsOf

LEMMA HeardFlows ==
  ASSUME IInv, NEW k \in Link, NEW f \in UpFrame, Hearing(k, f), NEW w \in Whose,
         NEW c \in Channel, Listening(w, c),
         Heard(w)' = IF f \in DataOn(c) THEN Heard(w) + 1 ELSE Heard(w)
  PROVE  FlowsUp(w, c)' /\ (w \in Request => Heads(w, c)')
<1>0. /\ TypeOK /\ DshKeeps(w) /\ Heard(w) \in Nat /\ Given(w) \in Nat
      /\ FlowsUp(w, c) /\ (w \in Request => Heads(w, c))
      /\ (w \in Request => upstream'[w] = upstream[w])
  BY Attachments, Listeners, PartyTypes, SameParties DEF Hearing, dsh
<1>1. f \in DataOn(c) => Started(w) /\ Via(w) = k
  BY HeardIsOf DEF DataOn
<1>2. CASE ~Started(w)
  <2>1. ~Started(w)' /\ Heard(w)' = 0
    BY <1>0, <1>1, <1>2 DEF FlowsUp, DshKeeps
  <2> QED
    BY <1>0, <1>2, <2>1 DEF FlowsUp, Heads, Started
<1>3. CASE Started(w)
  <2>1. PICK v \in Link : v = Via(w)
    BY <1>3, StartedHere
  <2> DEFINE s == toGateway[v] low == Heard(w) high == Given(w)
  <2>2. /\ low <= high /\ Chain(s, c, low, high) /\ (link[v] = "open" => Complete(s, c, low, high))
        /\ low \in Nat /\ high \in Nat /\ s \in Seq(UpFrame)
    BY <1>0, <1>3, <2>1, Parts DEF FlowsUp
  <2>3. w \in Request =>
          /\ Precedes(s, OwnOn(c), DataOn(c)) /\ Precedes(s, DataOn(c), EndOn(c))
          /\ In(s) \cap OwnOn(c) # {} => low = 0
          /\ In(s) \cap EndOn(c) # {} => upstream[w].st = "done" /\ Complete(s, c, low, high)
    BY <1>0, <1>3, <2>1 DEF Heads, Started, Via, Given
  <2>4. /\ Started(w)' /\ Via(w)' = v /\ Given(w)' = high /\ link'[v] = link[v]
        /\ (w \in Request => upstream'[w].link = v /\ upstream'[w].n = high)
    BY <1>0, <1>3, <2>1 DEF DshKeeps, Hearing, Via, Given
  <2>5. CASE v # k
    <3>1. toGateway'[v] = s /\ Heard(w)' = low
      BY <1>1, <2>1, <2>5 DEF Hearing
    <3> HIDE DEF s, low, high
    <3> QED
      BY <1>0, <2>2, <2>3, <2>4, <3>1 DEF FlowsUp, Heads
  <2>6. CASE v = k
    <3>1. toGateway'[v] = Tail(s) /\ s # <<>> /\ f = Head(s)
      BY <2>6 DEF Hearing
    <3>2. Heard(w)' = IF f \in DataOn(c) THEN low + 1 ELSE low
      OBVIOUS
    <3> HIDE DEF s, low, high
    <3>3. /\ Head(s) \notin DataOn(c) =>
               /\ Chain(Tail(s), c, low, high)
               /\ Complete(s, c, low, high) => Complete(Tail(s), c, low, high)
          /\ Head(s) \in DataOn(c) =>
               /\ Head(s).data[2] = low + 1 /\ low + 1 <= high
               /\ Chain(Tail(s), c, low + 1, high)
               /\ Complete(s, c, low, high) => Complete(Tail(s), c, low + 1, high)
      BY <2>2, <3>1, ChainRead
    <3>4. FlowsUp(w, c)'
      BY <2>2, <2>4, <3>1, <3>2, <3>3 DEF FlowsUp
    <3>5. In(Tail(s)) \subseteq In(s)
      BY <2>2, <3>1, InAfter
    <3>6. ASSUME w \in Request PROVE Heads(w, c)'
      <4>1. Precedes(Tail(s), OwnOn(c), DataOn(c)) /\ Precedes(Tail(s), DataOn(c), EndOn(c))
        BY <2>2, <2>3, <3>1, <3>6, PrecedesAfter
      <4>2. f \in DataOn(c) => In(s) \cap OwnOn(c) = {}
        BY <2>2, <2>3, <3>1, <3>6, PrecedesAfter
      <4>3. In(Tail(s)) \cap OwnOn(c) # {} => Heard(w)' = 0
        BY <2>3, <3>2, <3>5, <3>6, <4>2
      <4>4. In(Tail(s)) \cap EndOn(c) # {} =>
              upstream'[w].st = "done" /\ Complete(Tail(s), c, Heard(w)', high)
        BY <1>0, <2>3, <3>1, <3>2, <3>3, <3>5, <3>6
      <4> QED
        BY <2>4, <3>1, <3>6, <4>1, <4>3, <4>4 DEF Heads
    <3> QED
      BY <3>4, <3>6
  <2> QED
    BY <2>5, <2>6
<1> QED
  BY <1>2, <1>3

LEMMA HeardFlowingUp ==
  ASSUME IInv, NEW k \in Link, NEW f \in UpFrame, Hearing(k, f),
         \A w \in Whose : (Idle(w)' => Idle(w)) /\ (Idle(w) => Heard(w)' = Heard(w)),
         \A w \in Whose, c \in Channel : Listening(w, c)' => Listening(w, c),
         \A w \in Whose, c \in Channel : Listening(w, c) =>
           Heard(w)' = IF f \in DataOn(c) THEN Heard(w) + 1 ELSE Heard(w),
         \A q \in Request : Reads(q)', \A b \in Browser : IsFirstOf(browser'[b].got, b)
  PROVE  FlowingUp'
<1>1. \A w \in Whose : Idle(w)' => Heard(w)' = 0
  BY DEF IInv, FlowingUp
<1>2. \A w \in Whose, c \in Channel :
        Listening(w, c)' => FlowsUp(w, c)' /\ (w \in Request => Heads(w, c)')
  BY HeardFlows
<1> QED
  BY <1>1, <1>2, Sets DEF FlowingUp

(* One party hears the frame, or nobody does.                                    *)
LEMMA HeardByOne ==
  ASSUME IInv, NEW k \in Link, NEW f \in UpFrame, Hearing(k, f), NEW w \in Whose,
         Listening(w, f.channel), ~Idle(w)',
         Heard(w)' = IF f.type = "data" THEN Heard(w) + 1 ELSE Heard(w),
         \A v \in Whose : v # w => CallerKeeps(v),
         \A v \in Whose, c \in Channel : Listening(v, c)' => Listening(v, c),
         \A q \in Request : Reads(q)', \A b \in Browser : IsFirstOf(browser'[b].got, b)
  PROVE  FlowingUp'
<1>1. f.channel \in Channel /\ Chan(w) = f.channel /\ ~Idle(w)
  BY UpFrames, Listeners
<1>2. \A v \in Whose : (Idle(v)' => Idle(v)) /\ (Idle(v) => Heard(v)' = Heard(v))
  BY <1>1 DEF CallerKeeps
<1>3. ASSUME NEW v \in Whose, NEW c \in Channel, Listening(v, c)
      PROVE  Heard(v)' = IF f \in DataOn(c) THEN Heard(v) + 1 ELSE Heard(v)
  <2>1. Chan(v) = c /\ c # 0
    BY <1>3, Listeners
  <2>2. CASE v = w
    <3>1. f \in DataOn(c) <=> f.type = "data"
      BY <1>1, <2>1, <2>2 DEF DataOn
    <3> QED
      BY <2>2, <3>1
  <2>3. CASE v # w
    <3>1. c # f.channel
      BY <1>1, <2>1, <2>3, Attachments DEF ChannelsAgree
    <3>2. f \notin DataOn(c)
      BY <3>1 DEF DataOn
    <3> QED
      BY <2>3, <3>2 DEF CallerKeeps
  <2> QED
    BY <2>2, <2>3
<1> QED
  BY <1>2, <1>3, HeardFlowingUp

LEMMA NobodyHearsFlowingUp ==
  ASSUME IInv, NEW k \in Link, NEW f \in UpFrame, Hearing(k, f),
         streams[f.channel] = Nobody, wsChannels[f.channel] = Nobody,
         UNCHANGED <<streams, wsChannels, callers>>
  PROVE  FlowingUp'
<1>1. \A w \in Whose : ~Listening(w, f.channel)
  BY Sets DEF Listening
<1>2. \A w \in Whose, c \in Channel : Listening(w, c) => f \notin DataOn(c)
  BY <1>1 DEF DataOn
<1>3. \A w \in Whose : (Idle(w)' = Idle(w)) /\ Heard(w)' = Heard(w)
  BY SameParties DEF callers, CallerKeeps
<1>4. \A q \in Request : Reads(q)'
  BY DEF IInv, FlowingUp, Reads, callers, Hearing, dsh
<1>5. \A b \in Browser : IsFirstOf(browser'[b].got, b)
  BY DEF IInv, FlowingUp, callers
<1>6. \A w \in Whose, c \in Channel : Listening(w, c)' <=> Listening(w, c)
  BY DEF Listening
<1> QED
  BY <1>2, <1>3, <1>4, <1>5, <1>6, HeardFlowingUp

LEMMA BrowserHearsFlowingUp ==
  ASSUME IInv, NEW k \in Link, NEW f \in UpFrame, Hearing(k, f), NEW b \in Browser,
         wsChannels[f.channel] = b, BrowserFrame(f, b)
  PROVE  FlowingUp'
<1>0. /\ TypeOK /\ b \in Whose /\ b \notin Request /\ f.channel \in Channel
      /\ f.type \in {"response", "data", "end", "close"}
      /\ browser[b] \in BrowserRecord /\ IsFirstOf(browser[b].got, b)
  BY Attachments, Sets, UpFrames, Parts DEF IInv, FlowingUp
<1>1. /\ TypeOK' /\ UNCHANGED <<streams, response>>
      /\ \A v \in Browser : v # b => browser'[v] = browser[v]
      /\ browser'[b].channel = browser[b].channel /\ browser'[b].n = browser[b].n
      /\ \/ /\ f.type = "data" /\ UNCHANGED wsChannels /\ browser'[b].st = browser[b].st
            /\ browser'[b].got = browser[b].got \o <<f.data>>
         \/ /\ f.type = "close" /\ wsChannels' = [wsChannels EXCEPT ![f.channel] = Nobody]
            /\ browser'[b].st = "closed" /\ browser'[b].got = browser[b].got
         \/ f.type \in {"response", "end"} /\ UNCHANGED <<wsChannels, browser>>
      /\ \A w \in Whose : DshKeeps(w) /\ (w # b => CallerKeeps(w))
  BY <1>0, BrowserFrameDoes
<1>2. Listening(b, f.channel)
  BY <1>0 DEF Listening
<1>3. ~Idle(b) /\ UpIsOf(b, f, k) /\ Via(b) = k /\ Started(b)
  BY <1>0, <1>2, Listeners, HeardIsOf
<1>4. \A q \in Request : Reads(q)'
  BY <1>1 DEF IInv, FlowingUp, Reads, Hearing, dsh
<1>5. \A w \in Whose, c \in Channel : Listening(w, c)' => Listening(w, c)
  <2>1. \A c \in Channel, w \in Whose : wsChannels'[c] = w => wsChannels[c] = w
    BY <1>0, <1>1, Sets DEF TypeOK
  <2> QED
    BY <1>1, <2>1 DEF Listening
<1>6. f.type = "data" => f.data = <<b, Len(browser[b].got) + 1>> /\ f.data \in Item
  <2> SUFFICES ASSUME f.type = "data" PROVE f.data = <<b, Len(browser[b].got) + 1>> /\ f.data \in Item
    OBVIOUS
  <2> DEFINE s == toGateway[k]
  <2>1. /\ s \in Seq(UpFrame) /\ s # <<>> /\ f = Head(s) /\ f \in DataOn(f.channel)
    BY <1>0, Parts DEF Hearing, DataOn
  <2>2. /\ Heard(b) <= Given(b) /\ Chain(s, f.channel, Heard(b), Given(b))
        /\ Heard(b) \in Nat /\ Given(b) \in Nat
    BY <1>0, <1>2, <1>3, Listeners, PartyTypes DEF FlowsUp
  <2> HIDE DEF s
  <2>3. f.data[2] = Heard(b) + 1
    BY <2>1, <2>2, ChainRead
  <2>4. f.data \in Item /\ f.data = <<f.data[1], f.data[2]>> /\ f.data[1] = b
    BY <1>3, Items, UpFrames DEF UpIsOf
  <2>5. Heard(b) = Len(browser[b].got)
    BY <1>0 DEF Heard
  <2> QED
    BY <2>3, <2>4, <2>5
<1>7. /\ Heard(b)' = IF f.type = "data" THEN Heard(b) + 1 ELSE Heard(b)
      /\ IsFirstOf(browser'[b].got, b)
  <2> DEFINE g == browser[b].got
  <2>1. g \in Seq(Item) /\ <<>> \in Seq(Item) /\ Len(g) \in Nat
    BY <1>0, LenProperties DEF BrowserRecord
  <2>2. Heard(b) = Len(g) /\ Heard(b)' = Len(browser'[b].got) /\ IsFirstOf(g, b)
    BY <1>0 DEF Heard
  <2> HIDE DEF g
  <2>3. f.type = "data" => Len(g \o <<f.data>>) = Len(g) + 1 /\ IsFirstOf(g \o <<f.data>>, b)
    <3> SUFFICES ASSUME f.type = "data"
                 PROVE  Len(g \o <<f.data>>) = Len(g) + 1 /\ IsFirstOf(g \o <<f.data>>, b)
      OBVIOUS
    <3>1. f.data \in Item /\ f.data = <<b, Len(g) + 1>>
      BY <1>6 DEF g
    <3>2. <<f.data>> \in Seq(Item) /\ Len(<<f.data>>) = 1
      BY <3>1, Items
    <3>3. Len(g \o <<f.data>>) = Len(g) + 1
      BY <2>1, <3>2, ConcatProperties
    <3>4. \A i \in DOMAIN (g \o <<f.data>>) :
            \/ i \in DOMAIN g /\ (g \o <<f.data>>)[i] = g[i]
            \/ i = Len(g) + 1 /\ (g \o <<f.data>>)[i] = f.data
      BY <2>1, <3>1, LastOf
    <3> QED
      BY <2>2, <3>1, <3>3, <3>4 DEF IsFirstOf
  <2> QED
    BY <1>1, <2>2, <2>3 DEF g
<1>8. \A v \in Browser : IsFirstOf(browser'[v].got, v)
  BY <1>1, <1>7 DEF IInv, FlowingUp
<1>9. ~Idle(b)'
  BY <1>0, <1>1, <1>3 DEF Idle
<1> QED
  BY <1>0, <1>1, <1>2, <1>4, <1>5, <1>7, <1>8, <1>9, HeardByOne

LEMMA RequestHearsFlowingUp ==
  ASSUME IInv, NEW k \in Link, NEW f \in UpFrame, Hearing(k, f), NEW q \in Request,
         streams[f.channel] = q, StreamFrame(f, q)
  PROVE  FlowingUp'
<1> DEFINE out == response[q].out buf == response[q].buf s == toGateway[k]
<1>0. /\ TypeOK /\ q \in Whose /\ f.channel \in Channel
      /\ f.type \in {"response", "data", "end", "close"} /\ (f.type = "response" => f.data = <<f.data[1]>>)
      /\ response[q] \in ResponseRecord /\ Reads(q) /\ upstream'[q] = upstream[q]
      /\ s \in Seq(UpFrame) /\ s # <<>> /\ f = Head(s)
  BY Attachments, Sets, UpFrames, Parts DEF IInv, FlowingUp, Hearing, dsh
<1>1. /\ TypeOK' /\ UNCHANGED <<wsChannels, browser>>
      /\ \A p \in Request : p # q => response'[p] = response[p]
      /\ response'[q].channel = response[q].channel
      /\ \/ /\ f.type = "response" /\ UNCHANGED streams /\ response'[q].st = response[q].st
            /\ response'[q].out = response[q].out /\ response'[q].buf \in {response[q].buf, <<>>}
            /\ f.data # <<"own">> => response'[q].buf = response[q].buf
         \/ /\ f.type = "data" /\ UNCHANGED streams /\ response'[q].st = response[q].st
            /\ \/ /\ response'[q].buf = <<>>
                  /\ response'[q].out = response[q].out \o response[q].buf \o <<f.data>>
               \/ /\ response'[q].out = response[q].out
                  /\ response'[q].buf = response[q].buf \o <<Decoded(q, f.data)>>
         \/ /\ f.type = "end" /\ streams' = [streams EXCEPT ![f.channel] = Nobody]
            /\ response'[q].st = "ended" /\ response'[q].buf = <<>>
            /\ response'[q].out = response[q].out \o response[q].buf
         \/ f.type = "close" /\ UNCHANGED <<streams, response>>
      /\ \A w \in Whose : DshKeeps(w) /\ (w # q => CallerKeeps(w))
  BY <1>0, StreamFrameDoes
<1>a. /\ UNCHANGED <<wsChannels, browser>> /\ \A p \in Request : p # q => response'[p] = response[p]
      /\ \A w \in Whose : w # q => CallerKeeps(w)
  BY <1>1
<1>b. UNCHANGED streams \/ streams' = [streams EXCEPT ![f.channel] = Nobody]
  BY <1>1
<1>c. f.type = "response" =>
        /\ UNCHANGED streams /\ response'[q].st = response[q].st
        /\ response'[q].out = out /\ response'[q].buf \in {buf, <<>>}
        /\ f.data # <<"own">> => response'[q].buf = buf
  BY <1>1
<1>d. f.type = "data" =>
        /\ UNCHANGED streams /\ response'[q].st = response[q].st
        /\ \/ response'[q].buf = <<>> /\ response'[q].out = out \o buf \o <<f.data>>
           \/ response'[q].out = out /\ response'[q].buf = buf \o <<Decoded(q, f.data)>>
  <2>1. f.type = "data" => f.type # "response" /\ f.type # "end" /\ f.type # "close"
    OBVIOUS
  <2> QED
    BY <1>1, <2>1, Zenon
<1>e. f.type = "end" =>
        response'[q].st = "ended" /\ response'[q].buf = <<>> /\ response'[q].out = out \o buf
  BY <1>1
<1>2. PICK c \in Channel : c = f.channel
  BY <1>0
<1>3. Listening(q, c) /\ streams[c] = q
  BY <1>2 DEF Listening
<1>4. ~Idle(q) /\ UpIsOf(q, f, k) /\ Via(q) = k /\ Started(q) /\ f \in In(s) /\ response[q].st = "waiting"
  <2>1. ~Idle(q) /\ UpIsOf(q, f, k) /\ Via(q) = k /\ Started(q) /\ f \in In(s)
    BY <1>0, <1>2, <1>3, Listeners, HeardIsOf
  <2> QED
    BY <1>3, <2>1, Attachments DEF ChannelsAgree
<1>5. /\ out \in Seq(Item) /\ buf \in Seq(Item) /\ Len(out) \in Nat /\ Len(buf) \in Nat
      /\ Heard(q) = Len(out) + Len(buf) /\ out \o buf \in Seq(Item)
      /\ Len(out \o buf) = Len(out) + Len(buf)
  BY <1>0, LenProperties, ConcatProperties DEF ResponseRecord, Heard
<1>6. /\ FlowsUp(q, c) /\ Heads(q, c) /\ Heard(q) \in Nat /\ Given(q) \in Nat /\ Given(q) = upstream[q].n
  BY <1>0, <1>3, Listeners, PartyTypes DEF Given
<1>7. /\ Heard(q) <= Given(q) /\ Chain(s, c, Heard(q), Given(q))
      /\ Precedes(s, OwnOn(c), DataOn(c)) /\ Precedes(s, DataOn(c), EndOn(c))
      /\ In(s) \cap OwnOn(c) # {} => Heard(q) = 0
      /\ In(s) \cap EndOn(c) # {} =>
           upstream[q].st = "done" /\ Complete(s, c, Heard(q), upstream[q].n)
  BY <1>4, <1>6 DEF FlowsUp, Heads, Via, Started
<1>8. q \notin Cut => IsFirstOf(out, q) /\ GoesOn(buf, Len(out), q)
  BY <1>0 DEF Reads, GoesOn
<1>9. \A p \in Request : p # q => Reads(p)'
  <2>1. \A p \in Request : Reads(p)
    BY DEF IInv, FlowingUp
  <2>2. UNCHANGED upstream
    BY DEF Hearing, dsh
  <2> QED
    BY <1>a, <2>1, <2>2 DEF Reads
<1>10. \A b \in Browser : IsFirstOf(browser'[b].got, b)
  BY <1>a DEF IInv, FlowingUp
<1>11. \A w \in Whose, d \in Channel : Listening(w, d)' => Listening(w, d)
  <2>1. \A d \in Channel, w \in Whose : streams'[d] = w => streams[d] = w
    BY <1>0, <1>b, Sets DEF TypeOK
  <2> QED
    BY <1>a, <2>1 DEF Listening
<1>12. Heard(q)' = Len(response'[q].out) + Len(response'[q].buf)
  BY <1>0 DEF Heard
<1>13. upstream[q].st \in {"none", "awaiting", "sent"} => upstream[q].n = 0
  BY <1>0 DEF Reads
<1> HIDE DEF out, buf, s
<1>14. CASE f.type = "response"
  <2>1. /\ response'[q].st = "waiting" /\ response'[q].out = out
        /\ response'[q].buf \in {buf, <<>>} /\ (f.data # <<"own">> => response'[q].buf = buf)
        /\ UNCHANGED streams
    BY <1>c, <1>4, <1>14
  <2>2. f.data = <<"own">> => buf = <<>>
    <3> SUFFICES ASSUME f.data = <<"own">> PROVE buf = <<>>
      OBVIOUS
    <3>1. f \in OwnOn(c)
      BY <1>2, <1>14 DEF OwnOn
    <3>2. Heard(q) = 0
      BY <1>4, <1>7, <3>1
    <3>3. Len(buf) = 0
      BY <1>5, <3>2
    <3> QED
      BY <1>5, <3>3, EmptySeq
  <2>3. response'[q].buf = buf
    BY <2>1, <2>2
  <2>4. Reads(q)'
    BY <1>0, <1>8, <1>13, <2>1, <2>3 DEF Reads, GoesOn
  <2>5. \A p \in Request : Reads(p)'
    BY <1>9, <2>4
  <2>6. ~Idle(q)' /\ Heard(q)' = Heard(q)
    BY <1>0, <1>5, <1>12, <2>1, <2>3 DEF Idle
  <2> QED
    BY <1>0, <1>a, <1>2, <1>3, <1>10, <1>11, <1>14, <2>5, <2>6, HeardByOne
<1>15. CASE f.type = "data"
  <2>1. /\ response'[q].st = "waiting" /\ UNCHANGED streams
        /\ \/ response'[q].buf = <<>> /\ response'[q].out = out \o buf \o <<f.data>>
           \/ response'[q].out = out /\ response'[q].buf = buf \o <<Decoded(q, f.data)>>
    BY <1>d, <1>4, <1>15
  <2>2. f.data \in Item /\ f.data = <<q, Len(out) + Len(buf) + 1>>
    <3>1. f \in DataOn(c)
      BY <1>2, <1>15 DEF DataOn
    <3>2. f.data[2] = Heard(q) + 1
      BY <1>0, <1>6, <1>7, <3>1, ChainRead
    <3>3. f.data \in Item /\ f.data = <<f.data[1], f.data[2]>> /\ f.data[1] = q
      BY <1>4, <1>15, Items, UpFrames DEF UpIsOf
    <3> QED
      BY <1>5, <3>2, <3>3
  <2>3. Decoded(q, f.data) \in Item /\ (q \notin Cut => Decoded(q, f.data) = f.data)
    BY <2>2, Items DEF Decoded
  <2> DEFINE x == f.data y == Decoded(q, f.data)
  <2>4. x \in Item /\ y \in Item /\ <<x>> \in Seq(Item) /\ <<y>> \in Seq(Item) /\ <<>> \in Seq(Item)
    BY <2>2, <2>3, Items
  <2>5. /\ response'[q].st = "waiting"
        /\ \/ response'[q].buf = <<>> /\ response'[q].out = out \o buf \o <<x>>
           \/ response'[q].out = out /\ response'[q].buf = buf \o <<y>>
        /\ (q \notin Cut => y = x) /\ x = <<q, Len(out) + Len(buf) + 1>>
    BY <2>1, <2>2, <2>3
  <2> HIDE DEF x, y
  <2>6. /\ Len(out \o buf \o <<x>>) = Len(out) + Len(buf) + 1
        /\ Len(buf \o <<y>>) = Len(buf) + 1 /\ Len(<<>>) = 0
    <3>1. Len(<<x>>) = 1 /\ Len(<<y>>) = 1 /\ Len(<<>>) = 0
      OBVIOUS
    <3>2. /\ Len((out \o buf) \o <<x>>) = Len(out \o buf) + Len(<<x>>)
          /\ Len(buf \o <<y>>) = Len(buf) + Len(<<y>>)
      BY <1>5, <2>4, ConcatProperties
    <3> QED
      BY <1>5, <3>1, <3>2
  <2>7. Heard(q)' = Heard(q) + 1
    <3>1. CASE response'[q].buf = <<>> /\ response'[q].out = out \o buf \o <<x>>
      BY <1>5, <1>12, <2>6, <3>1
    <3>2. CASE response'[q].out = out /\ response'[q].buf = buf \o <<y>>
      BY <1>5, <1>12, <2>6, <3>2
    <3> QED
      BY <2>5, <3>1, <3>2
  <2>8. q \notin Cut =>
          /\ IsFirstOf(out \o buf \o <<x>>, q)
          /\ GoesOn(buf \o <<y>>, Len(out), q)
    <3> SUFFICES ASSUME q \notin Cut
                 PROVE  IsFirstOf(out \o buf \o <<x>>, q) /\ GoesOn(buf \o <<y>>, Len(out), q)
      OBVIOUS
    <3>1. IsFirstOf(out, q) /\ GoesOn(buf, Len(out), q) /\ y = x
      BY <1>8, <2>5
    <3> QED
      BY <1>5, <2>4, <2>5, <3>1, HearsNext
  <2>9. Reads(q)'
    <3>1. \A i : i \notin DOMAIN <<>>
      OBVIOUS
    <3>2. upstream'[q].st \in {"none", "awaiting", "sent"} => upstream'[q].n = 0
      BY <1>0, <1>13
    <3>3. CASE response'[q].buf = <<>> /\ response'[q].out = out \o buf \o <<x>>
      BY <2>5, <2>8, <3>1, <3>2, <3>3 DEF Reads
    <3>4. CASE response'[q].out = out /\ response'[q].buf = buf \o <<y>>
      BY <1>8, <2>5, <2>8, <3>2, <3>4 DEF Reads, GoesOn
    <3> QED
      BY <2>5, <3>3, <3>4
  <2>10. \A p \in Request : Reads(p)'
    BY <1>9, <2>9
  <2>11. ~Idle(q)'
    BY <1>0, <2>5 DEF Idle
  <2> QED
    BY <1>0, <1>a, <1>2, <1>3, <1>10, <1>11, <1>15, <2>7, <2>10, <2>11, HeardByOne
<1>16. CASE f.type = "end"
  <2>1. response'[q].st = "ended" /\ response'[q].buf = <<>> /\ response'[q].out = out \o buf
    BY <1>e, <1>16
  <2>2. Heard(q)' = Heard(q)
    BY <1>5, <1>12, <2>1
  <2>3. upstream[q].st = "done" /\ Heard(q) = upstream[q].n
    <3>1. f \in EndOn(c)
      BY <1>2, <1>16 DEF EndOn
    <3>2. upstream[q].st = "done" /\ Complete(s, c, Heard(q), upstream[q].n)
      BY <1>4, <1>7, <3>1
    <3>3. In(s) \cap DataOn(c) = {}
      BY <1>0, <1>7, <3>1, PrecedesAfter
    <3> QED
      BY <3>2, <3>3, NoData
  <2>4. q \notin Cut => IsFirstOf(out \o buf, q)
    BY <1>5, <1>8, HearsAll
  <2>5. Reads(q)'
    <3>1. \A i : i \notin DOMAIN <<>>
      OBVIOUS
    <3>2. Len(out \o buf) = upstream[q].n
      BY <1>5, <2>3
    <3> QED
      BY <1>0, <1>13, <2>1, <2>3, <2>4, <3>1, <3>2 DEF Reads
  <2>6. \A p \in Request : Reads(p)'
    BY <1>9, <2>5
  <2>7. ~Idle(q)'
    BY <1>0, <2>1 DEF Idle
  <2> QED
    BY <1>0, <1>a, <1>2, <1>3, <1>10, <1>11, <1>16, <2>2, <2>6, <2>7, HeardByOne
<1>17. f.type # "close"
  BY <1>0, <1>4 DEF UpIsOf
<1> QED
  BY <1>0, <1>14, <1>15, <1>16, <1>17

LEMMA GatewayReadsFlowingUp ==
  ASSUME IInv, NEW k \in Link, GatewayReads(k) PROVE FlowingUp'
<1>0. TypeOK
  BY Attachments
<1>1. PICK f \in UpFrame :
        /\ Hearing(k, f)
        /\ \/ streams[f.channel] # Nobody /\ StreamFrame(f, streams[f.channel])
           \/ wsChannels[f.channel] # Nobody /\ BrowserFrame(f, wsChannels[f.channel])
           \/ /\ streams[f.channel] = Nobody /\ wsChannels[f.channel] = Nobody
              /\ UNCHANGED <<streams, wsChannels, callers>>
  BY <1>0, HearingDoes
<1>2. /\ streams[f.channel] \in Request \cup {Nobody} /\ wsChannels[f.channel] \in Browser \cup {Nobody}
  BY <1>0, UpFrames, Parts
<1>3. CASE streams[f.channel] # Nobody /\ StreamFrame(f, streams[f.channel])
  BY <1>1, <1>2, <1>3, RequestHearsFlowingUp
<1>4. CASE wsChannels[f.channel] # Nobody /\ BrowserFrame(f, wsChannels[f.channel])
  BY <1>1, <1>2, <1>4, BrowserHearsFlowingUp
<1>5. CASE /\ streams[f.channel] = Nobody /\ wsChannels[f.channel] = Nobody
           /\ UNCHANGED <<streams, wsChannels, callers>>
  BY <1>1, <1>5, NobodyHearsFlowingUp
<1> QED
  BY <1>1, <1>3, <1>4, <1>5
-------------------------------------------------------------------------------
(* The third layer, downwards: what a socket is given continues what it was given.   *)

LEMMA NothingOn ==
  ASSUME NEW s \in Seq(DownFrame), NEW F \in Seq(DownFrame), NEW c, NEW t \in Seq(Item), NEW n \in Nat,
         In(F) \cap DataOn(c) = {}, In(F) \cap OpenOn(c) = {}
  PROVE  /\ Moves(s, c, t, n) => Moves(s \o F, c, t, n)
         /\ \A low \in Nat : Continues(s, c, low, n) => Continues(s \o F, c, low, n)
<1>1. \A low \in Nat : Continues(s, c, low, n) => Continues(s \o F, c, low, n)
  BY ChainKept DEF Continues
<1>2. ASSUME Moves(s, c, t, n) PROVE Moves(s \o F, c, t, n)
  <2>1. /\ Increases(s, c) /\ Above(s, c, t) /\ Precedes(s, OpenOn(c), DataOn(c))
        /\ In(s) \cap OpenOn(c) # {} => Continues(s, c, 0, n)
    BY <1>2 DEF Moves
  <2>2. Increases(s \o F, c)
    BY <2>1, IncreasesAfter
  <2>3. \A G \in Seq(DownFrame) :
          (\A f \in In(G) \cap DataOn(c) : \A j \in DOMAIN t : t[j][2] < f.data[2]) => Above(s \o G, c, t)
    BY <2>1, AboveAfter
  <2>4. Above(s \o F, c, t)
    BY <2>3
  <2>5. Precedes(F, OpenOn(c), DataOn(c))
    BY NoData
  <2>6. \A G \in Seq(DownFrame) :
          Precedes(G, OpenOn(c), DataOn(c)) /\ In(G) \cap OpenOn(c) = {} =>
            Precedes(s \o G, OpenOn(c), DataOn(c))
    BY <2>1, PrecedesAfter
  <2>7. Precedes(s \o F, OpenOn(c), DataOn(c))
    BY <2>5, <2>6
  <2>8. In(s \o F) = In(s) \cup In(F)
    BY InAfter
  <2>9. In(s \o F) \cap OpenOn(c) # {} => Continues(s \o F, c, 0, n)
    BY <1>1, <2>1, <2>8
  <2> QED
    BY <2>2, <2>4, <2>7, <2>9 DEF Moves
<1> QED
  BY <1>1, <1>2

(* One more is sent.                                                          *)
LEMMA OneMore ==
  ASSUME NEW s \in Seq(DownFrame), NEW c, NEW t \in Seq(Item), NEW n \in Nat, NEW f \in DownFrame,
         f \in DataOn(c), f.data[2] = n + 1,
         \A g \in In(s) \cap DataOn(c) : g.data[2] <= n, \A j \in DOMAIN t : t[j][2] <= n
  PROVE  /\ Moves(s, c, t, n) => Moves(s \o <<f>>, c, t, n + 1)
         /\ \A low \in Nat : Continues(s, c, low, n) => Continues(s \o <<f>>, c, low, n + 1)
<1>0. <<f>> \in Seq(DownFrame) /\ In(<<f>>) = {f} /\ f \notin OpenOn(c)
  BY Items DEF In, DataOn, OpenOn
<1>1. ASSUME NEW low \in Nat, Continues(s, c, low, n) PROVE Continues(s \o <<f>>, c, low, n + 1)
  <2>1. low <= n /\ Chain(s, c, low, n) /\ Complete(s, c, low, n)
    BY <1>1 DEF Continues
  <2>2. Chain(s \o <<f>>, c, low, n + 1) /\ Complete(s \o <<f>>, c, low, n + 1)
    BY <2>1, ChainGrows
  <2> QED
    BY <2>1, <2>2 DEF Continues
<1>2. ASSUME Moves(s, c, t, n) PROVE Moves(s \o <<f>>, c, t, n + 1)
  <2>1. /\ Increases(s, c) /\ Above(s, c, t) /\ Precedes(s, OpenOn(c), DataOn(c))
        /\ In(s) \cap OpenOn(c) # {} => Continues(s, c, 0, n)
    BY <1>2 DEF Moves
  <2>2. \A g \in In(s) \cap DataOn(c) : g.data[2] < f.data[2]
    <3>1. \A g \in DataOn(c) : g.data[2] \in Nat
      BY Numbers
    <3> QED
      BY <3>1
  <2>3. Increases(s \o <<f>>, c)
    <3>1. \A g \in DownFrame :
            (\A h \in In(s) \cap DataOn(c) : h.data[2] < g.data[2]) => Increases(s \o <<g>>, c)
      BY <2>1, IncreasesAfter
    <3> QED
      BY <2>2, <3>1
  <2>4. \A j \in DOMAIN t : t[j][2] < f.data[2]
    <3>1. \A j \in DOMAIN t : t[j][2] \in Nat
      <4>1. \A j \in DOMAIN t : t[j] \in Item
        BY LenProperties
      <4> QED
        BY <4>1, Items
    <3> QED
      BY <3>1
  <2>5. Above(s \o <<f>>, c, t)
    <3>1. \A G \in Seq(DownFrame) :
            (\A g \in In(G) \cap DataOn(c) : \A j \in DOMAIN t : t[j][2] < g.data[2]) => Above(s \o G, c, t)
      BY <2>1, AboveAfter
    <3> QED
      BY <1>0, <2>4, <3>1
  <2>6. Precedes(s \o <<f>>, OpenOn(c), DataOn(c))
    <3>1. Precedes(<<f>>, OpenOn(c), DataOn(c))
      BY <1>0 DEF Precedes, In
    <3>2. \A G \in Seq(DownFrame) :
            Precedes(G, OpenOn(c), DataOn(c)) /\ In(G) \cap OpenOn(c) = {} =>
              Precedes(s \o G, OpenOn(c), DataOn(c))
      BY <2>1, PrecedesAfter
    <3> QED
      BY <1>0, <3>1, <3>2
  <2>7. In(s \o <<f>>) = In(s) \cup {f}
    BY LastOf
  <2>8. In(s \o <<f>>) \cap OpenOn(c) # {} => Continues(s \o <<f>>, c, 0, n + 1)
    BY <1>0, <1>1, <2>1, <2>7
  <2> QED
    BY <2>3, <2>5, <2>6, <2>8 DEF Moves
<1> QED
  BY <1>1, <1>2

(* The first is read, by another; by the socket; or it opens the socket.             *)
LEMMA ReadsPast ==
  ASSUME NEW s \in Seq(DownFrame), s # <<>>, NEW c, NEW t \in Seq(Item), NEW n \in Nat,
         Head(s) \notin OpenOn(c)
  PROVE  /\ Moves(s, c, t, n) => Moves(Tail(s), c, t, n)
         /\ Head(s) \notin DataOn(c) =>
              \A low \in Nat : Continues(s, c, low, n) => Continues(Tail(s), c, low, n)
<1>1. ASSUME Head(s) \notin DataOn(c), NEW low \in Nat, Continues(s, c, low, n)
      PROVE  Continues(Tail(s), c, low, n)
  BY <1>1, ChainRead DEF Continues
<1>2. ASSUME Moves(s, c, t, n) PROVE Moves(Tail(s), c, t, n)
  <2>1. /\ Increases(s, c) /\ Above(s, c, t) /\ Precedes(s, OpenOn(c), DataOn(c))
        /\ In(s) \cap OpenOn(c) # {} => Continues(s, c, 0, n)
    BY <1>2 DEF Moves
  <2>2. Increases(Tail(s), c)
    BY <2>1, IncreasesAfter
  <2>3. Above(Tail(s), c, t)
    BY <2>1, AboveAfter
  <2>4. Precedes(Tail(s), OpenOn(c), DataOn(c)) /\ (Head(s) \in DataOn(c) => In(s) \cap OpenOn(c) = {})
    BY <2>1, PrecedesAfter
  <2>5. In(Tail(s)) \subseteq In(s)
    BY InAfter
  <2>6. In(Tail(s)) \cap OpenOn(c) # {} => Continues(Tail(s), c, 0, n)
    BY <1>1, <2>1, <2>4, <2>5
  <2> QED
    BY <2>2, <2>3, <2>4, <2>6 DEF Moves
<1> QED
  BY <1>1, <1>2

LEMMA ReadsNext ==
  ASSUME NEW s \in Seq(DownFrame), s # <<>>, NEW c, NEW t \in Seq(Item), NEW n \in Nat,
         Head(s) \in DataOn(c), Moves(s, c, t, n)
  PROVE  /\ Moves(Tail(s), c, t \o <<Head(s).data>>, n)
         /\ \A j \in DOMAIN t : t[j][2] < Head(s).data[2]
         /\ \A low \in Nat : Continues(s, c, low, n) =>
              Head(s).data[2] = low + 1 /\ Continues(Tail(s), c, low + 1, n)
<1>1. /\ Increases(s, c) /\ Above(s, c, t) /\ Precedes(s, OpenOn(c), DataOn(c))
  BY DEF Moves
<1>2. Head(s).data \in Item /\ <<Head(s).data>> \in Seq(Item)
  <2>1. Head(s) \in DownFrame /\ Head(s).type = "data"
    BY Shortened DEF DataOn
  <2> QED
    BY <2>1, DownFrames, Items
<1>3. Moves(Tail(s), c, t \o <<Head(s).data>>, n)
  <2>1. Increases(Tail(s), c) /\ Above(Tail(s), c, <<Head(s).data>>)
    BY <1>1, IncreasesAfter
  <2>2. Above(Tail(s), c, t)
    BY <1>1, AboveAfter
  <2>3. Tail(s) \in Seq(DownFrame)
    BY Shortened
  <2>4. \A u \in Seq(Item) : Above(Tail(s), c, u) => Above(Tail(s), c, t \o u)
    BY <2>2, <2>3, AboveAfter
  <2>5. Above(Tail(s), c, t \o <<Head(s).data>>)
    BY <1>2, <2>1, <2>4
  <2>6. Precedes(Tail(s), OpenOn(c), DataOn(c)) /\ In(s) \cap OpenOn(c) = {}
    BY <1>1, PrecedesAfter
  <2>7. In(Tail(s)) \subseteq In(s)
    BY InAfter
  <2> QED
    BY <2>1, <2>5, <2>6, <2>7 DEF Moves
<1>4. \A j \in DOMAIN t : t[j][2] < Head(s).data[2]
  BY <1>1, Shortened DEF Above
<1>5. ASSUME NEW low \in Nat, Continues(s, c, low, n)
      PROVE  Head(s).data[2] = low + 1 /\ Continues(Tail(s), c, low + 1, n)
  <2>1. low <= n /\ Chain(s, c, low, n) /\ Complete(s, c, low, n)
    BY <1>5 DEF Continues
  <2>2. /\ Head(s).data[2] = low + 1 /\ low + 1 <= n /\ Chain(Tail(s), c, low + 1, n)
        /\ Complete(Tail(s), c, low + 1, n)
    BY <2>1, ChainRead
  <2> QED
    BY <2>2 DEF Continues
<1> QED
  BY <1>3, <1>4, <1>5

LEMMA OpensFirst ==
  ASSUME NEW s \in Seq(DownFrame), s # <<>>, NEW c, NEW t \in Seq(Item), NEW n \in Nat,
         Head(s) \in OpenOn(c), Once(s, OpenOn(c)), Moves(s, c, t, n)
  PROVE  Moves(Tail(s), c, <<>>, n) /\ Continues(Tail(s), c, 0, n)
<1>1. /\ Increases(s, c) /\ Precedes(s, OpenOn(c), DataOn(c)) /\ Head(s) \in In(s)
      /\ Continues(s, c, 0, n)
  <2>1. Head(s) \in In(s)
    BY InAfter
  <2> QED
    BY <2>1 DEF Moves
<1>2. Head(s) \notin DataOn(c)
  BY DEF OpenOn, DataOn
<1>3. Continues(Tail(s), c, 0, n)
  BY <1>1, <1>2, ChainRead DEF Continues
<1>4. Increases(Tail(s), c) /\ Precedes(Tail(s), OpenOn(c), DataOn(c))
  BY <1>1, IncreasesAfter, PrecedesAfter
<1>5. In(Tail(s)) \cap OpenOn(c) = {}
  BY OnceAfter
<1>6. Above(Tail(s), c, <<>>)
  BY DEF Above
<1> QED
  BY <1>3, <1>4, <1>5, <1>6 DEF Moves

(* What a browser sends comes down its channel; what it was given stays.             *)
Comes(b) == agent # 0 /\ Chan(b) # 0 => FlowsDown(b, down[agent], Chan(b))
SocketStays(b) ==
  /\ SocketKeeps(b)
  /\ socket'[b].st = "connecting" => socket'[b].got = <<>>
  /\ socket'[b].st = "open" => socket'[b].queue = <<>>
BrowserStays(b) ==
  browser'[b].n = browser[b].n /\ (browser'[b].st = "idle" => browser[b].st = "idle")

LEMMA SocketsAsTheyWere ==
  ASSUME IInv
  PROVE  /\ \A b \in Browser : socket'[b] = socket[b] => SocketStays(b)
         /\ UNCHANGED socket => \A b \in Browser : SocketStays(b)
         /\ UNCHANGED browser => \A b \in Browser : BrowserStays(b)
<1>1. \A b \in Browser : GivenInOrder(b)
  BY DEF IInv, FlowingDown
<1>2. ASSUME NEW b \in Browser, socket'[b] = socket[b] PROVE SocketStays(b)
  BY <1>1, <1>2 DEF SocketStays, SocketKeeps, SameAsk, GivenInOrder
<1> QED
  BY <1>2 DEF BrowserStays

LEMMA GivenStays ==
  ASSUME IInv, NEW b \in Browser, SocketStays(b), BrowserStays(b), boots' = boots
  PROVE  GivenInOrder(b)'
<1>1. GivenInOrder(b)
  BY DEF IInv, FlowingDown
<1> QED
  BY <1>1 DEF GivenInOrder, SocketStays, BrowserStays, SocketKeeps, SameAsk

LEMMA TakenIs == \A r \in SocketRecord : Taken(r) \in Seq(Item)
<1> SUFFICES ASSUME NEW r \in SocketRecord PROVE Taken(r) \in Seq(Item)
  OBVIOUS
<1>1. r.got \in Seq(Item) /\ r.queue \in Seq(Item)
  BY DEF SocketRecord
<1> QED
  BY <1>1, ConcatProperties DEF Taken

LEMMA ComesStill ==
  ASSUME IInv, NEW b \in Browser, SocketStays(b), BrowserStays(b), agent' = agent,
         Chan(b)' # 0 => Chan(b)' = Chan(b),
         \A c \in Channel : wsUpstreams'[c] = b => wsUpstreams[c] = b,
         \/ down'[agent] = down[agent]
         \/ \E F \in Seq(DownFrame) : /\ down'[agent] = down[agent] \o F
                                      /\ In(F) \cap DataOn(Chan(b)) = {}
                                      /\ In(F) \cap OpenOn(Chan(b)) = {}
  PROVE  Comes(b)'
<1> SUFFICES ASSUME agent # 0, Chan(b)' # 0 PROVE FlowsDown(b, down[agent], Chan(b))'
  BY DEF Comes
<1>0. /\ TypeOK /\ agent \in Link /\ b \in Whose /\ down[agent] \in Seq(DownFrame)
      /\ Chan(b) \in Channel /\ Chan(b)' = Chan(b)
      /\ Taken(socket[b]) \in Seq(Item) /\ browser[b].n \in Nat
  <2>1. TypeOK /\ b \in Whose /\ agent \in 0 .. MaxLinks
    BY Attachments, Sets DEF TypeOK
  <2>2. agent \in Link /\ down[agent] \in Seq(DownFrame)
    BY <2>1, Sets, Parts
  <2>3. Chan(b) \in Channel /\ Chan(b)' = Chan(b)
    BY <2>1, PartyTypes
  <2>4. socket[b] \in SocketRecord /\ browser[b] \in BrowserRecord
    BY <2>1, Parts
  <2>5. browser[b].n \in Nat
    BY <2>4, Sets DEF BrowserRecord
  <2>6. Taken(socket[b]) \in Seq(Item)
    BY <2>4, TakenIs
  <2> QED
    BY <2>1, <2>2, <2>3, <2>5, <2>6
<1>1. PICK c \in Channel : c = Chan(b)
  BY <1>0
<1>2. PICK s \in Seq(DownFrame) : s = down[agent]
  BY <1>0
<1>3. PICK t \in Seq(Item) : t = Taken(socket[b])
  BY <1>0
<1>4. PICK n \in Nat : n = browser[b].n
  BY <1>0
<1>5. /\ Moves(s, c, t, n)
      /\ socket[b].st # "none" /\ socket[b].link = agent =>
           IsFirstOf(t, b) /\ (wsUpstreams[c] = b => Continues(s, c, Len(t), n))
  BY <1>0, <1>1, <1>2, <1>3, <1>4 DEF IInv, FlowingDown, FlowsDown
<1>6. PICK r : r = down'[agent]
  OBVIOUS
<1>7. Moves(r, c, t, n) /\ \A low \in Nat : Continues(s, c, low, n) => Continues(r, c, low, n)
  <2>1. ASSUME NEW F \in Seq(DownFrame), In(F) \cap DataOn(c) = {}, In(F) \cap OpenOn(c) = {}, r = s \o F
        PROVE  Moves(r, c, t, n) /\ \A low \in Nat : Continues(s, c, low, n) => Continues(r, c, low, n)
    BY <1>5, <2>1, NothingOn
  <2> QED
    BY <1>1, <1>2, <1>5, <1>6, <2>1
<1>8. Len(t) \in Nat
  BY LenProperties
<1>9. /\ socket'[b].st # "none" => socket[b].st # "none"
      /\ socket'[b].link = socket[b].link /\ Taken(socket'[b]) = t /\ browser'[b].n = n
  BY <1>3, <1>4 DEF SocketStays, SocketKeeps, SameAsk, BrowserStays
<1> QED
  BY <1>0, <1>1, <1>5, <1>6, <1>7, <1>8, <1>9 DEF FlowsDown

LEMMA FlowingDownStays ==
  ASSUME IInv, boots' = boots, \A b \in Browser : SocketStays(b) /\ BrowserStays(b),
         \/ agent' = 0
         \/ /\ agent' = agent
            /\ \A b \in Browser : Chan(b)' # 0 => Chan(b)' = Chan(b)
            /\ \A c \in Channel, b \in Browser : wsUpstreams'[c] = b => wsUpstreams[c] = b
            /\ \/ down'[agent] = down[agent]
               \/ \E F \in Seq(DownFrame) :
                    /\ down'[agent] = down[agent] \o F
                    /\ \A b \in Browser : In(F) \cap DataOn(Chan(b)) = {} /\ In(F) \cap OpenOn(Chan(b)) = {}
  PROVE  FlowingDown'
<1>1. \A b \in Browser : GivenInOrder(b)'
  BY GivenStays
<1>2. ASSUME NEW b \in Browser PROVE Comes(b)'
  BY ComesStill DEF Comes
<1> QED
  BY <1>1, <1>2 DEF FlowingDown, Comes

LEMMA ConnectFlowingDown ==
  ASSUME IInv, NEW k \in Link, Connect(k) PROVE FlowingDown'
<1>0. /\ UNCHANGED <<boots, socket, browser, down>> /\ agent' = k /\ agent = 0 /\ link[k] = "unused"
  BY DEF Connect, callers, dsh
<1>1. \A b \in Browser : GivenInOrder(b)'
  BY <1>0, GivenStays, SocketsAsTheyWere
<1>2. down[k] = <<>>
  BY <1>0, Attachments, Sets DEF LinksAgree
<1>3. ASSUME NEW b \in Browser PROVE Comes(b)'
  <2>1. socket[b].st # "none" => socket[b].link # k
    <3>1. b \in Whose /\ (Started(b) <=> socket[b].st # "none") /\ Via(b) = socket[b].link
      BY Sets DEF Started, Via
    <3> QED
      BY <1>0, <3>1, Attachments DEF DshAgrees
  <2>2. In(<<>>) = {} /\ \A c, t, n : Moves(<<>>, c, t, n)
    BY DEF In, Moves, Increases, Above, Precedes
  <2> QED
    BY <1>0, <1>2, <2>1, <2>2 DEF Comes, FlowsDown
<1> QED
  BY <1>1, <1>3 DEF FlowingDown, Comes

LEMMA LinkBreaksFlowingDown ==
  ASSUME IInv, LinkBreaks PROVE FlowingDown'
BY FlowingDownStays, SocketsAsTheyWere DEF LinkBreaks, callers, dsh, gateway

LEMMA LinkClosedFlowingDown ==
  ASSUME IInv, NEW k \in Link, LinkClosed(k) PROVE FlowingDown'
<1>0. UNCHANGED <<boots, socket, agent, down, wsUpstreams>> /\ TypeOK
  BY Attachments DEF LinkClosed, dsh, tables
<1>1. /\ \A b \in Browser : /\ browser'[b].channel = browser[b].channel /\ browser'[b].n = browser[b].n
                            /\ browser'[b].st = IF \E c \in Channel : wsChannels[c] = b THEN "closed"
                                                ELSE browser[b].st
  BY <1>0, LinkClosedDoes
<1>2. \A b \in Browser : BrowserStays(b) /\ Chan(b)' = Chan(b)
  BY <1>1, Sets DEF BrowserStays, Chan
<1> QED
  BY <1>0, <1>2, FlowingDownStays, SocketsAsTheyWere

LEMMA ProcessEndsFlowingDown ==
  ASSUME IInv, ProcessEnds PROVE FlowingDown'
<1>4. TypeOK
  BY Attachments
<1>5. UNCHANGED <<boots, tables, dsh>>
  BY Zenon DEF ProcessEnds
<1>6. agent' = 0
  BY Zenon DEF ProcessEnds
<1>0. UNCHANGED <<boots, socket>> /\ agent' = 0 /\ TypeOK
  BY <1>4, <1>5, <1>6 DEF dsh
<1>1. \A b \in Browser : browser'[b].n = browser[b].n
        /\ browser'[b].st = IF browser[b].st = "open" THEN "closed" ELSE browser[b].st
  BY <1>0, ProcessEndsDoes
<1>2. \A b \in Browser : BrowserStays(b)
  BY <1>1 DEF BrowserStays
<1> QED
  BY <1>0, <1>2, FlowingDownStays, SocketsAsTheyWere

LEMMA BootFlowingDown ==
  ASSUME IInv, Boot PROVE FlowingDown'
<1>0. UNCHANGED <<browser, socket, agent>> /\ boots \in Nat /\ boots' = boots + 1 /\ TypeOK /\ agent = 0
  BY Attachments, BootDoes DEF Boot, LinksAgree, callers, dsh, frames
<1>1. ASSUME NEW b \in Browser PROVE GivenInOrder(b)'
  <2>1. b \in Whose /\ (Started(b) <=> socket[b].st # "none") /\ BootOf(b) = socket[b].boot
    BY Sets DEF Started, BootOf
  <2>2. GivenInOrder(b) /\ BootOf(b) \in Nat
    BY <1>0, <2>1, PartyTypes DEF IInv, FlowingDown
  <2>3. socket[b].st # "none" => socket[b].boot # boots + 1
    <3>1. socket[b].st # "none" => BootOf(b) <= boots
      BY <2>1, Attachments DEF DshAgrees
    <3> QED
      BY <1>0, <2>1, <2>2, <3>1
  <2>4. InOrder(<<>>, b) /\ \A j : j \notin DOMAIN <<>>
    BY DEF InOrder
  <2>5. socket[b].st = "none" => Taken(socket[b]) = <<>>
    BY <2>2 DEF GivenInOrder
  <2> QED
    BY <1>0, <2>2, <2>3, <2>4, <2>5 DEF GivenInOrder
<1> QED
  BY <1>0, <1>1 DEF FlowingDown

LEMMA SentDownFlowingDown ==
  ASSUME IInv, UNCHANGED <<boots, agent, wsUpstreams, socket>>, NEW F \in Seq(DownFrame), down' = Down(F),
         \A b \in Browser :
           /\ BrowserStays(b) /\ (Chan(b)' # 0 => Chan(b)' = Chan(b))
           /\ In(F) \cap DataOn(Chan(b)) = {} /\ In(F) \cap OpenOn(Chan(b)) = {}
  PROVE  FlowingDown'
<1>1. CASE agent = 0
  BY <1>1, FlowingDownStays, SocketsAsTheyWere
<1>2. CASE agent # 0
  <2>1. agent \in Link
    BY <1>2, Attachments, Sets DEF TypeOK
  <2>2. down'[agent] = down[agent] \o F
    BY <2>1, SentDown
  <2> QED
    BY <2>2, FlowingDownStays, SocketsAsTheyWere
<1> QED
  BY <1>1, <1>2

LEMMA RequestFramesAre ==
  ASSUME NEW q \in Request, NEW c \in Channel
  PROVE  \A f \in In(RequestFrames(q, c)) : f.channel = c
<1> DEFINE e == Frame("request", c, <<q>>)
           d == Frame("data", c, <<q, 0>>)
           G == IF q \in WithBody THEN <<d>> ELSE <<>>
<1>1. <<e>> \in Seq(DownFrame) /\ G \in Seq(DownFrame)
  <2>1. <<q, 0>> \in Item
    BY Items, Sets
  <2>2. e \in DownFrame /\ d \in DownFrame
    BY <2>1, Frames
  <2> QED
    BY <2>2, Items
<1>2. e.channel = c /\ d.channel = c
  BY DEF Frame
<1>3. In(<<e>>) = {e} /\ In(G) = IF q \in WithBody THEN {d} ELSE {}
  BY DEF In
<1>4. \A s, t \in Seq(DownFrame) : In(s \o t) = In(s) \cup In(t)
  BY InAfter
<1>5. In(<<e>> \o G) = In(<<e>>) \cup In(G)
  BY <1>1, <1>4
<1>6. RequestFrames(q, c) = <<e>> \o G
  BY DEF RequestFrames
<1> QED
  BY <1>2, <1>3, <1>5, <1>6

LEMMA RelayFlowingDown ==
  ASSUME IInv, NEW q \in Request, Relay(q) PROVE FlowingDown'
<1>0. TypeOK /\ ChannelsAgree /\ q \in Whose /\ Idle(q)
  BY Attachments, Sets DEF Relay, Idle
<1>1. PICK c \in Channel : c = NextChannel /\ \A v \in Whose : Chan(v) # c
  BY <1>0, FreshChannel
<1>2. PICK F \in Seq(DownFrame) : F = RequestFrames(q, c) /\ down' = Down(F)
  BY <1>0, <1>1, RelayDoes
<1>3. UNCHANGED <<boots, agent, wsUpstreams, socket, browser>>
  BY DEF Relay, dsh, tables
<1>4. ASSUME NEW b \in Browser
      PROVE  /\ BrowserStays(b) /\ Chan(b)' = Chan(b)
             /\ In(F) \cap DataOn(Chan(b)) = {} /\ In(F) \cap OpenOn(Chan(b)) = {}
  <2>1. BrowserStays(b) /\ Chan(b)' = Chan(b) /\ Chan(b) # c
    BY <1>1, <1>3, SocketsAsTheyWere, Sets DEF Chan
  <2>2. \A f \in In(F) : f.channel = c
    BY <1>2, RequestFramesAre
  <2> QED
    BY <2>1, <2>2 DEF DataOn, OpenOn
<1> QED
  BY <1>2, <1>3, <1>4, SentDownFlowingDown

LEMMA BrowserClosesFlowingDown ==
  ASSUME IInv, NEW b \in Browser, NEW c \in Channel, BrowserCloses(b, c) PROVE FlowingDown'
<1>0. TypeOK
  BY Attachments
<1>1. PICK F \in Seq(DownFrame) : F = <<Frame("close", c, <<>>)>> /\ down' = Down(F)
  BY <1>0, BrowserClosesDoes
<1>2. /\ browser'[b].n = browser[b].n /\ browser'[b].st = "closed"
      /\ \A v \in Browser : v # b => browser'[v] = browser[v]
      /\ \A w \in Whose : CallerKeeps(w)
  BY <1>0, BrowserClosesDoes
<1>3. UNCHANGED <<boots, agent, wsUpstreams, socket>>
  BY DEF BrowserCloses, dsh, tables
<1>4. \A v \in Browser : BrowserStays(v) /\ Chan(v)' = Chan(v)
  BY <1>2, Sets DEF BrowserStays, CallerKeeps
<1>5. \A d : In(F) \cap DataOn(d) = {} /\ In(F) \cap OpenOn(d) = {}
  <2>1. \A f \in In(F) : f.type = "close"
    BY <1>1 DEF In, Frame
  <2> QED
    BY <2>1 DEF DataOn, OpenOn
<1> QED
  BY <1>1, <1>3, <1>4, <1>5, SentDownFlowingDown

LEMMA RelayTimeoutFlowingDown ==
  ASSUME IInv, NEW c \in Channel, RelayTimeout(c) PROVE FlowingDown'
<1>1. UNCHANGED <<boots, agent, wsUpstreams, socket, browser, down>>
  BY DEF RelayTimeout, frames, tables, dsh
<1>2. \A b \in Browser : Chan(b)' = Chan(b)
  BY <1>1, Sets DEF Chan
<1> QED
  BY <1>1, <1>2, FlowingDownStays, SocketsAsTheyWere

LEMMA GatewayReadsFlowingDown ==
  ASSUME IInv, NEW k \in Link, GatewayReads(k) PROVE FlowingDown'
<1>0. TypeOK
  BY Attachments
<1>1. PICK f \in UpFrame :
        /\ Hearing(k, f)
        /\ \/ streams[f.channel] # Nobody /\ StreamFrame(f, streams[f.channel])
           \/ wsChannels[f.channel] # Nobody /\ BrowserFrame(f, wsChannels[f.channel])
           \/ /\ streams[f.channel] = Nobody /\ wsChannels[f.channel] = Nobody
              /\ UNCHANGED <<streams, wsChannels, callers>>
  BY <1>0, HearingDoes
<1>2. UNCHANGED <<boots, agent, wsUpstreams, socket, down>>
  BY <1>1 DEF Hearing, tables, dsh
<1>3. \A b \in Browser : BrowserStays(b) /\ Chan(b)' = Chan(b)
  <2>1. CASE UNCHANGED browser
    BY <2>1, SocketsAsTheyWere, Sets DEF Chan
  <2>2. CASE wsChannels[f.channel] # Nobody /\ BrowserFrame(f, wsChannels[f.channel])
    <3>1. PICK b \in Browser : b = wsChannels[f.channel]
      BY <1>0, <2>2, UpFrames DEF TypeOK
    <3>2. /\ browser'[b].channel = browser[b].channel /\ browser'[b].n = browser[b].n
          /\ browser'[b].st = browser[b].st \/ browser'[b].st = "closed"
          /\ \A v \in Browser : v # b => browser'[v] = browser[v]
      BY <1>0, <1>1, <2>2, <3>1, BrowserFrameDoes
    <3> QED
      BY <3>2, Sets DEF BrowserStays, Chan
  <2> QED
    BY <1>1, <2>1, <2>2 DEF StreamFrame, callers
<1> QED
  BY <1>2, <1>3, FlowingDownStays, SocketsAsTheyWere

(* Dsh's side.                                                                *)
LEMMA DshSideFlowingDown ==
  ASSUME IInv, UNCHANGED <<gateway, callers, down, agent, tables>>, \A b \in Browser : SocketStays(b)
  PROVE  FlowingDown'
<1>1. UNCHANGED <<boots, agent, wsUpstreams, browser, down>>
  BY DEF gateway, callers, tables
<1>2. \A b \in Browser : Chan(b)' = Chan(b)
  BY <1>1, Sets DEF Chan
<1> QED
  BY <1>1, <1>2, FlowingDownStays, SocketsAsTheyWere

LEMMA AnswersFlowingDown ==
  ASSUME IInv, NEW q \in Request,
         Responds(q) \/ SendsChunk(q) \/ Ends(q) \/ Refused(q) \/ Reset(q) \/ Retry(q)
  PROVE  FlowingDown'
<1>1. UNCHANGED <<gateway, callers, down, agent, tables, socket>>
  BY DEF Responds, SendsChunk, Ends, Refused, Reset, Retry, Answer, frames
<1> QED
  BY <1>1, DshSideFlowingDown, SocketsAsTheyWere

LEMMA SocketOpensFlowingDown ==
  ASSUME IInv, NEW b \in Browser, SocketOpens(b) PROVE FlowingDown'
<1>0. TypeOK /\ socket[b].got = <<>>
  BY Attachments DEF SocketOpens
<1>1. /\ socket'[b].st = "open" /\ socket'[b].queue = <<>> /\ SocketKeeps(b)
      /\ \A v \in Browser : v # b => socket'[v] = socket[v]
      /\ UNCHANGED <<gateway, callers, frames, tables>>
  BY <1>0, SocketOpensDoes
<1>2. SocketStays(b)
  BY <1>1 DEF SocketStays
<1>3. \A v \in Browser : SocketStays(v)
  BY <1>1, <1>2, SocketsAsTheyWere
<1> QED
  BY <1>1, <1>3, DshSideFlowingDown DEF frames

LEMMA SocketSendsFlowingDown ==
  ASSUME IInv, NEW b \in Browser, SocketSends(b) PROVE FlowingDown'
<1>0. TypeOK /\ socket[b].link \in Link /\ socket[b].channel \in Channel /\ socket[b].queue = <<>>
  BY Attachments DEF SocketSends
<1>1. /\ SocketKeeps(b) /\ socket'[b].st = socket[b].st /\ socket'[b].queue = socket[b].queue
      /\ \A v \in Browser : v # b => socket'[v] = socket[v]
      /\ UNCHANGED <<gateway, callers, down, agent, tables>>
  BY <1>0, SocketSendsDoes
<1>2. SocketStays(b)
  BY <1>0, <1>1 DEF SocketStays, SocketSends
<1>3. \A v \in Browser : SocketStays(v)
  BY <1>1, <1>2, SocketsAsTheyWere
<1> QED
  BY <1>1, <1>3, DshSideFlowingDown

LEMMA SocketClosesFlowingDown ==
  ASSUME IInv, NEW b \in Browser, SocketCloses(b) PROVE FlowingDown'
<1>0. TypeOK /\ socket[b].link \in Link /\ socket[b].channel \in Channel
  BY Attachments DEF SocketCloses
<1>1. /\ SocketKeeps(b) /\ socket'[b].st = "closed"
      /\ \A v \in Browser : v # b => socket'[v] = socket[v]
      /\ UNCHANGED <<gateway, callers, down, agent, tables>>
  BY <1>0, SocketClosesDoes
<1>2. SocketStays(b)
  BY <1>1 DEF SocketStays
<1>3. \A v \in Browser : SocketStays(v)
  BY <1>1, <1>2, SocketsAsTheyWere
<1> QED
  BY <1>1, <1>3, DshSideFlowingDown

LEMMA ElsewhereStays ==
  ASSUME IInv, UNCHANGED <<agent, wsUpstreams, socket>>, NEW F \in Seq(DownFrame), down' = Down(F),
         NEW b \in Browser, BrowserStays(b), Chan(b)' = Chan(b), \A f \in In(F) : f.channel # Chan(b)
  PROVE  Comes(b)'
<1>1. CASE agent = 0
  BY <1>1 DEF Comes
<1>2. CASE agent # 0
  <2>1. agent \in Link
    BY <1>2, Attachments, Sets DEF TypeOK
  <2>2. down'[agent] = down[agent] \o F
    BY <2>1, SentDown
  <2>3. In(F) \cap DataOn(Chan(b)) = {} /\ In(F) \cap OpenOn(Chan(b)) = {}
    BY DEF DataOn, OpenOn
  <2>4. SocketStays(b)
    BY SocketsAsTheyWere
  <2> QED
    BY <2>2, <2>3, <2>4, ComesStill
<1> QED
  BY <1>1, <1>2

LEMMA OpensMoves ==
  ASSUME NEW s \in Seq(DownFrame), NEW c, NEW e \in DownFrame, e \in OpenOn(c),
         \A f \in In(s) : f.channel # c
  PROVE  Moves(s \o <<e>>, c, <<>>, 0)
<1>1. PICK r : r = s \o <<e>>
  OBVIOUS
<1>2. In(r) = In(s) \cup {e}
  BY <1>1, LastOf
<1>3. \A i \in DOMAIN r : r[i] \notin DataOn(c)
  BY <1>2 DEF In, DataOn, OpenOn
<1>4. Increases(r, c) /\ Above(r, c, <<>>) /\ Precedes(r, OpenOn(c), DataOn(c))
  BY <1>3 DEF Increases, Above, Precedes
<1>5. Continues(r, c, 0, 0)
  BY <1>3 DEF Continues, Chain, Complete
<1> QED
  BY <1>1, <1>4, <1>5 DEF Moves

LEMMA BrowserOpensFlowingDown ==
  ASSUME IInv, NEW b \in Browser, BrowserOpens(b) PROVE FlowingDown'
<1>0. TypeOK /\ ChannelsAgree /\ b \in Whose /\ Idle(b) /\ ~Started(b)
  BY Attachments, Sets DEF BrowserOpens, Idle, ChannelsAgree
<1>1. PICK c \in Channel : c = NextChannel /\ \A v \in Whose : Chan(v) # c
  BY <1>0, FreshChannel
<1>2. PICK e \in DownFrame : e = Frame("open", c, <<b>>)
  BY <1>1, Frames
<1>3. PICK F \in Seq(DownFrame) : F = <<e>> /\ down' = Down(F)
  BY <1>0, <1>1, <1>2, BrowserOpensDoes
<1>4. /\ Allocates(b) /\ browser'[b].st = "open" /\ browser'[b].n = browser[b].n
      /\ \A v \in Browser : v # b => browser'[v] = browser[v]
  BY <1>0, BrowserOpensDoes
<1>5. UNCHANGED <<boots, agent, wsUpstreams, socket>>
  BY DEF BrowserOpens, dsh, tables
<1>6. /\ \A v \in Browser : BrowserStays(v)
      /\ Chan(b)' = c /\ \A v \in Browser : v # b => Chan(v)' = Chan(v)
  BY <1>1, <1>4, Sets DEF BrowserStays, Allocates, CallerKeeps
<1>7. e \in OpenOn(c) /\ e.channel = c
  BY <1>2 DEF OpenOn, Frame
<1>8. \A v \in Browser : GivenInOrder(v)'
  BY <1>5, <1>6, GivenStays, SocketsAsTheyWere
<1>9. ASSUME NEW v \in Browser, v # b PROVE Comes(v)'
  <2>1. \A f \in In(F) : f.channel # Chan(v)
    BY <1>1, <1>3, <1>7, Sets DEF In
  <2> QED
    BY <1>3, <1>5, <1>6, <1>9, <2>1, ElsewhereStays
<1>10. ASSUME agent # 0 PROVE FlowsDown(b, down[agent], Chan(b))'
  <2>1. agent \in Link /\ down[agent] \in Seq(DownFrame)
    BY <1>0, <1>10, Sets, Parts DEF TypeOK
  <2>2. down'[agent] = down[agent] \o <<e>>
    BY <1>3, <2>1, SentDown
  <2>3. \A f \in In(down[agent]) : f.channel # c
    BY <1>1, <2>1, NobodysChannel
  <2>4. Moves(down[agent] \o <<e>>, c, <<>>, 0)
    BY <1>7, <2>1, <2>3, OpensMoves
  <2>5. socket[b].st = "none"
    BY <1>0, Sets DEF Started
  <2>6. GivenInOrder(b) /\ browser[b].st = "idle"
    BY DEF IInv, FlowingDown, BrowserOpens
  <2>7. Taken(socket[b]) = <<>> /\ browser[b].n = 0
    BY <2>5, <2>6 DEF GivenInOrder
  <2> QED
    BY <1>4, <1>5, <1>6, <2>2, <2>4, <2>5, <2>7 DEF FlowsDown
<1> QED
  BY <1>5, <1>8, <1>9, <1>10 DEF FlowingDown, Comes

(* What a socket of this process was given is less than what its browser has sent.    *)
LEMMA GivenSoFar ==
  ASSUME IInv, NEW b \in Browser, Chan(b) # 0
  PROVE  \A j \in DOMAIN Taken(socket[b]) : Taken(socket[b])[j][2] <= browser[b].n
<1>1. b \in Whose /\ GivenInOrder(b)
  BY Sets DEF IInv, FlowingDown
<1>2. CASE socket[b].st = "none"
  BY <1>1, <1>2 DEF GivenInOrder
<1>3. CASE socket[b].st # "none"
  <2>1. Started(b) /\ BootOf(b) = socket[b].boot
    BY <1>3, Sets DEF Started, BootOf
  <2>2. Current(b)
    BY <1>1, <2>1, Attachments DEF DshAgrees, Past
  <2> QED
    BY <1>1, <2>1, <2>2 DEF GivenInOrder, Current
<1> QED
  BY <1>2, <1>3

LEMMA BrowserSendsFlowingDown ==
  ASSUME IInv, NEW b \in Browser, NEW c \in Channel, BrowserSends(b, c) PROVE FlowingDown'
<1>0. TypeOK /\ ChannelsAgree /\ b \in Whose /\ Chan(b) = c /\ browser[b].st = "open" /\ c # 0
  BY Attachments, Sets DEF BrowserSends, ChannelsAgree
<1>1. PICK n \in Nat : n = browser[b].n
  BY <1>0, BrowserSendsDoes
<1>2. PICK e \in DownFrame : e = Frame("data", c, <<b, n + 1>>)
  BY <1>0, <1>1, BrowserSendsDoes
<1>3. PICK F \in Seq(DownFrame) : F = <<e>> /\ down' = Down(F)
  BY <1>0, <1>1, <1>2, BrowserSendsDoes
<1>4. /\ browser'[b].n = n + 1 /\ browser'[b].st = "open"
      /\ \A v \in Browser : v # b => browser'[v] = browser[v]
      /\ \A w \in Whose : CallerKeeps(w)
  BY <1>0, <1>1, BrowserSendsDoes
<1>5. UNCHANGED <<boots, agent, wsUpstreams, socket>>
  BY DEF BrowserSends, gateway, dsh, tables
<1>6. \A v \in Browser : Chan(v)' = Chan(v) /\ (v # b => BrowserStays(v) /\ Chan(v) # c)
  BY <1>0, <1>4, Sets DEF BrowserStays, CallerKeeps, ChannelsAgree
<1>7. e \in DataOn(c) /\ e.channel = c /\ e.data[2] = n + 1
  BY <1>2 DEF DataOn, Frame
<1>8. ASSUME NEW v \in Browser, v # b PROVE GivenInOrder(v)' /\ Comes(v)'
  <2>1. \A f \in In(F) : f.channel # Chan(v)
    BY <1>3, <1>6, <1>7, <1>8 DEF In
  <2>2. GivenInOrder(v)'
    BY <1>5, <1>6, <1>8, GivenStays, SocketsAsTheyWere
  <2> QED
    BY <1>3, <1>5, <1>6, <1>8, <2>1, <2>2, ElsewhereStays
<1>9. PICK t \in Seq(Item) : t = Taken(socket[b])
  BY <1>0, Parts, TakenIs
<1>10. \A j \in DOMAIN t : t[j][2] <= n
  BY <1>0, <1>1, <1>9, GivenSoFar
<1>11. GivenInOrder(b)'
  <2>1. GivenInOrder(b)
    BY DEF IInv, FlowingDown
  <2>2. \A j \in DOMAIN t : t[j][2] <= n + 1
    <3>1. \A j \in DOMAIN t : t[j][2] \in Nat
      <4>1. \A j \in DOMAIN t : t[j] \in Item
        BY LenProperties
      <4> QED
        BY <4>1, Items
    <3> QED
      BY <1>10, <3>1
  <2> QED
    BY <1>4, <1>5, <1>9, <2>1, <2>2 DEF GivenInOrder
<1>12. ASSUME agent # 0 PROVE FlowsDown(b, down[agent], Chan(b))'
  <2>1. agent \in Link
    BY <1>0, <1>12, Sets DEF TypeOK
  <2>2. PICK s \in Seq(DownFrame) : s = down[agent]
    BY <1>0, <2>1, Parts
  <2>3. down'[agent] = s \o <<e>>
    BY <1>3, <2>1, <2>2, SentDown
  <2>4. \A g \in In(s) \cap DataOn(c) : g.data[2] <= n
    <3>1. ASSUME NEW g \in In(s), g \in DataOn(c) PROVE g.data[2] <= n
      <4>1. DownIsOf(b, g) /\ g.type = "data"
        BY <1>0, <2>1, <2>2, <3>1, OwnerOf DEF DataOn
      <4>2. PICK m \in 1 .. n : g.data = <<b, m>>
        BY <1>1, <4>1 DEF DownIsOf
      <4> QED
        BY <4>2
    <3> QED
      BY <3>1
  <2>5. FlowsDown(b, s, c)
    BY <1>0, <1>12, <2>2 DEF IInv, FlowingDown
  <2>6. /\ Moves(s, c, t, n) => Moves(s \o <<e>>, c, t, n + 1)
        /\ \A low \in Nat : Continues(s, c, low, n) => Continues(s \o <<e>>, c, low, n + 1)
    BY <1>7, <1>10, <2>4, OneMore
  <2>7. Len(t) \in Nat
    BY LenProperties
  <2> QED
    BY <1>0, <1>1, <1>4, <1>5, <1>6, <1>9, <2>3, <2>5, <2>6, <2>7 DEF FlowsDown
<1> QED
  BY <1>5, <1>8, <1>11, <1>12 DEF FlowingDown, Comes

(* The agent reads: a frame of another; the one that opens the socket; or data.       *)
LEMMA AnothersFlowsDown ==
  ASSUME IInv, NEW f \in DownFrame, Reading(f), NEW b \in Browser, SocketStays(b),
         f \notin OpenOn(Chan(b)),
         Chan(b) \in Channel /\ wsUpstreams'[Chan(b)] = b =>
           wsUpstreams[Chan(b)] = b /\ f \notin DataOn(Chan(b))
  PROVE  GivenInOrder(b)' /\ Comes(b)'
<1>0. TypeOK /\ b \in Whose /\ UNCHANGED <<boots, browser, agent>> /\ agent \in Link
  BY Attachments, Sets DEF Reading, gateway, callers
<1>1. GivenInOrder(b)'
  BY <1>0, GivenStays, SocketsAsTheyWere
<1>2. Chan(b)' = Chan(b) /\ agent # 0
  BY <1>0, Sets DEF Chan
<1>3. ASSUME Chan(b) # 0 PROVE FlowsDown(b, down[agent], Chan(b))'
  <2>1. PICK c \in Channel : c = Chan(b)
    BY <1>0, <1>3, PartyTypes
  <2>2. PICK s \in Seq(DownFrame) : s = down[agent]
    BY <1>0, Parts
  <2>3. s # <<>> /\ f = Head(s) /\ down'[agent] = Tail(s)
    BY <2>2 DEF Reading
  <2>4. PICK t \in Seq(Item) : t = Taken(socket[b])
    BY <1>0, Parts, TakenIs
  <2>5. PICK n \in Nat : n = browser[b].n
    <3>1. browser[b] \in BrowserRecord
      BY <1>0, Parts
    <3> QED
      BY <3>1, Sets DEF BrowserRecord
  <2>6. /\ Moves(s, c, t, n)
        /\ socket[b].st # "none" /\ socket[b].link = agent =>
             IsFirstOf(t, b) /\ (wsUpstreams[c] = b => Continues(s, c, Len(t), n))
    BY <1>2, <1>3, <2>1, <2>2, <2>4, <2>5 DEF IInv, FlowingDown, FlowsDown
  <2>7. /\ Moves(Tail(s), c, t, n)
        /\ f \notin DataOn(c) =>
             \A low \in Nat : Continues(s, c, low, n) => Continues(Tail(s), c, low, n)
    BY <2>1, <2>3, <2>6, ReadsPast
  <2>8. Len(t) \in Nat
    BY LenProperties
  <2>9. /\ socket'[b].st # "none" => socket[b].st # "none"
        /\ socket'[b].link = socket[b].link /\ Taken(socket'[b]) = t /\ browser'[b].n = n
    BY <1>0, <2>4, <2>5 DEF SocketStays, SocketKeeps, SameAsk
  <2>10. wsUpstreams'[c] = b => wsUpstreams[c] = b /\ f \notin DataOn(c)
    BY <2>1
  <2> QED
    BY <1>0, <1>2, <2>1, <2>3, <2>6, <2>7, <2>8, <2>9, <2>10 DEF FlowsDown
<1> QED
  BY <1>1, <1>2, <1>3 DEF Comes

LEMMA OnRequestFlowingDown ==
  ASSUME IInv, NEW f \in DownFrame, Reading(f), f.type = "request", OnRequest(f.data[1], f.channel)
  PROVE  FlowingDown'
<1>1. UNCHANGED <<wsUpstreams, socket>>
  BY DEF OnRequest
<1>2. ASSUME NEW b \in Browser PROVE f \notin OpenOn(Chan(b)) /\ f \notin DataOn(Chan(b))
  <2>1. f.channel = Chan(b) => DownIsOf(b, f)
    BY ReadIsOf, Sets
  <2> QED
    BY <2>1, Sets DEF DownIsOf, OpenOn, DataOn
<1> QED
  BY <1>1, <1>2, AnothersFlowsDown, SocketsAsTheyWere DEF FlowingDown, Comes

LEMMA OnCloseFlowingDown ==
  ASSUME IInv, NEW f \in DownFrame, Reading(f), f.type = "close", OnClose(f.channel)
  PROVE  FlowingDown'
<1>0. TypeOK /\ DshAgrees
  BY Attachments
<1>1. f.channel \in Channel /\ wsUpstreams' = [wsUpstreams EXCEPT ![f.channel] = Nobody]
  BY <1>0, OnCloseDoes
<1>2. \A b \in Browser :
        /\ SameAsk(socket[b], socket'[b])
        /\ socket'[b].got = socket[b].got /\ socket'[b].queue = socket[b].queue
        /\ \/ socket'[b].st = socket[b].st
           \/ wsUpstreams[f.channel] = b /\ socket'[b].st \in {"closing", "closed"}
  BY <1>0, OnCloseDoes
<1>3. \A c \in Channel : wsUpstreams'[c] = IF c = f.channel THEN Nobody ELSE wsUpstreams[c]
  BY <1>0, <1>1 DEF TypeOK
<1>4. ASSUME NEW b \in Browser PROVE SocketStays(b)
  <2>1. wsUpstreams[f.channel] = b => socket[b].st # "none"
    BY <1>0, <1>1, Sets DEF DshAgrees, Started
  <2>2. GivenInOrder(b)
    BY DEF IInv, FlowingDown
  <2> QED
    BY <1>2, <2>1, <2>2 DEF SocketStays, SocketKeeps, Taken, GivenInOrder
<1>5. \A c : f \notin OpenOn(c) /\ f \notin DataOn(c)
  BY DEF OpenOn, DataOn
<1>6. \A b \in Browser : b # Nobody
  BY Sets
<1> QED
  BY <1>3, <1>4, <1>5, <1>6, AnothersFlowsDown DEF FlowingDown, Comes

LEMMA OnOpenFlowingDown ==
  ASSUME IInv, NEW f \in DownFrame, Reading(f), f.type = "open", OnOpen(f.data[1], f.channel)
  PROVE  FlowingDown'
<1>0. TypeOK /\ ChannelsAgree /\ agent \in Link /\ UNCHANGED <<boots, browser, agent>>
  BY Attachments DEF Reading, gateway, callers
<1>1. PICK b \in Browser : /\ b = f.data[1] /\ ~Started(b) /\ Chan(b) = f.channel
                           /\ Chan(b) \in Channel /\ f \in OpenOn(Chan(b))
  BY StartedByOwn
<1>2. PICK c \in Channel : c = f.channel /\ c = Chan(b)
  BY <1>1
<1>3. /\ socket'[b] = Opened(c) /\ \A v \in Browser : v # b => socket'[v] = socket[v]
      /\ wsUpstreams' = [wsUpstreams EXCEPT ![c] = b]
  BY <1>0, <1>1, <1>2, OnOpenDoes
<1>4. ASSUME NEW v \in Browser, v # b PROVE GivenInOrder(v)' /\ Comes(v)'
  <2>1. Chan(v) # c
    BY <1>0, <1>2, <1>4, Sets DEF ChannelsAgree
  <2>2. f \notin OpenOn(Chan(v)) /\ f \notin DataOn(Chan(v))
    BY <1>2, <2>1 DEF OpenOn, DataOn
  <2>3. SocketStays(v)
    BY <1>3, <1>4, SocketsAsTheyWere
  <2>4. Chan(v) \in Channel => wsUpstreams'[Chan(v)] = wsUpstreams[Chan(v)]
    BY <1>0, <1>3, <2>1 DEF TypeOK
  <2> QED
    BY <2>2, <2>3, <2>4, AnothersFlowsDown
<1>5. /\ socket'[b].st = "connecting" /\ socket'[b].got = <<>> /\ socket'[b].queue = <<>>
      /\ socket'[b].link = agent
  BY <1>0, <1>3, OpenedIs DEF TypeOK
<1>6. Taken(socket'[b]) = <<>>
  BY <1>5 DEF Taken
<1>7. GivenInOrder(b)'
  <2>1. GivenInOrder(b)
    BY DEF IInv, FlowingDown
  <2>2. InOrder(<<>>, b)
    BY DEF InOrder
  <2> QED
    BY <1>0, <1>5, <1>6, <2>1, <2>2 DEF GivenInOrder
<1>8. FlowsDown(b, down[agent], Chan(b))'
  <2>1. PICK s \in Seq(DownFrame) : s = down[agent] /\ s # <<>> /\ f = Head(s) /\ down'[agent] = Tail(s)
    BY <1>0, Parts DEF Reading
  <2>2. PICK t \in Seq(Item) : t = Taken(socket[b])
    BY <1>0, Parts, TakenIs
  <2>3. PICK n \in Nat : n = browser[b].n
    <3>1. browser[b] \in BrowserRecord
      BY <1>0, Parts
    <3> QED
      BY <3>1, Sets DEF BrowserRecord
  <2>4. Moves(s, c, t, n)
    BY <1>0, <1>2, <2>1, <2>2, <2>3, Sets DEF IInv, FlowingDown, FlowsDown
  <2>5. Once(s, OpenOn(c))
    BY <1>0, <2>1 DEF IInv, Owned, OwnedDown
  <2>6. Moves(Tail(s), c, <<>>, n) /\ Continues(Tail(s), c, 0, n)
    BY <1>1, <1>2, <2>1, <2>4, <2>5, OpensFirst
  <2>7. Len(<<>>) = 0 /\ IsFirstOf(<<>>, b)
    BY DEF IsFirstOf
  <2>8. Chan(b)' = c
    BY <1>0, <1>2, Sets DEF Chan
  <2> QED
    BY <1>0, <1>6, <2>1, <2>3, <2>6, <2>7, <2>8 DEF FlowsDown
<1> QED
  BY <1>4, <1>7, <1>8 DEF FlowingDown, Comes

LEMMA GivenNext ==
  ASSUME NEW t \in Seq(Item), NEW w, NEW m \in Nat, NEW x \in Item, x = <<w, m>>
  PROVE  /\ Len(t \o <<x>>) = Len(t) + 1
         /\ IsFirstOf(t, w) /\ m = Len(t) + 1 => IsFirstOf(t \o <<x>>, w)
         /\ (\A j \in DOMAIN t : t[j][2] < m) =>
              /\ InOrder(t, w) => InOrder(t \o <<x>>, w)
              /\ \A n \in Nat : m <= n => \A j \in DOMAIN (t \o <<x>>) : (t \o <<x>>)[j][2] <= n
<1> DEFINE u == t \o <<x>>
<1>0. DOMAIN t = 1 .. Len(t) /\ Len(t) \in Nat /\ x[1] = w /\ x[2] = m
  BY LenProperties
<1>1. /\ \A i \in DOMAIN u : (i \in DOMAIN t /\ u[i] = t[i]) \/ (i = Len(t) + 1 /\ u[i] = x)
      /\ \A i \in DOMAIN t : u[i] = t[i]
  BY LastOf
<1>2. Len(u) = Len(t) + 1
  <2>1. <<x>> \in Seq(Item) /\ Len(<<x>>) = 1
    BY Items
  <2> QED
    BY <2>1, ConcatProperties
<1> HIDE DEF u
<1>3. ASSUME IsFirstOf(t, w), m = Len(t) + 1 PROVE IsFirstOf(u, w)
  BY <1>1, <1>3 DEF IsFirstOf
<1>4. ASSUME \A j \in DOMAIN t : t[j][2] < m, InOrder(t, w) PROVE InOrder(u, w)
  <2>1. \A i \in DOMAIN u : u[i][1] = w
    BY <1>0, <1>1, <1>4 DEF InOrder
  <2>2. ASSUME NEW i \in DOMAIN u, NEW j \in DOMAIN u, i < j PROVE u[i][2] < u[j][2]
    <3>1. i \in DOMAIN t /\ u[i] = t[i]
      BY <1>0, <1>1, <2>2
    <3>2. CASE j \in DOMAIN t /\ u[j] = t[j]
      BY <1>4, <2>2, <3>1, <3>2 DEF InOrder
    <3>3. CASE u[j] = x
      BY <1>0, <1>4, <3>1, <3>3
    <3> QED
      BY <1>1, <3>2, <3>3
  <2> QED
    BY <2>1, <2>2 DEF InOrder
<1>5. ASSUME \A j \in DOMAIN t : t[j][2] < m, NEW n \in Nat, m <= n, NEW j \in DOMAIN u
      PROVE  u[j][2] <= n
  <2>1. \A i \in DOMAIN t : t[i][2] \in Nat
    <3>1. \A i \in DOMAIN t : t[i] \in Item
      BY LenProperties
    <3> QED
      BY <3>1, Items
  <2> QED
    BY <1>0, <1>1, <1>5, <2>1
<1> QED
  BY <1>2, <1>3, <1>4, <1>5 DEF u

LEMMA OnDataFlowingDown ==
  ASSUME IInv, NEW f \in DownFrame, Reading(f), f.type = "data", OnData(f.channel, f.data)
  PROVE  FlowingDown'
<1>0. /\ TypeOK /\ LinksAgree /\ DshAgrees /\ agent \in Link /\ agent # 0
      /\ UNCHANGED <<boots, browser, agent>>
      /\ \A b \in Browser : socket[b].st = "open" => socket[b].queue = <<>>
  BY Attachments, Sets DEF Reading, gateway, callers
<1>1. PICK c \in Channel : c = f.channel
  BY DownFrames
<1>2. PICK x \in Item : x = f.data
  BY DownFrames
<1>3. /\ UNCHANGED wsUpstreams
      /\ \/ /\ wsUpstreams[c] \in Browser
            /\ socket'[wsUpstreams[c]] = Delivered(socket[wsUpstreams[c]], x)
            /\ \A v \in Browser : v # wsUpstreams[c] => socket'[v] = socket[v]
         \/ wsUpstreams[c] = Nobody /\ UNCHANGED socket
  <2>1. UNCHANGED wsUpstreams
    BY DEF OnData, tables
  <2>2. \/ /\ wsUpstreams[c] \in Browser
           /\ socket'[wsUpstreams[c]] = Delivered(socket[wsUpstreams[c]], x)
           /\ \A v \in Browser : v # wsUpstreams[c] => socket'[v] = socket[v]
           /\ UNCHANGED <<pendingBodies, upstream>>
        \/ /\ wsUpstreams[c] = Nobody /\ pendingBodies[c] \in Request
           /\ upstream'[pendingBodies[c]] =
                [upstream[pendingBodies[c]] EXCEPT !.st = "sent", !.body = x]
           /\ \A p \in Request : p # pendingBodies[c] => upstream'[p] = upstream[p]
           /\ pendingBodies' = [pendingBodies EXCEPT ![c] = Nobody] /\ UNCHANGED socket
        \/ wsUpstreams[c] = Nobody /\ UNCHANGED <<pendingBodies, upstream, socket>>
    <3>1. TypeOK /\ \A b \in Browser : socket[b].st = "open" => socket[b].queue = <<>>
      BY <1>0
    <3> QED
      BY <3>1, <1>1, <1>2, OnDataDoes, Zenon
  <2> QED
    BY <2>1, <2>2
<1>4. /\ f \in DataOn(c) /\ \A d \in Channel : f \in DataOn(d) => d = c
      /\ \A d : f \notin OpenOn(d)
  BY <1>1 DEF DataOn, OpenOn
<1>5. ASSUME NEW v \in Browser, wsUpstreams[c] # v, socket'[v] = socket[v]
      PROVE  GivenInOrder(v)' /\ Comes(v)'
  <2>1. SocketStays(v)
    BY <1>5, SocketsAsTheyWere
  <2> QED
    BY <1>3, <1>4, <1>5, <2>1, AnothersFlowsDown
<1>6. ASSUME NEW b \in Browser, wsUpstreams[c] = b, socket'[b] = Delivered(socket[b], x)
      PROVE  GivenInOrder(b)' /\ Comes(b)'
  <2>1. b \in Whose /\ Started(b) /\ On(b) = c /\ BootOf(b) = socket[b].boot /\ socket[b].st # "none"
    BY <1>0, <1>6, Sets DEF DshAgrees, Started, BootOf
  <2>2. PICK t \in Seq(Item) : t = Taken(socket[b])
    BY <1>0, Parts, TakenIs
  <2>3. /\ SameAsk(socket[b], socket'[b]) /\ socket'[b].st = socket[b].st
        /\ Taken(socket'[b]) = t \o <<x>>
        /\ socket[b].st = "open" => socket'[b].queue = <<>>
        /\ socket[b].st = "connecting" => socket'[b].got = socket[b].got
    BY <1>0, <1>6, <2>2, Parts, DeliveredIs
  <2>4. GivenInOrder(b)
    BY DEF IInv, FlowingDown
  <2>5. Chan(b)' = Chan(b)
    BY <1>0, Sets DEF Chan
  <2>6. CASE Past(b)
    <3>1. Chan(b) = 0 /\ socket[b].boot # boots
      <4>1. BootOf(b) \in Nat
        BY <1>0, <2>1, PartyTypes
      <4>2. boots \in Nat
        BY <1>0, Sets DEF TypeOK
      <4> QED
        BY <1>0, <2>1, <2>6, <4>1, <4>2 DEF Past, LinksAgree
    <3> QED
      BY <1>0, <2>1, <2>3, <2>4, <2>5, <3>1 DEF GivenInOrder, Comes, SameAsk
  <2>7. CASE Current(b)
    <3>1. Chan(b) = c /\ socket[b].boot = boots /\ c # 0
      BY <2>1, <2>7, Sets DEF Current
    <3>2. PICK n \in Nat : n = browser[b].n
      <4>1. browser[b] \in BrowserRecord
        BY <1>0, Parts
      <4> QED
        BY <4>1, Sets DEF BrowserRecord
    <3>3. PICK m \in 1 .. n : x = <<b, m>>
      <4>1. DownIsOf(b, f)
        BY <1>1, <2>1, <3>1, ReadIsOf
      <4> QED
        BY <1>2, <3>2, <4>1 DEF DownIsOf
    <3>4. PICK s \in Seq(DownFrame) : s = down[agent] /\ s # <<>> /\ f = Head(s) /\ down'[agent] = Tail(s)
      BY <1>0, Parts DEF Reading
    <3>5. FlowsDown(b, s, c)
      BY <1>0, <3>1, <3>4 DEF IInv, FlowingDown
    <3>6. /\ Moves(s, c, t, n)
          /\ socket[b].link = agent => IsFirstOf(t, b) /\ Continues(s, c, Len(t), n)
      BY <1>6, <2>1, <2>2, <3>2, <3>5 DEF FlowsDown
    <3>7. x[2] = m /\ m \in Nat /\ Len(t) \in Nat
      BY <3>3, LenProperties
    <3>8. /\ Moves(Tail(s), c, t \o <<x>>, n)
          /\ \A j \in DOMAIN t : t[j][2] < m
          /\ \A low \in Nat : Continues(s, c, low, n) => m = low + 1 /\ Continues(Tail(s), c, low + 1, n)
      BY <1>2, <1>4, <3>4, <3>6, <3>7, ReadsNext
    <3>9. /\ Len(t \o <<x>>) = Len(t) + 1
          /\ IsFirstOf(t, b) /\ m = Len(t) + 1 => IsFirstOf(t \o <<x>>, b)
          /\ InOrder(t, b) => InOrder(t \o <<x>>, b)
          /\ \A j \in DOMAIN (t \o <<x>>) : (t \o <<x>>)[j][2] <= n
      <4>1. /\ Len(t \o <<x>>) = Len(t) + 1
            /\ IsFirstOf(t, b) /\ m = Len(t) + 1 => IsFirstOf(t \o <<x>>, b)
            /\ (\A j \in DOMAIN t : t[j][2] < m) =>
                 /\ InOrder(t, b) => InOrder(t \o <<x>>, b)
                 /\ \A k \in Nat : m <= k =>
                      \A j \in DOMAIN (t \o <<x>>) : (t \o <<x>>)[j][2] <= k
        BY <3>3, <3>7, GivenNext
      <4> QED
        BY <3>8, <4>1
    <3>10. PICK u : u = t \o <<x>>
      OBVIOUS
    <3>11. GivenInOrder(b)'
      BY <1>0, <2>1, <2>2, <2>3, <2>4, <3>1, <3>2, <3>9, <3>10 DEF GivenInOrder, SameAsk
    <3>12. FlowsDown(b, down[agent], Chan(b))'
      BY <1>0, <2>1, <2>3, <2>5, <3>1, <3>2, <3>4, <3>6, <3>7, <3>8, <3>9, <3>10 DEF FlowsDown, SameAsk
    <3> QED
      BY <3>11, <3>12 DEF Comes
  <2> QED
    BY <1>0, <2>1, <2>6, <2>7 DEF DshAgrees
<1>7. \A v \in Browser : v # Nobody
  BY Sets
<1> QED
  BY <1>3, <1>5, <1>6, <1>7 DEF FlowingDown, Comes

LEMMA AgentReadsFlowingDown ==
  ASSUME IInv, AgentReads PROVE FlowingDown'
BY Attachments, ReadingDoes, OnRequestFlowingDown, OnOpenFlowingDown, OnDataFlowingDown,
   OnCloseFlowingDown
-------------------------------------------------------------------------------
(* Every step keeps all of it.                                                 *)

LEMMA InitHolds == Init => IInv
<1> SUFFICES ASSUME Init PROVE IInv
  OBVIOUS
<1>1. /\ up = TRUE /\ boots = 0 /\ channelSeq = 0 /\ node = 0 /\ agent = 0
      /\ streams = [c \in Channel |-> Nobody] /\ wsChannels = [c \in Channel |-> Nobody]
      /\ pendingBodies = [c \in Channel |-> Nobody] /\ wsUpstreams = [c \in Channel |-> Nobody]
      /\ response = [q \in Request |-> NoResponse] /\ browser = [b \in Browser |-> NoBrowser]
      /\ upstream = [q \in Request |-> NoUpstream] /\ socket = [b \in Browser |-> NoSocket]
      /\ link = [k \in Link |-> "unused"]
      /\ down = [k \in Link |-> <<>>] /\ toGateway = [k \in Link |-> <<>>]
  BY DEF Init
<1>2. \A q \in Request : /\ response[q].st = "idle" /\ response[q].channel = 0
                         /\ response[q].out = <<>> /\ response[q].buf = <<>>
                         /\ upstream[q].st = "none" /\ upstream[q].n = 0 /\ upstream[q].body = <<>>
  BY <1>1 DEF NoResponse, NoUpstream
<1>3. \A b \in Browser : /\ browser[b].st = "idle" /\ browser[b].channel = 0
                         /\ browser[b].n = 0 /\ browser[b].got = <<>>
                         /\ socket[b].st = "none" /\ socket[b].got = <<>> /\ socket[b].queue = <<>>
  BY <1>1 DEF NoBrowser, NoSocket
<1>4. /\ \A w \in Whose : Chan(w) = 0 /\ Idle(w) /\ ~Started(w)
      /\ \A w \in Whose : Heard(w) = 0
  <2>1. Len(<<>>) = 0 /\ 0 + 0 = 0
    OBVIOUS
  <2>2. \A q \in Request : Chan(q) = 0 /\ Idle(q) /\ ~Started(q) /\ Heard(q) = 0
    BY <1>2, <2>1 DEF Chan, Idle, Started, Heard
  <2>3. \A b \in Browser : Chan(b) = 0 /\ Idle(b) /\ ~Started(b) /\ Heard(b) = 0
    BY <1>3, <2>1, Sets DEF Chan, Idle, Started, Heard
  <2> QED
    BY <2>2, <2>3 DEF Whose
<1>5. \A c \in Channel : /\ streams[c] = Nobody /\ wsChannels[c] = Nobody
                         /\ pendingBodies[c] = Nobody /\ wsUpstreams[c] = Nobody
  BY <1>1
<1>6. /\ \A k \in Link : link[k] = "unused" /\ down[k] = <<>> /\ toGateway[k] = <<>>
      /\ In(<<>>) = {} /\ \A c : Once(<<>>, OpenOn(c))
  BY <1>1 DEF In, Once
<1>7. /\ \A q \in Request : q # Nobody /\ q \in Whose
      /\ \A b \in Browser : b # Nobody /\ b \in Whose
  BY Sets
<1>8. TypeOK
  <2>1. \A S : <<>> \in Seq(S)
    BY Items
  <2>2. 0 \in 0 .. MaxBoots /\ 0 \in 0 .. Cardinality(Whose) /\ 0 \in 0 .. MaxLinks
        /\ 0 <= HtmlBufferCap /\ Len(<<>>) = 0
    BY Sets
  <2>3. \A q \in Request : Len(response[q].buf) <= HtmlBufferCap
    BY <1>2, <2>2
  <2> QED
    BY <1>1, <2>1, <2>2, <2>3, NoneTyped DEF TypeOK
<1>9. Attached
  <2>1. LinksAgree
    BY <1>1, <1>6 DEF LinksAgree
  <2>2. Holders = {} /\ Cardinality({}) = 0
    BY <1>4, FS_EmptySet DEF Holders
  <2>3. ChannelsAgree
    BY <1>1, <1>4, <1>5, <1>7, <2>2 DEF ChannelsAgree
  <2>4. DshAgrees
    BY <1>4, <1>5, <1>7 DEF DshAgrees
  <2> QED
    BY <2>1, <2>3, <2>4 DEF Attached
<1>10. Owned
  BY <1>2, <1>6 DEF Owned, OwnedDown, OwnedUp, OwnBodies
<1>11. FlowingUp
  <2>1. \A w \in Whose, c \in Channel : ~Listening(w, c)
    BY <1>5, <1>7 DEF Listening, Whose
  <2>2. \A q \in Request : Reads(q)
    BY <1>2 DEF Reads, IsFirstOf
  <2>3. \A b \in Browser : IsFirstOf(browser[b].got, b)
    BY <1>3 DEF IsFirstOf
  <2> QED
    BY <1>4, <1>7, <2>1, <2>2, <2>3 DEF FlowingUp
<1>12. FlowingDown
  <2>1. <<>> \o <<>> = <<>> /\ \A b : InOrder(<<>>, b)
    BY DEF InOrder
  <2>2. \A b \in Browser : Taken(socket[b]) = <<>>
    BY <1>3, <2>1 DEF Taken
  <2>3. \A b \in Browser : GivenInOrder(b)
    BY <1>3, <2>1, <2>2 DEF GivenInOrder
  <2> QED
    BY <1>1, <2>3 DEF FlowingDown
<1> QED
  BY <1>8, <1>9, <1>10, <1>11, <1>12 DEF IInv

LEMMA GatewayReadsTyped ==
  ASSUME TypeOK, NEW k \in Link, GatewayReads(k) PROVE TypeOK'
<1>1. PICK f \in UpFrame :
        /\ Hearing(k, f)
        /\ \/ streams[f.channel] # Nobody /\ StreamFrame(f, streams[f.channel])
           \/ wsChannels[f.channel] # Nobody /\ BrowserFrame(f, wsChannels[f.channel])
           \/ /\ streams[f.channel] = Nobody /\ wsChannels[f.channel] = Nobody
              /\ UNCHANGED <<streams, wsChannels, callers>>
  BY HearingDoes
<1>2. f.channel \in Channel
  BY UpFrames
<1>3. CASE UNCHANGED <<streams, wsChannels, callers>>
  BY <1>1, <1>3, HearingNothing
<1>4. CASE streams[f.channel] # Nobody /\ StreamFrame(f, streams[f.channel])
  <2>1. PICK q \in Request : q = streams[f.channel]
    BY <1>2, <1>4 DEF TypeOK
  <2> QED
    BY <1>1, <1>4, <2>1, StreamFrameDoes
<1>5. CASE wsChannels[f.channel] # Nobody /\ BrowserFrame(f, wsChannels[f.channel])
  <2>1. PICK b \in Browser : b = wsChannels[f.channel]
    BY <1>2, <1>5 DEF TypeOK
  <2> QED
    BY <1>1, <1>5, <2>1, BrowserFrameDoes
<1> QED
  BY <1>1, <1>3, <1>4, <1>5

LEMMA AgentReadsTyped ==
  ASSUME IInv, AgentReads PROVE TypeOK'
<1>0. TypeOK /\ \A b \in Browser : socket[b].st = "open" => socket[b].queue = <<>>
  BY Attachments
<1>1. PICK f \in DownFrame :
        /\ Reading(f)
        /\ \/ f.type = "request" /\ OnRequest(f.data[1], f.channel)
           \/ f.type = "open" /\ OnOpen(f.data[1], f.channel)
           \/ f.type = "data" /\ OnData(f.channel, f.data)
           \/ f.type = "close" /\ OnClose(f.channel)
  BY <1>0, ReadingDoes
<1>2. CASE f.type = "request" /\ OnRequest(f.data[1], f.channel)
  BY <1>0, <1>1, <1>2, OnRequestDoes
<1>3. CASE f.type = "open" /\ OnOpen(f.data[1], f.channel)
  BY <1>0, <1>1, <1>3, OnOpenDoes
<1>4. CASE f.type = "data" /\ OnData(f.channel, f.data)
  BY <1>0, <1>1, <1>4, OnDataDoes, Zenon
<1>5. CASE f.type = "close" /\ OnClose(f.channel)
  BY <1>0, <1>1, <1>5, OnCloseDoes
<1> QED
  BY <1>1, <1>2, <1>3, <1>4, <1>5

LEMMA AnswersKeep ==
  ASSUME IInv, NEW q \in Request,
         Responds(q) \/ SendsChunk(q) \/ Ends(q) \/ Refused(q) \/ Reset(q)
  PROVE  IInv'
<1>1. PICK c \in Channel, st \in {"answering", "done"}, n \in 0 .. Chunks, F \in Seq(UpFrame) :
        Answers(q, c, st, n, F)
  BY AnswersAre
<1>2. /\ TypeOK /\ upstream[q].link \in Link /\ upstream[q].st # "none"
      /\ Answer(q, st, n, F) /\ st \in {"awaiting", "sent", "answering", "done"}
  BY <1>1, Attachments DEF Answers
<1>3. TypeOK'
  BY <1>2, AnswerDoes
<1>4. Attached'
  BY <1>1, <1>2, AnswerAttached DEF Answers
<1>5. Owned'
  BY <1>1, AnswersOwned
<1>6. FlowingUp'
  BY <1>1, AnswersFlowingUp
<1>7. FlowingDown'
  BY AnswersFlowingDown
<1> QED
  BY <1>3, <1>4, <1>5, <1>6, <1>7 DEF IInv

LEMMA LinkStepsKeep ==
  ASSUME IInv, NEW k \in Link, Connect(k) \/ LinkClosed(k) \/ GatewayReads(k)
  PROVE  IInv'
<1>0. TypeOK
  BY Attachments
<1>1. CASE Connect(k)
  BY <1>0, <1>1, ConnectDoes, ConnectAttached, ConnectOwned, ConnectFlowingUp, ConnectFlowingDown
     DEF IInv
<1>2. CASE LinkClosed(k)
  BY <1>0, <1>2, LinkClosedDoes, LinkClosedAttached, LinkClosedOwned, LinkClosedFlowingUp,
     LinkClosedFlowingDown DEF IInv
<1>3. CASE GatewayReads(k)
  BY <1>0, <1>3, GatewayReadsTyped, GatewayReadsAttached, GatewayReadsOwned, GatewayReadsFlowingUp,
     GatewayReadsFlowingDown DEF IInv
<1> QED
  BY <1>1, <1>2, <1>3

LEMMA ProcessStepsKeep ==
  ASSUME IInv, LinkBreaks \/ ProcessEnds \/ Boot \/ AgentReads
  PROVE  IInv'
<1>0. TypeOK
  BY Attachments
<1>1. CASE LinkBreaks
  BY <1>0, <1>1, LinkBreaksDoes, LinkBreaksAttached, LinkBreaksOwned, LinkBreaksFlowingUp,
     LinkBreaksFlowingDown DEF IInv
<1>2. CASE ProcessEnds
  BY <1>0, <1>2, ProcessEndsDoes, ProcessEndsAttached, ProcessEndsOwned, ProcessEndsFlowingUp,
     ProcessEndsFlowingDown DEF IInv
<1>3. CASE Boot
  BY <1>0, <1>3, BootDoes, BootAttached, BootOwned, BootFlowingUp, BootFlowingDown DEF IInv
<1>4. CASE AgentReads
  BY <1>4, AgentReadsTyped, AgentReadsAttached, AgentReadsOwned, AgentReadsFlowingUp,
     AgentReadsFlowingDown DEF IInv
<1> QED
  BY <1>1, <1>2, <1>3, <1>4

LEMMA RequestStepsKeep ==
  ASSUME IInv, NEW q \in Request, Relay(q) \/ Retry(q)
  PROVE  IInv'
<1>0. TypeOK /\ ChannelsAgree
  BY Attachments
<1>1. CASE Relay(q)
  BY <1>0, <1>1, RelayDoes, RelayAttached, RelayOwned, RelayFlowingUp, RelayFlowingDown DEF IInv
<1>2. CASE Retry(q)
  BY <1>0, <1>2, RetryDoes, RetryAttached, RetryOwned, RetryFlowingUp, AnswersFlowingDown DEF IInv
<1> QED
  BY <1>1, <1>2

LEMMA SocketStepsKeep ==
  ASSUME IInv, NEW b \in Browser, SocketOpens(b) \/ SocketSends(b) \/ SocketCloses(b)
  PROVE  IInv'
<1>0. TypeOK
  BY Attachments
<1>1. CASE SocketOpens(b)
  <2>1. TypeOK'
    <3>1. socket[b].got = <<>>
      BY <1>1, Attachments DEF SocketOpens
    <3> QED
      BY <1>0, <1>1, <3>1, SocketOpensDoes
  <2> QED
    BY <1>1, <2>1, SocketOpensAttached, SocketOpensOwned, SocketOpensFlowingUp, SocketOpensFlowingDown
       DEF IInv
<1>2. CASE SocketSends(b)
  <2>1. socket[b].link \in Link /\ socket[b].channel \in Channel
    BY <1>2, Attachments DEF SocketSends
  <2>2. TypeOK'
    BY <1>0, <1>2, <2>1, SocketSendsDoes
  <2> QED
    BY <1>2, <2>2, SocketSendsAttached, SocketSendsOwned, SocketSendsFlowingUp, SocketSendsFlowingDown
       DEF IInv
<1>3. CASE SocketCloses(b)
  <2>1. socket[b].link \in Link /\ socket[b].channel \in Channel
    BY <1>3, Attachments DEF SocketCloses
  <2>2. TypeOK'
    BY <1>0, <1>3, <2>1, SocketClosesDoes
  <2> QED
    BY <1>3, <2>2, SocketClosesAttached, SocketClosesOwned, SocketClosesFlowingUp,
       SocketClosesFlowingDown DEF IInv
<1> QED
  BY <1>1, <1>2, <1>3

LEMMA BrowserStepsKeep ==
  ASSUME IInv, NEW b \in Browser,
         BrowserOpens(b) \/ \E c \in Channel : BrowserSends(b, c) \/ BrowserCloses(b, c)
  PROVE  IInv'
<1>0. TypeOK /\ ChannelsAgree
  BY Attachments
<1>1. CASE BrowserOpens(b)
  BY <1>0, <1>1, BrowserOpensDoes, BrowserOpensAttached, BrowserOpensOwned, BrowserOpensFlowingUp,
     BrowserOpensFlowingDown DEF IInv
<1>2. ASSUME NEW c \in Channel, BrowserSends(b, c) PROVE IInv'
  BY <1>0, <1>2, BrowserSendsDoes, BrowserSendsAttached, BrowserSendsOwned, BrowserSendsFlowingUp,
     BrowserSendsFlowingDown DEF IInv
<1>3. ASSUME NEW c \in Channel, BrowserCloses(b, c) PROVE IInv'
  BY <1>0, <1>3, BrowserClosesDoes, BrowserClosesAttached, BrowserClosesOwned, BrowserClosesFlowingUp,
     BrowserClosesFlowingDown DEF IInv
<1> QED
  BY <1>1, <1>2, <1>3

LEMMA RelayTimeoutKeeps ==
  ASSUME IInv, NEW c \in Channel, RelayTimeout(c) PROVE IInv'
BY Attachments, RelayTimeoutDoes, RelayTimeoutAttached, RelayTimeoutOwned, RelayTimeoutFlowingUp,
   RelayTimeoutFlowingDown DEF IInv

LEMMA StutteringKeeps ==
  ASSUME IInv, UNCHANGED vars PROVE IInv'
<1>1. UNCHANGED <<up, boots, channelSeq, streams, wsChannels, response, browser, node, link, down,
                  toGateway, agent, pendingBodies, wsUpstreams, upstream, socket>>
  BY DEF vars, gateway, callers, frames, tables, dsh
<1>2. TypeOK'
  BY <1>1 DEF IInv, TypeOK
<1>3. \A w \in Whose : CallerKeeps(w) /\ AskKeeps(w) /\ Idle(w)' = Idle(w) /\ Started(w)' = Started(w)
  BY <1>1, SameParties, SameAsks, Attachments DEF callers, dsh, AskKeeps
<1>4. Attached'
  BY <1>1, <1>3, Attachments, LinksStay, ChannelsStay, DshStays DEF Attached, CallerKeeps
<1>5. Owned'
  BY <1>1, <1>3, OwnedStays, CallersUntouched DEF callers
<1>6. FlowingUp'
  BY <1>1, <1>3, FlowingUpStays DEF HistoriesKept, Listening, CallerKeeps
<1>7. FlowingDown'
  BY <1>1, <1>3, FlowingDownStays, SocketsAsTheyWere, Sets DEF CallerKeeps
<1> QED
  BY <1>2, <1>4, <1>5, <1>6, <1>7 DEF IInv

LEMMA StepKeeps == IInv /\ [Next]_vars => IInv'
<1> SUFFICES ASSUME IInv, [Next]_vars PROVE IInv'
  OBVIOUS
<1>1. ASSUME NEW k \in Link, Connect(k) \/ LinkClosed(k) \/ GatewayReads(k) PROVE IInv'
  BY <1>1, LinkStepsKeep
<1>2. ASSUME NEW k \in Link, Crash(k) PROVE IInv'
  BY <1>2, ProcessStepsKeep, Zenon DEF Crash
<1>3. ASSUME LinkBreaks \/ Exit \/ Boot \/ AgentReads PROVE IInv'
  BY <1>3, ProcessStepsKeep, Zenon DEF Exit
<1>4. ASSUME NEW q \in Request, Relay(q) \/ Retry(q) PROVE IInv'
  BY <1>4, RequestStepsKeep
<1>5. ASSUME NEW q \in Request, Responds(q) \/ SendsChunk(q) \/ Ends(q) \/ Refused(q) \/ Reset(q)
      PROVE  IInv'
  BY <1>5, AnswersKeep
<1>6. ASSUME NEW b \in Browser, SocketOpens(b) \/ SocketSends(b) \/ SocketCloses(b) PROVE IInv'
  BY <1>6, SocketStepsKeep
<1>7. ASSUME NEW b \in Browser,
             BrowserOpens(b) \/ \E c \in Channel : BrowserSends(b, c) \/ BrowserCloses(b, c)
      PROVE  IInv'
  BY <1>7, BrowserStepsKeep
<1>8. ASSUME NEW c \in Channel, RelayTimeout(c) PROVE IInv'
  BY <1>8, RelayTimeoutKeeps
<1>9. CASE UNCHANGED vars
  BY <1>9, StutteringKeeps
<1> QED
  BY <1>1, <1>2, <1>3, <1>4, <1>5, <1>6, <1>7, <1>8, <1>9 DEF Next

(* The links, the channels and the tables of the gateway and of the agent agree,    *)
(* frames in transit are their owners', and what is in transit continues what was   *)
(* read, whatever is lost and however often the gateway is started again.          *)
THEOREM Relayed == Spec => []IInv
<1>1. Init => IInv
  BY InitHolds
<1>2. IInv /\ [Next]_vars => IInv'
  BY StepKeeps
<1> QED
  BY <1>1, <1>2, PTL DEF Spec

(* The types of the data plane (router.ts, nodes.ts and the agent's index.js): in     *)
(* particular, there are never more channels than requests and sockets.             *)
THEOREM TunnelTypes == Spec => []TypeOK
<1>1. IInv => TypeOK
  BY DEF IInv
<1> QED
  BY <1>1, Relayed, PTL

(* What a browser gets for its request is that request's response, in order and, when *)
(* it ends without an error, complete; and dsh is asked with that request's body      *)
(* (relayStream(), onData(), onEnd() and collectRequestBody()).                      *)
THEOREM BrowsersGetTheirOwn == Spec => []ResponsesAreOwn
<1>1. ASSUME IInv PROVE ResponsesAreOwn
  <2> SUFFICES ASSUME NEW q \in Request, q \notin Cut
               PROVE  /\ IsFirstOf(response[q].out, q)
                      /\ response[q].st = "ended" /\ response[q].head = "own" =>
                           upstream[q].st = "done" /\ Len(response[q].out) = upstream[q].n
                      /\ upstream[q].st \in {"sent", "answering", "done"} /\ upstream[q].boot = boots =>
                           upstream[q].body = IF q \in WithBody THEN <<q, 0>> ELSE <<>>
    BY Zenon DEF ResponsesAreOwn
  <2>1. Reads(q)
    BY <1>1 DEF IInv, FlowingUp
  <2>2. OwnBodies
    BY <1>1 DEF IInv, Owned
  <2> QED
    BY <2>1, <2>2 DEF Reads, OwnBodies
<1> QED
  BY <1>1, Relayed, PTL

LEMMA ItemsJoined ==
  \A g, u \in Seq(Item) : \A i \in DOMAIN g : i \in DOMAIN (g \o u) /\ (g \o u)[i] = g[i]
<1>1. ASSUME NEW g \in Seq(Item), NEW u \in Seq(Item)
      PROVE  \A i \in DOMAIN g : i \in DOMAIN (g \o u) /\ (g \o u)[i] = g[i]
  BY Joined
<1> QED
  BY <1>1

(* A browser hears its own socket and that hears its browser, each in order and, while *)
(* the link lasts, without gaps (sendWs(), handleWsOpen(), handleData()).             *)
THEOREM SocketsHearTheirOwn == Spec => []ConversationsAreOwn
<1>1. ASSUME IInv, NEW b \in Browser
      PROVE  /\ IsFirstOf(browser[b].got, b)
             /\ socket[b].boot = boots =>
                  /\ InOrder(socket[b].got, b)
                  /\ socket[b].link = agent => IsFirstOf(socket[b].got, b)
  <2>0. TypeOK /\ LinksAgree /\ DshAgrees /\ b \in Whose
    BY <1>1, Attachments, Sets
  <2>1. IsFirstOf(browser[b].got, b) /\ GivenInOrder(b)
    BY <1>1 DEF IInv, FlowingUp, FlowingDown
  <2>2. PICK t : t = Taken(socket[b])
    OBVIOUS
  <2>3. \A i \in DOMAIN socket[b].got : i \in DOMAIN t /\ t[i] = socket[b].got[i]
    <3>1. socket[b] \in SocketRecord
      BY <2>0, Parts
    <3>2. socket[b].got \in Seq(Item) /\ socket[b].queue \in Seq(Item)
      BY <3>1 DEF SocketRecord
    <3> QED
      BY <2>2, <3>2, ItemsJoined DEF Taken
  <2>4. socket[b].boot = boots => InOrder(t, b)
    BY <2>1, <2>2 DEF GivenInOrder
  <2>5. socket[b].link = agent => IsFirstOf(t, b)
    <3>1. CASE socket[b].st = "none"
      BY <2>1, <2>2, <3>1 DEF GivenInOrder, IsFirstOf
    <3>2. CASE socket[b].st # "none" /\ socket[b].link = agent
      <4>1. Started(b) /\ Via(b) = agent
        BY <3>2, Sets DEF Started, Via
      <4>2. agent \in Link /\ agent # 0
        BY <2>0, <4>1, Sets DEF DshAgrees
      <4>3. Chan(b) # 0
        BY <2>0, <4>1, <4>2, Sets DEF DshAgrees, LinksAgree, Current, Past
      <4> QED
        BY <1>1, <2>2, <3>2, <4>2, <4>3 DEF IInv, FlowingDown, FlowsDown
    <3> QED
      BY <3>1, <3>2
  <2> QED
    BY <2>1, <2>3, <2>4, <2>5 DEF InOrder, IsFirstOf
<1>2. IInv => ConversationsAreOwn
  BY <1>1 DEF ConversationsAreOwn
<1> QED
  BY <1>2, Relayed, PTL
===============================================================================
