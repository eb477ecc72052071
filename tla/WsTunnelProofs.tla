---------------------------- MODULE WsTunnelProofs ----------------------------
(***************************************************************************)
(* Safety of a tunnelled websocket, for any number of frames: the order in *)
(* which frames arrive, the place of a close among them, and the end of    *)
(* the agent's session.                                                    *)
(***************************************************************************)
EXTENDS WsTunnel, SequenceTheorems, TLAPS

-----------------------------------------------------------------------------
(* Queues *)

Has(s, m) == \E i \in 1 .. Len(s) : s[i] = m

\* The frame's place in a queue, in which an acknowledgement does not count.
Place(s, i) == IF \E j \in 1 .. i : s[j] \in Acks THEN i - 1 ELSE i
Carried(s) == Place(s, Len(s))

\* A queue whose frames follow the first n: the data of the queue is numbered from
\* n + 1 on, none is behind a close, and there is at most one acknowledgement.
InOrder(s, n) ==
    /\ \A i \in 1 .. Len(s) : s[i] \in Data => s[i].no = n + Place(s, i)
    /\ \A i, j \in 1 .. Len(s) : i < j /\ s[i] = Close => s[j] \notin Data
    /\ \A i, j \in 1 .. Len(s) : s[i] \in Acks /\ s[j] \in Acks => i = j

\* A close is the queue's last element.
CloseLast(s) == \A i \in 1 .. Len(s) - 1 : s[i] # Close

-----------------------------------------------------------------------------
(* The inductive invariant *)

Before == {"start", "refused", "init_sent", "session", "upgrade", "await_ack", "abandoned"}
After == {"rm_waiter", "rm_session", "ended"}

\* Where the server's tasks are when the tunnel is where it is.
ServerInv ==
    /\ tunnel \in {"start", "refused"} => init = "none" /\ toAgent = <<>>
    /\ tunnel \in {"start", "refused", "init_sent"} => ~ ws_sessions
    /\ tunnel \in Before => albReader = "none" /\ albWriter = "none"
    /\ tunnel = "open" => ack = "ok" /\ albReader # "none" /\ albWriter # "none"
    /\ tunnel \in After => \/ ack = "ok" /\ albReader = "done" /\ albWriter = "done"
                           \/ ack = "fail" /\ albReader = "none" /\ albWriter = "none"
    /\ albWriter = "none" => got["browser"] = <<>>
    /\ tunnel \in {"start", "refused", "init_sent"} => albOut = <<>>
    /\ far["browser"] # "absent"
    /\ albReader = "done" => far["browser"] # "open"

\* What the acknowledgement says of the agent, and that there is one.
AgentInv ==
    /\ init \in {"none", "connect"} => far["app"] = "absent" /\ toServer = <<>>
    /\ init = "spawned" => /\ sessions /\ writer = "run"
                           /\ localOut = <<>> /\ got["app"] = <<>>
    /\ init # "none" => ~ Has(toAgent, Frame("init"))
    /\ init # "over" => ack = "none" /\ \A m \in Acks : ~ Has(toServer, m)
    /\ ack # "none" => \A m \in Acks : ~ Has(toServer, m)
    /\ far["app"] = "absent" =>
           /\ init # "spawned" /\ ack # "ok" /\ toServer \in {<<>>, <<Frame("fail")>>}
           /\ ~ sessions /\ reader = "none" /\ writer = "none"
           /\ localOut = <<>> /\ inbound["app"] = <<>> /\ got["app"] = <<>>
           /\ sent["app"] = 0
    /\ far["app"] # "absent" => /\ reader # "none" /\ writer # "none"
                                /\ ack # "fail" /\ ~ Has(toServer, Frame("fail"))
    /\ far["app"] = "open" => reader = "run"
    /\ albReader = "none" => /\ toAgent \in {<<>>, <<Frame("init")>>}
                             /\ localOut = <<>> /\ got["app"] = <<>>

\* The close that ends the agent's session is on its way as soon as it must be.
CloseOnItsWay ==
    link = "up" /\ sessions =>
        /\ tunnel \in After => Has(toAgent, Close)
        /\ albReader = "done" /\ far["browser"] = "closed" => Has(toAgent, Close)

\* At an end, a close is the last it receives and the last it sends.
EndCloses ==
    \A e \in Ends : /\ far[e] # "closed" => ~ Has(inbound[e], Close)
                    /\ CloseLast(got[e]) /\ CloseLast(inbound[e])

\* The maps forget a session with the close that is queued, so that nothing is
\* queued behind it, and nothing is left once it is written.
MapCloses ==
    /\ CloseLast(localOut) /\ CloseLast(albOut)
    /\ sessions => ~ Has(localOut, Close) /\ ~ Has(got["app"], Close)
    /\ ws_sessions => ~ Has(albOut, Close) /\ ~ Has(got["browser"], Close)
    /\ Has(got["app"], Close) => localOut = <<>>
    /\ Has(got["browser"], Close) => albOut = <<>>

\* No close is ahead of the reader that passes it on.
ReaderCloses ==
    /\ albReader # "done" =>
           ~ Has(toAgent, Close) /\ ~ Has(localOut, Close) /\ ~ Has(got["app"], Close)
    /\ reader # "done" =>
           ~ Has(toServer, Close) /\ ~ Has(albOut, Close) /\ ~ Has(got["browser"], Close)

\* Only the server's join sends a second close.
LinkCloses ==
    /\ \A i \in 1 .. Len(toAgent) - 2 : toAgent[i] # Close
    /\ tunnel = "open" => CloseLast(toAgent)
    /\ \A i, j \in 1 .. Len(toServer) : toServer[i] = Close /\ toServer[j] = Close => i = j

ClosesInv == EndCloses /\ MapCloses /\ ReaderCloses /\ LinkCloses

\* What the writer takes from its queue reaches the application.
Written == writer = "run" /\ far["app"] = "open"

\* From the browser to the application.  m frames have left toAgent and n the
\* browser's socket.  Up to the first place where frames are lost, a queue goes on
\* where the one behind it ends; beyond it nothing is passed on any more.
ToApp(m, n) ==
    /\ InOrder(got["app"], 0)
    /\ Written => InOrder(localOut, Len(got["app"]))
    /\ Written /\ sessions => m = Len(got["app"]) + Len(localOut)
    /\ InOrder(toAgent, m)
    /\ link = "up" /\ albReader = "run" => n = m + Len(toAgent)
    /\ albReader = "none" => m = 0 /\ n = 0
    /\ InOrder(inbound["browser"], n)

\* How many frames went before the browser's close, wherever it is.
CloseToApp(m, n) ==
    /\ far["browser"] = "open" => n + Len(inbound["browser"]) = sent["browser"]
    /\ far["browser"] = "closed" =>
        /\ albReader # "done" => /\ Has(inbound["browser"], Close)
                                 /\ n + Len(inbound["browser"]) = sent["browser"] + 1
        /\ sessions => \A i \in 1 .. Len(toAgent) : toAgent[i] = Close =>
               m + i = sent["browser"] + 1 \/ (i > 1 /\ toAgent[i - 1] = Close)
        /\ Written => \A i \in 1 .. Len(localOut) : localOut[i] = Close =>
               Len(got["app"]) + i = sent["browser"] + 1
        /\ \A i \in 1 .. Len(got["app"]) : got["app"][i] = Close =>
               i = sent["browser"] + 1

\* What is queued for the browser and written reaches it.
Shown == albWriter # "done" /\ far["browser"] = "open"

\* From the application to the browser.  The first k frames came too early, m have
\* left toServer and n the application's socket.
ToBrowser(k, m, n) ==
    /\ InOrder(got["browser"], k)
    /\ Shown => InOrder(albOut, k + Len(got["browser"]))
    /\ Shown /\ ws_sessions => m = k + Len(got["browser"]) + Len(albOut)
    /\ InOrder(toServer, m)
    /\ link = "up" /\ reader = "run" => n = m + Carried(toServer)
    /\ reader = "none" => m = 0 /\ n = 0
    /\ InOrder(inbound["app"], n)

CloseToBrowser(k, m, n) ==
    /\ far["app"] = "open" => n + Len(inbound["app"]) = sent["app"]
    /\ far["app"] = "closed" =>
        /\ reader # "done" => /\ Has(inbound["app"], Close)
                              /\ n + Len(inbound["app"]) = sent["app"] + 1
        /\ \A i \in 1 .. Len(toServer) : toServer[i] = Close =>
               m + Place(toServer, i) = sent["app"] + 1
        /\ Shown => \A i \in 1 .. Len(albOut) : albOut[i] = Close =>
               k + Len(got["browser"]) + i = sent["app"] + 1
        /\ \A i \in 1 .. Len(got["browser"]) : got["browser"][i] = Close =>
               k + i = sent["app"] + 1

PathToApp == \E m, n \in Nat : ToApp(m, n) /\ CloseToApp(m, n)
PathToBrowser == \E k, m, n \in Nat : ToBrowser(k, m, n) /\ CloseToBrowser(k, m, n)

TunnelInv ==
    /\ Types /\ ServerInv /\ AgentInv /\ ClosesInv /\ CloseOnItsWay
    /\ PathToApp /\ PathToBrowser

-----------------------------------------------------------------------------
(* What the queue operations do to the order *)

\* Frames, acknowledgements and the init message are told apart.
LEMMA Kinds ==
    /\ Close \notin Data /\ Close \notin Acks /\ Data \cap Acks = {}
    /\ Frame("init") \notin Data \cup Acks \cup {Close}
    /\ Frame("ok") # Frame("fail")
    /\ \A frame \in Data : frame.no \in 1 .. Frames
<1>1. \A kind : Frame(kind).kind = kind
  BY DEF Frame
<1>2. \A frame \in Data : frame.kind = "data" /\ frame.no \in 1 .. Frames
  BY DEF Data, DataFrame
<1>3. \A frame \in Acks : frame.kind \in {"ok", "fail"}
  BY <1>1 DEF Acks
<1>4. Close.kind = "close"
  BY <1>1 DEF Close
<1> QED
  BY <1>1, <1>2, <1>3, <1>4

LEMMA EmptyQueue ==
    ASSUME NEW n \in Nat, NEW m
    PROVE  /\ InOrder(<<>>, n) /\ CloseLast(<<>>) /\ ~ Has(<<>>, m)
           /\ Carried(<<>>) = 0
BY DEF InOrder, CloseLast, Has, Carried, Place

\* Without an acknowledgement a place is a position.
LEMMA PlainPlace ==
    ASSUME NEW S, NEW s \in Seq(S), S \cap Acks = {}
    PROVE  /\ \A i \in 1 .. Len(s) : Place(s, i) = i
           /\ Carried(s) = Len(s)
BY DEF Place, Carried

LEMMA PlacesAreNumbers ==
    ASSUME NEW S, NEW s \in Seq(S)
    PROVE  /\ Carried(s) \in Nat
           /\ \A i \in 1 .. Len(s) : Place(s, i) \in Nat
BY DEF Place, Carried

\* Taking the head of a queue.
LEMMA TakeHead ==
    ASSUME NEW S, NEW s \in Seq(S), s # <<>>, NEW n \in Nat, InOrder(s, n)
    PROVE  /\ Head(s) \notin Acks => /\ InOrder(Tail(s), n + 1)
                                     /\ Carried(s) = Carried(Tail(s)) + 1
           /\ Head(s) \in Acks => /\ InOrder(Tail(s), n)
                                  /\ Carried(s) = Carried(Tail(s))
                                  /\ \A m \in Acks : ~ Has(Tail(s), m)
           /\ Head(s) \in Data => Head(s).no = n + 1
           /\ Head(s) = Close => \A i \in 1 .. Len(Tail(s)) : Tail(s)[i] \notin Data
           /\ \A i \in 1 .. Len(Tail(s)) :
                 Place(s, i + 1) = Place(Tail(s), i) + IF Head(s) \in Acks THEN 0 ELSE 1
<1> DEFINE t == Tail(s)
<1>1. /\ t \in Seq(S) /\ Len(t) = Len(s) - 1 /\ Len(s) \in Nat \ {0} /\ Head(s) = s[1]
      /\ \A i \in 1 .. Len(t) : t[i] = s[i + 1]
  BY HeadTailProperties
<1>2. ASSUME NEW i \in 0 .. Len(t)
      PROVE  /\ s[1] \notin Acks => Place(s, i + 1) = Place(t, i) + 1
             /\ s[1] \in Acks => Place(s, i + 1) = i /\ Place(t, i) = i
  <2>1. \A j \in 1 .. i : t[j] = s[j + 1]
    BY <1>1, <1>2
  <2>2. CASE s[1] \notin Acks
    <3>1. (\E j \in 1 .. i : t[j] \in Acks) <=> (\E j \in 1 .. i + 1 : s[j] \in Acks)
      <4>1. ASSUME NEW j \in 1 .. i + 1, s[j] \in Acks
            PROVE  \E l \in 1 .. i : t[l] \in Acks
        <5>1. j # 1 /\ j - 1 \in 1 .. i
          BY <2>2, <4>1
        <5> QED
          BY <2>1, <4>1, <5>1
      <4> QED
        BY <2>1, <4>1
    <3> QED
      BY <2>2, <3>1 DEF Place
  <2>3. CASE s[1] \in Acks
    <3>1. \A j \in 1 .. i : t[j] \notin Acks
      BY <1>1, <2>1, <2>3 DEF InOrder
    <3> QED
      BY <1>1, <2>3, <3>1 DEF Place
  <2> QED
    BY <2>2, <2>3
<1>3. ASSUME s[1] \notin Acks
      PROVE  InOrder(t, n + 1) /\ Carried(s) = Carried(t) + 1
  <2>1. \A i \in 1 .. Len(t) : t[i] \in Data => t[i].no = (n + 1) + Place(t, i)
    <3> TAKE i \in 1 .. Len(t)
    <3>1. t[i] = s[i + 1] /\ i + 1 \in 1 .. Len(s) /\ Place(s, i + 1) = Place(t, i) + 1
      BY <1>1, <1>2, <1>3
    <3>2. Place(t, i) \in Nat
      BY <1>1, PlacesAreNumbers
    <3> QED
      BY <3>1, <3>2 DEF InOrder
  <2>2. Carried(s) = Carried(t) + 1
    BY <1>1, <1>2, <1>3 DEF Carried
  <2> QED
    BY <1>1, <2>1, <2>2 DEF InOrder
<1>4. ASSUME s[1] \in Acks
      PROVE  /\ InOrder(t, n) /\ Carried(s) = Carried(t)
             /\ \A m \in Acks : ~ Has(t, m)
  <2>1. \A i \in 1 .. Len(t) : t[i] \in Data => t[i].no = n + Place(t, i)
    BY <1>1, <1>2, <1>4 DEF InOrder
  <2>2. Carried(s) = Carried(t)
    BY <1>1, <1>2, <1>4 DEF Carried
  <2>3. \A m \in Acks : ~ Has(t, m)
    BY <1>1, <1>4 DEF Has, InOrder
  <2> QED
    BY <1>1, <2>1, <2>2, <2>3 DEF InOrder
<1>5. s[1] \in Data => s[1].no = n + 1
  BY <1>1, Kinds DEF InOrder, Place
<1>6. s[1] = Close => \A i \in 1 .. Len(t) : t[i] \notin Data
  BY <1>1 DEF InOrder
<1>7. \A i \in 1 .. Len(t) : Place(s, i + 1) = Place(t, i) + IF s[1] \in Acks THEN 0 ELSE 1
  BY <1>1, <1>2
<1> QED
  BY <1>1, <1>3, <1>4, <1>5, <1>6, <1>7

LEMMA TakeHeadHas ==
    ASSUME NEW S, NEW s \in Seq(S), s # <<>>, NEW m
    PROVE  /\ Has(Tail(s), m) => Has(s, m)
           /\ Has(s, m) /\ Head(s) # m => Has(Tail(s), m)
           /\ Has(s, Head(s))
           /\ CloseLast(s) => CloseLast(Tail(s)) /\ (Head(s) = Close => Tail(s) = <<>>)
<1>1. /\ Tail(s) \in Seq(S) /\ Len(Tail(s)) = Len(s) - 1 /\ Len(s) \in Nat \ {0}
      /\ Head(s) = s[1] /\ \A i \in 1 .. Len(Tail(s)) : Tail(s)[i] = s[i + 1]
  BY HeadTailProperties
<1>2. ASSUME NEW i \in 1 .. Len(s), s[i] = m, s[1] # m
      PROVE  Has(Tail(s), m)
  <2>1. i - 1 \in 1 .. Len(Tail(s)) /\ Tail(s)[i - 1] = s[i]
    BY <1>1, <1>2
  <2> QED
    BY <1>2, <2>1 DEF Has
<1>3. CloseLast(s) => CloseLast(Tail(s)) /\ (Head(s) = Close => Tail(s) = <<>>)
  <2>1. CloseLast(s) /\ Head(s) = Close => Len(Tail(s)) = 0
    BY <1>1 DEF CloseLast
  <2>2. ASSUME CloseLast(s), NEW i \in 1 .. Len(Tail(s)) - 1
        PROVE  Tail(s)[i] # Close
    <3>1. i + 1 \in 1 .. Len(s) - 1 /\ Tail(s)[i] = s[i + 1]
      BY <1>1, <2>2
    <3> QED
      BY <2>2, <3>1 DEF CloseLast
  <2>3. Len(Tail(s)) = 0 => Tail(s) = <<>>
    BY <1>1, EmptySeq
  <2>4. CloseLast(s) => CloseLast(Tail(s))
    BY <2>2 DEF CloseLast
  <2> QED
    BY <2>1, <2>3, <2>4
<1>4. Has(Tail(s), m) => Has(s, m)
  BY <1>1 DEF Has
<1>5. Has(s, Head(s))
  BY <1>1 DEF Has
<1> QED
  BY <1>1, <1>2, <1>3, <1>4, <1>5 DEF Has

\* Queueing one more element.
LEMMA AddLast ==
    ASSUME NEW S, NEW s \in Seq(S), NEW f \in S, NEW n \in Nat, InOrder(s, n),
           f \in Data => f.no = n + Carried(s) + 1 /\ ~ Has(s, Close),
           f \in Acks => \A m \in Acks : ~ Has(s, m)
    PROVE  /\ InOrder(Append(s, f), n)
           /\ f \notin Acks => Carried(Append(s, f)) = Carried(s) + 1
           /\ f \in Acks => Carried(Append(s, f)) = Carried(s)
           /\ \A i \in 1 .. Len(s) : Place(Append(s, f), i) = Place(s, i)
<1> DEFINE t == Append(s, f)
<1>1. /\ t \in Seq(S) /\ Len(s) \in Nat /\ Len(t) = Len(s) + 1 /\ t[Len(s) + 1] = f
      /\ \A i \in 1 .. Len(s) : t[i] = s[i]
  BY AppendProperties
<1>2. \A i \in 1 .. Len(s) : Place(t, i) = Place(s, i)
  <2> TAKE i \in 1 .. Len(s)
  <2>1. \A j \in 1 .. i : t[j] = s[j]
    BY <1>1
  <2> QED
    BY <2>1 DEF Place
<1>3. /\ f \notin Acks => Place(t, Len(s) + 1) = Carried(s) + 1
      /\ f \in Acks => Place(t, Len(s) + 1) = Carried(s)
  <2>1. CASE \E j \in 1 .. Len(s) : s[j] \in Acks
    <3>1. f \notin Acks
      BY <2>1 DEF Has
    <3>2. \E j \in 1 .. Len(s) + 1 : t[j] \in Acks
      BY <1>1, <2>1
    <3>3. Carried(s) = Len(s) - 1 /\ Place(t, Len(s) + 1) = Len(s)
      BY <1>1, <2>1, <3>2 DEF Carried, Place
    <3> QED
      BY <1>1, <3>1, <3>3
  <2>2. CASE ~ \E j \in 1 .. Len(s) : s[j] \in Acks
    <3>1. Carried(s) = Len(s)
      BY <2>2 DEF Carried, Place
    <3>2. CASE f \in Acks
      BY <1>1, <3>1, <3>2 DEF Place
    <3>3. CASE f \notin Acks
      <4>1. \A j \in 1 .. Len(s) + 1 : t[j] \notin Acks
        BY <1>1, <2>2, <3>3
      <4> QED
        BY <1>1, <3>1, <3>3, <4>1 DEF Place
    <3> QED
      BY <3>2, <3>3
  <2> QED
    BY <2>1, <2>2
<1>4. \A i \in 1 .. Len(t) : t[i] \in Data => t[i].no = n + Place(t, i)
  <2> TAKE i \in 1 .. Len(t)
  <2>1. CASE i \in 1 .. Len(s)
    BY <1>1, <1>2, <2>1 DEF InOrder
  <2>2. CASE i = Len(s) + 1
    <3>1. Carried(s) \in Nat
      BY PlacesAreNumbers
    <3> QED
      BY <1>1, <1>3, <2>2, <3>1, Kinds
  <2> QED
    BY <1>1, <2>1, <2>2
<1>5. \A i, j \in 1 .. Len(t) : i < j /\ t[i] = Close => t[j] \notin Data
  BY <1>1, Kinds DEF InOrder, Has
<1>6. \A i, j \in 1 .. Len(t) : t[i] \in Acks /\ t[j] \in Acks => i = j
  BY <1>1 DEF InOrder, Has
<1>7. Carried(t) = Place(t, Len(s) + 1)
  BY <1>1 DEF Carried
<1> QED
  BY <1>2, <1>3, <1>4, <1>5, <1>6, <1>7 DEF InOrder

LEMMA AddLastHas ==
    ASSUME NEW S, NEW s \in Seq(S), NEW f \in S, NEW m
    PROVE  /\ Has(Append(s, f), m) <=> Has(s, m) \/ f = m
           /\ ~ Has(s, Close) => CloseLast(Append(s, f))
<1>1. /\ Len(s) \in Nat /\ Len(Append(s, f)) = Len(s) + 1 /\ Append(s, f)[Len(s) + 1] = f
      /\ \A i \in 1 .. Len(s) : Append(s, f)[i] = s[i]
  BY AppendProperties
<1>2. Has(s, m) => Has(Append(s, f), m)
  BY <1>1 DEF Has
<1>3. f = m => Has(Append(s, f), m)
  BY <1>1 DEF Has
<1>4. Has(Append(s, f), m) => Has(s, m) \/ f = m
  BY <1>1 DEF Has
<1>5. ~ Has(s, Close) => CloseLast(Append(s, f))
  BY <1>1 DEF Has, CloseLast
<1> QED
  BY <1>2, <1>3, <1>4, <1>5

\* Keeping a prefix of a queue.
LEMMA KeepPrefix ==
    ASSUME NEW S, NEW s \in Seq(S), NEW p \in Prefixes(s)
    PROVE  /\ p \in Seq(S) /\ Len(p) \in 0 .. Len(s)
           /\ \A i \in 1 .. Len(p) : p[i] = s[i] /\ Place(p, i) = Place(s, i)
           /\ \A n \in Nat : InOrder(s, n) => InOrder(p, n)
           /\ \A m : Has(p, m) => Has(s, m)
           /\ CloseLast(s) => CloseLast(p)
           /\ s = <<>> => p = <<>>
<1>1. PICK l \in 0 .. Len(s) : p = SubSeq(s, 1, l)
  BY DEF Prefixes
<1>2. /\ p \in Seq(S) /\ Len(p) = l /\ l \in 0 .. Len(s)
      /\ \A i \in 1 .. Len(p) : p[i] = s[i]
  <2>1. \A i \in 1 .. l : s[i] \in S
    BY ElementOfSeq
  <2>2. /\ SubSeq(s, 1, l) \in Seq(S)
        /\ Len(SubSeq(s, 1, l)) = IF 1 <= l THEN l - 1 + 1 ELSE 0
        /\ \A i \in 1 .. l - 1 + 1 : SubSeq(s, 1, l)[i] = s[1 + i - 1]
    BY <2>1, SubSeqProperties
  <2> QED
    BY <1>1, <2>2
<1>3. \A i \in 1 .. Len(p) : Place(p, i) = Place(s, i)
  <2> TAKE i \in 1 .. Len(p)
  <2>1. \A j \in 1 .. i : p[j] = s[j]
    BY <1>2
  <2> QED
    BY <2>1 DEF Place
<1>4. ASSUME NEW n \in Nat, InOrder(s, n)
      PROVE  InOrder(p, n)
  <2>1. \A i \in 1 .. Len(p) : i \in 1 .. Len(s)
    BY <1>2
  <2> QED
    BY <1>2, <1>3, <1>4, <2>1 DEF InOrder
<1>5. \A m : Has(p, m) => Has(s, m)
  BY <1>2 DEF Has
<1>6. CloseLast(s) => CloseLast(p)
  BY <1>2 DEF CloseLast
<1>7. s = <<>> => p = <<>>
  <2>1. s = <<>> => Len(p) = 0
    BY <1>2, EmptySeq
  <2> QED
    BY <1>2, <2>1, EmptySeq
<1> QED
  BY <1>2, <1>3, <1>4, <1>5, <1>6, <1>7

-----------------------------------------------------------------------------
(* Types *)

LEMMA WriteTypes ==
    ASSUME Types, NEW e \in Ends, NEW frame \in WsFrames,
           WriteSucceeds(e, frame) \/ WriteFails(e)
    PROVE  /\ far' \in [Ends -> {"absent", "open", "closed", "reset"}]
           /\ sent' \in [Ends -> 0 .. Frames]
           /\ inbound' \in [Ends -> Seq(WsFrames)]
           /\ got' \in [Ends -> Seq(WsFrames)]
<1>1. Append(got[e], frame) \in Seq(WsFrames)
  BY AppendProperties DEF Types
<1> QED
  BY <1>1 DEF Types, WriteSucceeds, WriteFails, farVars

LEMMA SendTypes ==
    ASSUME Types, NEW m
    PROVE  /\ m \in WsFrames \cup {Frame("init")} /\ SendToAgent(m) =>
                  toAgent' \in Seq(WsFrames \cup {Frame("init")})
           /\ m \in WsFrames \cup Acks /\ SendToServer(m) =>
                  toServer' \in Seq(WsFrames \cup Acks)
<1>1. /\ toAgent \in Seq(WsFrames \cup {Frame("init")})
      /\ toServer \in Seq(WsFrames \cup Acks)
  BY DEF Types
<1>2. /\ m \in WsFrames \cup {Frame("init")} =>
             Append(toAgent, m) \in Seq(WsFrames \cup {Frame("init")})
      /\ m \in WsFrames \cup Acks => Append(toServer, m) \in Seq(WsFrames \cup Acks)
  BY <1>1, AppendProperties
<1> QED
  BY <1>1, <1>2 DEF SendToAgent, SendToServer

LEMMA QueueTypes ==
    ASSUME Types, NEW frame \in WsFrames
    PROVE  /\ QueueForBrowser(frame) => albOut' \in Seq(WsFrames)
           /\ QueueForApp(frame) => localOut' \in Seq(WsFrames)
<1>1. albOut \in Seq(WsFrames) /\ localOut \in Seq(WsFrames)
  BY DEF Types
<1>2. Append(albOut, frame) \in Seq(WsFrames) /\ Append(localOut, frame) \in Seq(WsFrames)
  BY <1>1, AppendProperties
<1> QED
  BY <1>1, <1>2 DEF QueueForBrowser, QueueForApp

LEMMA TakeTypes ==
    ASSUME Types, NEW m
    PROVE  /\ TakeFromAgent(m) => toServer' \in Seq(WsFrames \cup Acks)
           /\ TakeFromServer(m) => toAgent' \in Seq(WsFrames \cup {Frame("init")})
BY HeadTailProperties DEF Types, TakeFromAgent, TakeFromServer

LEMMA ReadTypes ==
    ASSUME Types, NEW S, NEW s \in Seq(S), s # <<>>
    PROVE  Head(s) \in S /\ Tail(s) \in Seq(S)
BY HeadTailProperties

LEMMA FarTypes ==
    ASSUME Types, FarStep \/ LinkLost
    PROVE  Types'
<1> USE DEF Types, serverVars, agentVars, linkVars, farVars
<1>1. ASSUME NEW e \in Ends, FarSends(e)
      PROVE  Types'
  <2>1. sent'[e] \in 1 .. Frames /\ sent' \in [Ends -> 0 .. Frames]
    BY <1>1, WsTunnelAssumption DEF FarSends, WsTunnelAssumption
  <2>2. Append(inbound[e], DataFrame(sent'[e])) \in Seq(WsFrames)
    BY <2>1, AppendProperties DEF WsFrames, Data
  <2> QED
    BY <1>1, <2>1, <2>2 DEF FarSends
<1>2. ASSUME NEW e \in Ends, FarCloses(e)
      PROVE  Types'
  <2>1. Append(inbound[e], Close) \in Seq(WsFrames)
    BY AppendProperties DEF WsFrames
  <2> QED
    BY <1>2, <2>1 DEF FarCloses
<1>3. ASSUME NEW e \in Ends, FarResets(e)
      PROVE  Types'
  <2>1. \A rest \in Prefixes(inbound[e]) : rest \in Seq(WsFrames)
    BY KeepPrefix
  <2> QED
    BY <1>3, <2>1 DEF FarResets
<1>4. ASSUME LinkLost
      PROVE  Types'
  <2>1. toAgent' \in Seq(WsFrames \cup {Frame("init")}) /\ toServer' \in Seq(WsFrames \cup Acks)
    BY <1>4, KeepPrefix DEF LinkLost
  <2> QED
    BY <1>4, <2>1 DEF LinkLost
<1> QED
  BY <1>1, <1>2, <1>3, <1>4 DEF FarStep

LEMMA ServerTypes ==
    ASSUME Types,
           Refuse \/ SendInit \/ Abandon \/ TunnelStep \/ AlbToAgent \/ AgentToAlb
           \/ FromAgentStep
    PROVE  Types'
<1> USE DEF Types, serverVars, agentVars, linkVars, farVars, TunnelGoesTo, TaskStates
<1>1. CASE Refuse \/ Abandon \/ StoreSession \/ StoreWaiter \/ Upgrade \/ AwaitAck
  BY <1>1 DEF Refuse, Abandon, StoreSession, StoreWaiter, Upgrade, AwaitAck
<1>2. CASE SendInit
  BY <1>2, SendTypes DEF SendInit
<1>3. CASE Join
  BY <1>3, SendTypes DEF Join, WsFrames
<1>4. CASE CleanUp
  BY <1>4 DEF CleanUp
<1>5. CASE AlbToAgent
  <2>1. inbound["browser"] # <<>> =>
            Head(inbound["browser"]) \in WsFrames /\ Tail(inbound["browser"]) \in Seq(WsFrames)
    BY ReadTypes DEF Ends
  <2> QED
    <3>1. CASE inbound["browser"] # <<>>
      <4>1. toAgent' \in Seq(WsFrames \cup {Frame("init")})
        BY <1>5, <2>1, <3>1, SendTypes DEF AlbToAgent
      <4> QED
        BY <1>5, <2>1, <3>1, <4>1 DEF AlbToAgent
    <3>2. CASE inbound["browser"] = <<>>
      BY <1>5, <3>2 DEF AlbToAgent
    <3> QED
      BY <3>1, <3>2
<1>6. CASE AgentToAlb
  <2>1. albOut # <<>> => Head(albOut) \in WsFrames /\ Tail(albOut) \in Seq(WsFrames)
    BY ReadTypes
  <2>2. CASE albOut = <<>>
    BY <1>6, <2>2 DEF AgentToAlb
  <2>3. CASE albOut # <<>>
    <3>1. WriteSucceeds("browser", Head(albOut)) \/ WriteFails("browser")
      BY <1>6, <2>3 DEF AgentToAlb
    <3>2. /\ far' \in [Ends -> {"absent", "open", "closed", "reset"}]
          /\ sent' \in [Ends -> 0 .. Frames]
          /\ inbound' \in [Ends -> Seq(WsFrames)]
          /\ got' \in [Ends -> Seq(WsFrames)]
      BY <2>1, <2>3, <3>1, WriteTypes DEF Ends
    <3>3. albOut' \in Seq(WsFrames) /\ albWriter' \in TaskStates
      BY <1>6, <2>1, <2>3, EmptySeq DEF AgentToAlb
    <3> QED
      BY <1>6, <3>2, <3>3 DEF AgentToAlb
  <2> QED
    BY <2>2, <2>3
<1>7. CASE HandleInitAck
  BY <1>7, TakeTypes DEF HandleInitAck
<1>8. CASE HandleDataFromAgent
  BY <1>8, TakeTypes, QueueTypes DEF HandleDataFromAgent, WsFrames
<1>9. CASE HandleCloseFromAgent
  BY <1>9, TakeTypes, QueueTypes DEF HandleCloseFromAgent, WsFrames
<1> QED
  BY <1>1, <1>2, <1>3, <1>4, <1>5, <1>6, <1>7, <1>8, <1>9 DEF TunnelStep, FromAgentStep

LEMMA AgentTypes ==
    ASSUME Types, AgentLoopStep \/ LocalWriter \/ LocalReader \/ CleanUpSession
    PROVE  Types'
<1> USE DEF Types, serverVars, agentVars, linkVars, farVars, TaskStates
<1>1. CASE HandleInit
  BY <1>1, TakeTypes DEF HandleInit
<1>2. CASE ConnectToLocal
  BY <1>2, SendTypes DEF ConnectToLocal, Ends, Acks
<1>3. CASE AcknowledgeInit
  BY <1>3, SendTypes DEF AcknowledgeInit, Acks
<1>4. CASE HandleDataFromServer
  BY <1>4, TakeTypes, QueueTypes DEF HandleDataFromServer, WsFrames
<1>5. CASE HandleCloseFromServer
  BY <1>5, TakeTypes, QueueTypes DEF HandleCloseFromServer, WsFrames
<1>6. CASE LocalWriter
  <2>1. localOut # <<>> => Head(localOut) \in WsFrames /\ Tail(localOut) \in Seq(WsFrames)
    BY ReadTypes
  <2>2. CASE localOut = <<>>
    BY <1>6, <2>2 DEF LocalWriter
  <2>3. CASE localOut # <<>>
    <3>1. WriteSucceeds("app", Head(localOut)) \/ WriteFails("app")
      BY <1>6, <2>3 DEF LocalWriter
    <3>2. /\ far' \in [Ends -> {"absent", "open", "closed", "reset"}]
          /\ sent' \in [Ends -> 0 .. Frames]
          /\ inbound' \in [Ends -> Seq(WsFrames)]
          /\ got' \in [Ends -> Seq(WsFrames)]
      BY <2>1, <2>3, <3>1, WriteTypes DEF Ends
    <3>3. localOut' \in Seq(WsFrames) /\ writer' \in TaskStates
      BY <1>6, <2>1, <2>3, EmptySeq DEF LocalWriter
    <3> QED
      BY <1>6, <3>2, <3>3 DEF LocalWriter
  <2> QED
    BY <2>2, <2>3
<1>7. CASE LocalReader
  <2>1. inbound["app"] # <<>> =>
            Head(inbound["app"]) \in WsFrames /\ Tail(inbound["app"]) \in Seq(WsFrames)
    BY ReadTypes DEF Ends
  <2> QED
    <3>1. CASE inbound["app"] # <<>>
      <4>1. toServer' \in Seq(WsFrames \cup Acks)
        BY <1>7, <2>1, <3>1, SendTypes DEF LocalReader
      <4> QED
        BY <1>7, <2>1, <3>1, <4>1 DEF LocalReader
    <3>2. CASE inbound["app"] = <<>>
      BY <1>7, <3>2 DEF LocalReader
    <3> QED
      BY <3>1, <3>2
<1>8. CASE CleanUpSession
  BY <1>8 DEF CleanUpSession
<1> QED
  BY <1>1, <1>2, <1>3, <1>4, <1>5, <1>6, <1>7, <1>8 DEF AgentLoopStep

\* Every step keeps the types.
LEMMA NextTypes ==
    ASSUME Types, Next
    PROVE  Types'
BY FarTypes, ServerTypes, AgentTypes DEF Next

-----------------------------------------------------------------------------
(* What a step does to the connection's two queues *)

LEMMA SentToAgent ==
    ASSUME Types, NEW m \in WsFrames \cup {Frame("init")}, SendToAgent(m)
    PROVE  /\ link = "up" => /\ toAgent' = Append(toAgent, m)
                             /\ \A x : Has(toAgent', x) <=> Has(toAgent, x) \/ x = m
           /\ link = "down" => toAgent' = toAgent
           /\ toAgent' # toAgent => link = "up"
<1>1. toAgent \in Seq(WsFrames \cup {Frame("init")})
  BY DEF Types
<1>2. \A x : Has(Append(toAgent, m), x) <=> Has(toAgent, x) \/ x = m
  BY <1>1, AddLastHas
<1> QED
  BY <1>2 DEF SendToAgent

LEMMA SentToServer ==
    ASSUME Types, NEW m \in WsFrames \cup Acks, SendToServer(m)
    PROVE  /\ link = "up" => /\ toServer' = Append(toServer, m)
                             /\ \A x : Has(toServer', x) <=> Has(toServer, x) \/ x = m
           /\ link = "down" => toServer' = toServer
           /\ toServer' # toServer => link = "up"
<1>1. toServer \in Seq(WsFrames \cup Acks)
  BY DEF Types
<1>2. \A x : Has(Append(toServer, m), x) <=> Has(toServer, x) \/ x = m
  BY <1>1, AddLastHas
<1> QED
  BY <1>2 DEF SendToServer

LEMMA TakenFromServer ==
    ASSUME Types, NEW m, TakeFromServer(m)
    PROVE  /\ init \in {"none", "over"} /\ toAgent # <<>> /\ Head(toAgent) = m
           /\ toAgent' = Tail(toAgent) /\ Has(toAgent, m)
           /\ \A x : /\ Has(toAgent', x) => Has(toAgent, x)
                     /\ Has(toAgent, x) /\ x # m => Has(toAgent', x)
<1>1. /\ toAgent \in Seq(WsFrames \cup {Frame("init")}) /\ toAgent # <<>>
      /\ Head(toAgent) = m /\ toAgent' = Tail(toAgent) /\ init \in {"none", "over"}
  BY DEF Types, TakeFromServer
<1> QED
  BY <1>1, TakeHeadHas

LEMMA TakenFromAgent ==
    ASSUME Types, NEW m, TakeFromAgent(m)
    PROVE  /\ toServer # <<>> /\ Head(toServer) = m
           /\ toServer' = Tail(toServer) /\ Has(toServer, m)
           /\ \A x : /\ Has(toServer', x) => Has(toServer, x)
                     /\ Has(toServer, x) /\ x # m => Has(toServer', x)
<1>1. /\ toServer \in Seq(WsFrames \cup Acks) /\ toServer # <<>>
      /\ Head(toServer) = m /\ toServer' = Tail(toServer)
  BY DEF Types, TakeFromAgent
<1> QED
  BY <1>1, TakeHeadHas

\* A reader ends only when its end is gone.
LEMMA ReaderEnds ==
    ASSUME Types, ClosesInv
    PROVE  /\ AlbToAgent /\ albReader' = "done" => far["browser"] # "open"
           /\ LocalReader /\ reader' = "done" => far["app"] # "open"
<1>1. ASSUME NEW e \in Ends, far[e] = "open", inbound[e] # <<>>
      PROVE  Head(inbound[e]) # Close
  <2>1. inbound[e] \in Seq(WsFrames) /\ ~ Has(inbound[e], Close)
    BY <1>1 DEF Types, ClosesInv, EndCloses
  <2> QED
    BY <1>1, <2>1, TakeHeadHas
<1> QED
  BY <1>1 DEF AlbToAgent, LocalReader, Ends

\* A write changes only its end, and an end that is not open not at all.
LEMMA WriteEffect ==
    ASSUME Types, NEW e \in Ends, NEW frame, WriteSucceeds(e, frame) \/ WriteFails(e)
    PROVE  /\ UNCHANGED <<far, sent, inbound>>
           /\ \A d \in Ends : d # e \/ far[e] # "open" => got'[d] = got[d]
           /\ far[e] = "open" => got'[e] = Append(got[e], frame)
BY DEF Types, WriteSucceeds, WriteFails, farVars

-----------------------------------------------------------------------------
(* The phases of the tunnel *)

LEMMA ServerSteps ==
    ASSUME TunnelInv,
           Refuse \/ SendInit \/ Abandon \/ TunnelStep \/ AlbToAgent \/ AgentToAlb
           \/ FromAgentStep
    PROVE  ServerInv'
<1> USE DEF TunnelInv, TunnelGoesTo, agentVars, linkVars, farVars
<1>0. /\ Types /\ ServerInv /\ AgentInv /\ ClosesInv
      /\ far \in [Ends -> {"absent", "open", "closed", "reset"}]
      /\ {"browser", "app"} = Ends
  BY DEF Types, Ends
<1>1. CASE Refuse \/ Abandon \/ StoreSession \/ StoreWaiter \/ Upgrade \/ AwaitAck
  BY <1>0, <1>1
  DEF ServerInv, AgentInv, Before, After, Refuse, Abandon, StoreSession, StoreWaiter, Upgrade,
      AwaitAck
<1>2. CASE SendInit
  BY <1>0, <1>2 DEF ServerInv, Before, After, SendInit
<1>3. CASE Join
  BY <1>0, <1>3 DEF ServerInv, Before, After, Join
<1>4. CASE CleanUp
  BY <1>0, <1>4 DEF ServerInv, Before, After, CleanUp
<1>5. CASE AlbToAgent
  <2>1. /\ albReader = "run" /\ albReader' \in {"run", "done"}
        /\ UNCHANGED <<tunnel, ws_sessions, ack, albOut, albWriter, init, far, got>>
    BY <1>5 DEF AlbToAgent
  <2>2. albReader' = "done" => far["browser"] # "open"
    BY <1>0, <1>5, ReaderEnds
  <2> QED
    BY <1>0, <2>1, <2>2 DEF ServerInv, Before, After
<1>6. CASE AgentToAlb
  <2>1. /\ albWriter = "run" /\ albWriter' \in {"run", "done"}
        /\ UNCHANGED <<tunnel, ws_sessions, ack, albReader, init, toAgent>>
        /\ tunnel \notin Before
    BY <1>0, <1>6 DEF AgentToAlb, ServerInv
  <2>2. CASE albOut # <<>>
    <3>1. far'["browser"] # "absent" /\ (far["browser"] # "open" => far'["browser"] # "open")
      BY <1>0, <1>6, <2>2, WriteEffect DEF AgentToAlb, ServerInv
    <3> QED
      BY <1>0, <2>1, <3>1 DEF ServerInv, Before, After
  <2>3. CASE albOut = <<>>
    BY <1>0, <1>6, <2>1, <2>3 DEF AgentToAlb, ServerInv, Before, After
  <2> QED
    BY <2>2, <2>3
<1>7. CASE HandleInitAck
  <2>1. ack = "none"
    <3>1. PICK success \in {"ok", "fail"} : TakeFromAgent(Frame(success))
      BY <1>7 DEF HandleInitAck
    <3>2. Has(toServer, Frame(success)) /\ Frame(success) \in Acks
      BY <1>0, <3>1, TakenFromAgent DEF Acks
    <3> QED
      BY <1>0, <3>2 DEF AgentInv
  <2>2. tunnel \notin After \cup {"open"}
    BY <1>0, <2>1 DEF ServerInv
  <2> QED
    BY <1>0, <1>7, <2>2 DEF HandleInitAck, ServerInv, Before, After
<1>8. CASE HandleDataFromAgent
  BY <1>0, <1>8 DEF HandleDataFromAgent, QueueForBrowser, ServerInv, Before, After
<1>9. CASE HandleCloseFromAgent
  BY <1>0, <1>9 DEF HandleCloseFromAgent, QueueForBrowser, ServerInv, Before, After
<1> QED
  BY <1>1, <1>2, <1>3, <1>4, <1>5, <1>6, <1>7, <1>8, <1>9 DEF TunnelStep, FromAgentStep

LEMMA ServerElsewhere ==
    ASSUME TunnelInv,
           AgentLoopStep \/ LocalWriter \/ LocalReader \/ CleanUpSession \/ FarStep \/ LinkLost
    PROVE  ServerInv'
<1> USE DEF TunnelInv, serverVars, linkVars, farVars
<1>0. /\ Types /\ ServerInv /\ AgentInv
      /\ far \in [Ends -> {"absent", "open", "closed", "reset"}]
      /\ {"browser", "app"} = Ends
  BY DEF Types, Ends
<1>1. CASE HandleInit \/ HandleDataFromServer \/ HandleCloseFromServer
  <2>1. toAgent # <<>>
    BY <1>1 DEF HandleInit, HandleDataFromServer, HandleCloseFromServer, TakeFromServer
  <2> QED
    BY <1>0, <1>1, <2>1
    DEF HandleInit, HandleDataFromServer, HandleCloseFromServer, ServerInv
<1>2. CASE ConnectToLocal
  BY <1>0, <1>2 DEF ConnectToLocal, ServerInv
<1>3. CASE AcknowledgeInit
  BY <1>0, <1>3 DEF AcknowledgeInit, ServerInv
<1>4. CASE LocalWriter
  <2>1. UNCHANGED <<far["browser"], got["browser"]>>
    BY <1>0, <1>4, WriteEffect DEF LocalWriter
  <2> QED
    BY <1>0, <1>4, <2>1 DEF LocalWriter, ServerInv
<1>5. CASE LocalReader
  BY <1>0, <1>5 DEF LocalReader, ServerInv
<1>6. CASE CleanUpSession
  BY <1>0, <1>6 DEF CleanUpSession, ServerInv
<1>7. CASE FarStep
  <2>1. UNCHANGED <<serverVars, init, toAgent, got>>
    BY <1>7 DEF FarStep, FarSends, FarCloses, FarResets, agentVars
  <2>2. far'["browser"] # "absent" /\ (far["browser"] # "open" => far'["browser"] # "open")
    BY <1>0, <1>7 DEF FarStep, FarSends, FarCloses, FarResets, Speaks, ServerInv
  <2> QED
    BY <1>0, <2>1, <2>2 DEF ServerInv
<1>8. CASE LinkLost
  <2>1. toAgent = <<>> => toAgent' = <<>>
    <3>1. toAgent \in Seq(WsFrames \cup {Frame("init")}) /\ toAgent' \in Prefixes(toAgent)
      BY <1>0, <1>8 DEF LinkLost, Types
    <3> QED
      BY <3>1, KeepPrefix
  <2> QED
    BY <1>0, <1>8, <2>1 DEF LinkLost, agentVars, ServerInv
<1> QED
  BY <1>1, <1>2, <1>3, <1>4, <1>5, <1>6, <1>7, <1>8 DEF AgentLoopStep

\* Until the agent has answered, nothing but the init is sent to it.
LEMMA NotYetAnswered ==
    ASSUME TunnelInv
    PROVE  /\ ack = "none" => albReader = "none" /\ albWriter = "none" /\ tunnel \in Before
           /\ init # "over" => ack = "none"
           /\ albReader = "none" => toAgent = <<>> \/ Head(toAgent) = Frame("init")
           /\ albReader = "none" /\ init # "none" => toAgent = <<>>
<1>1. ack = "none" => albReader = "none" /\ albWriter = "none" /\ tunnel \in Before
  BY DEF TunnelInv, Types, ServerInv, Before, After
<1>2. Has(<<Frame("init")>>, Frame("init")) /\ Head(<<Frame("init")>>) = Frame("init")
  BY DEF Has
<1> QED
  BY <1>1, <1>2 DEF TunnelInv, AgentInv

LEMMA AgentElsewhere ==
    ASSUME TunnelInv,
           Refuse \/ SendInit \/ Abandon \/ TunnelStep \/ AlbToAgent \/ AgentToAlb
    PROVE  AgentInv'
<1> USE DEF TunnelInv, TunnelGoesTo, agentVars, linkVars, farVars
<1>0. /\ Types /\ ServerInv /\ AgentInv /\ ClosesInv
      /\ far \in [Ends -> {"absent", "open", "closed", "reset"}]
      /\ {"browser", "app"} = Ends
  BY DEF Types, Ends
<1>1. CASE Refuse \/ Abandon \/ StoreSession \/ StoreWaiter \/ Upgrade \/ AwaitAck
  BY <1>0, <1>1
  DEF AgentInv, Refuse, Abandon, StoreSession, StoreWaiter, Upgrade, AwaitAck
<1>2. CASE SendInit
  <2>1. toAgent = <<>> /\ init = "none"
    BY <1>0, <1>2 DEF SendInit, ServerInv
  <2>2. toAgent' \in {<<>>, <<Frame("init")>>}
    BY <1>2, <2>1 DEF SendInit, SendToAgent
  <2> QED
    BY <1>0, <1>2, <2>1, <2>2 DEF SendInit, AgentInv
<1>3. CASE Join
  <2>1. Has(toAgent', Frame("init")) => Has(toAgent, Frame("init"))
    BY <1>0, <1>3, Kinds, SentToAgent DEF Join, WsFrames, Types
  <2> QED
    BY <1>0, <1>3, <2>1 DEF Join, AgentInv
<1>4. CASE CleanUp
  BY <1>0, <1>4 DEF AgentInv, CleanUp
<1>5. CASE AlbToAgent
  <2>1. inbound["browser"] # <<>> => Head(inbound["browser"]) \in WsFrames
    BY <1>0, ReadTypes DEF Types
  <2>2. Has(toAgent', Frame("init")) => Has(toAgent, Frame("init"))
    BY <1>0, <1>5, <2>1, Kinds, SentToAgent DEF AlbToAgent, WsFrames, Types
  <2>3. /\ albReader' # "none" /\ inbound'["app"] = inbound["app"]
        /\ UNCHANGED <<ack, far, sent, got, agentVars, toServer>>
    BY <1>0, <1>5 DEF AlbToAgent, Types
  <2> QED
    BY <1>0, <2>2, <2>3 DEF AgentInv
<1>6. CASE AgentToAlb
  <2>1. /\ UNCHANGED <<ack, sent, agentVars, toServer, toAgent, albReader>>
        /\ UNCHANGED <<far["app"], inbound["app"], got["app"]>>
    BY <1>0, <1>6, WriteEffect DEF AgentToAlb
  <2> QED
    BY <1>0, <2>1 DEF AgentInv
<1> QED
  BY <1>1, <1>2, <1>3, <1>4, <1>5, <1>6 DEF TunnelStep

LEMMA AgentHears ==
    ASSUME TunnelInv, FromAgentStep \/ FarStep \/ LinkLost
    PROVE  AgentInv'
<1> USE DEF TunnelInv, agentVars, serverVars, farVars
<1>0. /\ Types /\ ServerInv /\ AgentInv
      /\ far \in [Ends -> {"absent", "open", "closed", "reset"}]
      /\ {"browser", "app"} = Ends
      /\ toServer \in Seq(WsFrames \cup Acks)
  BY DEF Types, Ends
<1>1. CASE HandleInitAck
  <2>1. PICK success \in {"ok", "fail"} :
            TakeFromAgent(Frame(success)) /\ ack' = IF ws_init_waiters THEN success ELSE ack
    BY <1>1 DEF HandleInitAck
  <2>2. /\ Frame(success) \in Acks /\ Has(toServer, Frame(success)) /\ toServer # <<>>
        /\ toServer' = Tail(toServer) /\ Head(toServer) = Frame(success)
    BY <1>0, <2>1, TakenFromAgent DEF Acks
  <2>3. \A m \in Acks : ~ Has(toServer', m)
    <3>1. PICK m \in Nat : InOrder(toServer, m)
      BY DEF PathToBrowser, ToBrowser
    <3> QED
      BY <1>0, <2>2, <3>1, TakeHead
  <2>4. init = "over" /\ ack = "none"
    BY <1>0, <2>2 DEF AgentInv, Types
  <2>5. far["app"] = "absent" => success = "fail" /\ toServer' = <<>>
    BY <1>0, <2>2, Kinds DEF AgentInv
  <2>6. far["app"] # "absent" => success = "ok"
    BY <1>0, <2>2 DEF AgentInv
  <2>7. UNCHANGED <<init, sessions, localOut, reader, writer, toAgent, far, sent, inbound,
                    got, albReader>>
    BY <1>1 DEF HandleInitAck
  <2>8. ack' \in {"none", success} /\ Frame("fail") \in Acks
    BY <2>1, <2>4 DEF Acks
  <2> QED
    BY <1>0, <2>3, <2>4, <2>5, <2>6, <2>7, <2>8 DEF AgentInv
<1>2. CASE HandleDataFromAgent \/ HandleCloseFromAgent
  <2>1. PICK frame \in WsFrames : TakeFromAgent(frame)
    BY <1>2 DEF HandleDataFromAgent, HandleCloseFromAgent, WsFrames
  <2>2. /\ toServer # <<>> /\ Head(toServer) = frame /\ frame # Frame("fail")
        /\ \A x : Has(toServer', x) => Has(toServer, x)
    BY <1>0, <2>1, TakenFromAgent, Kinds DEF WsFrames, Acks
  <2>3. far["app"] # "absent" /\ init \notin {"none", "connect"}
    BY <1>0, <2>2 DEF AgentInv
  <2> QED
    BY <1>0, <1>2, <2>2, <2>3 DEF AgentInv, HandleDataFromAgent, HandleCloseFromAgent
<1>3. CASE FarStep
  <2>1. UNCHANGED <<init, ack, toServer, toAgent, sessions, writer, reader, localOut, got,
                    albReader>>
    BY <1>3 DEF FarStep, FarSends, FarCloses, FarResets, linkVars
  <2>2. \/ UNCHANGED <<far["app"], inbound["app"], sent["app"]>>
        \/ far["app"] = "open" /\ far'["app"] # "absent"
    BY <1>0, <1>3 DEF FarStep, FarSends, FarCloses, FarResets, Speaks, Types
  <2> QED
    BY <1>0, <2>1, <2>2 DEF AgentInv
<1>4. CASE LinkLost
  <2>1. /\ \A x : Has(toAgent', x) => Has(toAgent, x)
        /\ \A x : Has(toServer', x) => Has(toServer, x)
        /\ toAgent = <<>> => toAgent' = <<>>
        /\ toServer = <<>> => toServer' = <<>>
    BY <1>0, <1>4, KeepPrefix DEF LinkLost, Types
  <2>2. ASSUME NEW m, NEW q \in Prefixes(<<m>>)
        PROVE  q \in {<<>>, <<m>>}
    <3>1. PICK l \in 0 .. Len(<<m>>) : q = SubSeq(<<m>>, 1, l)
      BY <2>2 DEF Prefixes
    <3>2. l = 0 \/ l = 1
      BY <3>1
    <3>3. <<m>> \in Seq({m}) /\ Len(<<m>>) = 1
      OBVIOUS
    <3>4. SubSeq(<<m>>, 1, 0) = <<>>
      BY SubSeqEmpty
    <3>5. SubSeq(<<m>>, 1, Len(<<m>>)) = <<m>>
      BY <3>3, SubSeqFull
    <3> QED
      BY <3>1, <3>2, <3>3, <3>4, <3>5
  <2>3. /\ toAgent = <<Frame("init")>> => toAgent' \in {<<>>, <<Frame("init")>>}
        /\ toServer = <<Frame("fail")>> => toServer' \in {<<>>, <<Frame("fail")>>}
    BY <1>4, <2>2 DEF LinkLost
  <2> QED
    BY <1>0, <1>4, <2>1, <2>3 DEF LinkLost, AgentInv
<1> QED
  BY <1>1, <1>2, <1>3, <1>4 DEF FromAgentStep

\* The agent handles a frame or a close only after it has answered the init.
LEMMA FramesAfterAnswer ==
    ASSUME TunnelInv, NEW frame \in WsFrames, TakeFromServer(frame)
    PROVE  init = "over" /\ albReader # "none"
<1>1. /\ toAgent # <<>> /\ Head(toAgent) = frame /\ init \in {"none", "over"}
      /\ frame # Frame("init")
  BY TakenFromServer, Kinds DEF TunnelInv, WsFrames
<1>2. albReader # "none"
  BY <1>1, NotYetAnswered
<1> QED
  BY <1>1, <1>2, NotYetAnswered

LEMMA AgentSteps ==
    ASSUME TunnelInv, AgentLoopStep \/ LocalWriter \/ LocalReader \/ CleanUpSession
    PROVE  AgentInv'
<1> USE DEF TunnelInv, serverVars, farVars
<1>0. /\ Types /\ ServerInv /\ AgentInv /\ ClosesInv
      /\ far \in [Ends -> {"absent", "open", "closed", "reset"}]
      /\ {"browser", "app"} = Ends
      /\ reader \in TaskStates /\ writer \in TaskStates
  BY DEF Types, Ends
<1>1. CASE HandleInit
  <2>1. /\ toAgent # <<>> /\ toAgent' = Tail(toAgent) /\ Has(toAgent, Frame("init"))
        /\ init = "none"
    BY <1>0, <1>1, TakenFromServer DEF HandleInit, AgentInv
  <2>2. albReader = "none" /\ ack = "none"
    BY <2>1, NotYetAnswered
  <2>3. toAgent' = <<>>
    BY <1>0, <2>1, <2>2 DEF AgentInv
  <2>4. ~ Has(toAgent', Frame("init"))
    BY <2>3, EmptyQueue DEF Has
  <2> QED
    BY <1>0, <1>1, <2>1, <2>2, <2>3, <2>4 DEF HandleInit, AgentInv
<1>2. CASE ConnectToLocal
  <2>1. /\ init = "connect" /\ far["app"] = "absent" /\ toServer = <<>> /\ ack = "none"
        /\ UNCHANGED <<ack, localOut, toAgent, sent, inbound, got, albReader>>
    BY <1>0, <1>2, NotYetAnswered DEF ConnectToLocal, AgentInv
  <2>2. CASE init' = "spawned"
    <3>1. /\ sessions' /\ reader' = "run" /\ writer' = "run" /\ toServer' = <<>>
          /\ far'["app"] = "open"
      BY <1>0, <1>2, <2>1, <2>2 DEF ConnectToLocal
    <3>2. \A m : ~ Has(toServer', m)
      BY <3>1, EmptyQueue DEF Has
    <3> QED
      BY <1>0, <2>1, <2>2, <3>1, <3>2 DEF AgentInv
  <2>3. CASE init' = "over"
    <3>1. /\ UNCHANGED <<sessions, reader, writer, far>>
          /\ toServer' \in {<<>>, <<Frame("fail")>>}
      BY <1>2, <2>1, <2>3 DEF ConnectToLocal, SendToServer
    <3> QED
      BY <1>0, <2>1, <2>3, <3>1 DEF AgentInv
  <2> QED
    BY <1>2, <2>2, <2>3 DEF ConnectToLocal
<1>3. CASE AcknowledgeInit
  <2>1. Has(toServer', Frame("fail")) => Has(toServer, Frame("fail"))
    BY <1>0, <1>3, Kinds, SentToServer DEF AcknowledgeInit, Acks, Types
  <2> QED
    BY <1>0, <1>3, <2>1, NotYetAnswered DEF AcknowledgeInit, AgentInv
<1>4. CASE HandleDataFromServer \/ HandleCloseFromServer
  <2>1. PICK frame \in WsFrames : TakeFromServer(frame) /\ QueueForApp(frame)
    BY <1>4 DEF HandleDataFromServer, HandleCloseFromServer, WsFrames
  <2>2. init = "over" /\ albReader # "none" /\ \A x : Has(toAgent', x) => Has(toAgent, x)
    BY <1>0, <2>1, FramesAfterAnswer, TakenFromServer
  <2>3. ~ sessions => ~ sessions' /\ localOut' = localOut
    BY <1>4, <2>1 DEF QueueForApp, HandleDataFromServer, HandleCloseFromServer
  <2> QED
    BY <1>0, <1>4, <2>2, <2>3 DEF HandleDataFromServer, HandleCloseFromServer, AgentInv
<1>5. CASE LocalWriter
  <2>1. /\ far["app"] # "absent" /\ writer = "run" /\ writer' \in {"run", "done"}
        /\ UNCHANGED <<ack, toServer, toAgent, albReader, init, sessions, reader>>
    BY <1>0, <1>5 DEF LocalWriter, AgentInv, linkVars
  <2>2. localOut = <<>> => UNCHANGED <<localOut, farVars>> /\ init = "over"
    BY <1>5 DEF LocalWriter
  <2>3. init \in {"over", "spawned"}
    BY <1>0, <2>1 DEF AgentInv, Types
  <2>4. /\ far'["app"] # "absent" /\ (far'["app"] = "open" => far["app"] = "open")
    <3>1. localOut # <<>> => WriteSucceeds("app", Head(localOut)) \/ WriteFails("app")
      BY <1>5 DEF LocalWriter
    <3> QED
      BY <1>0, <2>1, <2>2, <3>1, WriteEffect
  <2> QED
    BY <1>0, <2>1, <2>2, <2>3, <2>4 DEF AgentInv
<1>6. CASE LocalReader
  <2>1. /\ far["app"] # "absent" /\ reader = "run" /\ reader' \in {"run", "done"}
        /\ UNCHANGED <<ack, toAgent, albReader, init, sessions, writer, localOut, far, sent,
                       got>>
    BY <1>0, <1>6 DEF LocalReader, AgentInv
  <2>2. \A m \in Acks : Has(toServer', m) => Has(toServer, m)
    <3>1. inbound["app"] # <<>> => Head(inbound["app"]) \in WsFrames
      BY <1>0, ReadTypes DEF Types
    <3> QED
      BY <1>0, <1>6, <3>1, Kinds, SentToServer DEF LocalReader, WsFrames, Types
  <2>3. reader' = "done" => far["app"] # "open"
    BY <1>0, <1>6, ReaderEnds
  <2>4. init \notin {"none", "connect"} /\ Frame("fail") \in Acks
    BY <1>0, <2>1 DEF AgentInv, Acks
  <2> QED
    BY <1>0, <2>1, <2>2, <2>3, <2>4 DEF AgentInv
<1>7. CASE CleanUpSession
  BY <1>0, <1>7 DEF CleanUpSession, AgentInv, linkVars
<1> QED
  BY <1>1, <1>2, <1>3, <1>4, <1>5, <1>6, <1>7 DEF AgentLoopStep

-----------------------------------------------------------------------------
(* The close on its way to the agent *)

LEMMA NextCloseOnItsWay ==
    ASSUME TunnelInv, Next
    PROVE  CloseOnItsWay'
<1> USE DEF TunnelInv, TunnelGoesTo, serverVars, agentVars, linkVars, farVars
<1>0. /\ Types /\ ServerInv /\ AgentInv /\ ClosesInv /\ CloseOnItsWay
      /\ far \in [Ends -> {"absent", "open", "closed", "reset"}]
      /\ {"browser", "app"} = Ends /\ link \in {"up", "down"}
  BY DEF Types, Ends
<1>1. CASE Refuse \/ Abandon \/ StoreSession \/ StoreWaiter \/ Upgrade
  BY <1>0, <1>1
  DEF CloseOnItsWay, After, Refuse, Abandon, StoreSession, StoreWaiter, Upgrade
<1>2. CASE SendInit
  BY <1>0, <1>2 DEF CloseOnItsWay, ServerInv, After, Before, SendInit
<1>3. CASE AwaitAck
  <2>1. ack = "fail" => ~ sessions
    BY <1>0 DEF AgentInv
  <2> QED
    BY <1>0, <1>3, <2>1 DEF CloseOnItsWay, After, AwaitAck
<1>4. CASE Join
  <2>1. link = "up" => Has(toAgent', Close)
    BY <1>0, <1>4, SentToAgent DEF Join, WsFrames
  <2> QED
    BY <1>4, <2>1 DEF CloseOnItsWay, Join
<1>5. CASE CleanUp
  BY <1>0, <1>5 DEF CloseOnItsWay, After, CleanUp
<1>6. CASE AlbToAgent
  <2>1. /\ albReader = "run" /\ UNCHANGED <<tunnel, far, link, sessions>>
        /\ tunnel \notin After
    BY <1>0, <1>6 DEF AlbToAgent, ServerInv
  <2>2. ASSUME albReader' = "done", far["browser"] = "closed", link = "up"
        PROVE  Has(toAgent', Close)
    <3>1. inbound["browser"] # <<>> /\ SendToAgent(Head(inbound["browser"]))
      BY <1>6, <2>2 DEF AlbToAgent
    <3>2. Head(inbound["browser"]) = Close
      BY <1>6, <2>2, <3>1 DEF AlbToAgent
    <3> QED
      BY <1>0, <2>2, <3>1, <3>2, SentToAgent DEF WsFrames
  <2> QED
    BY <2>1, <2>2 DEF CloseOnItsWay
<1>7. CASE AgentToAlb
  <2>1. /\ UNCHANGED <<tunnel, sessions, link, toAgent, albReader>>
        /\ far'["browser"] = "closed" => far["browser"] \in {"open", "closed"}
    BY <1>0, <1>7, WriteEffect DEF AgentToAlb
  <2> QED
    BY <1>0, <2>1 DEF CloseOnItsWay, ServerInv
<1>8. CASE FromAgentStep
  BY <1>0, <1>8
  DEF CloseOnItsWay, FromAgentStep, HandleInitAck, HandleDataFromAgent, HandleCloseFromAgent
<1>9. CASE HandleInit \/ HandleDataFromServer
  <2>1. PICK m : TakeFromServer(m) /\ m # Close
    BY <1>9, Kinds DEF HandleInit, HandleDataFromServer
  <2>2. Has(toAgent, Close) => Has(toAgent', Close)
    BY <1>0, <2>1, TakenFromServer
  <2>3. UNCHANGED <<tunnel, albReader, link, sessions, far>>
    BY <1>9 DEF HandleInit, HandleDataFromServer
  <2> QED
    BY <1>0, <2>2, <2>3 DEF CloseOnItsWay
<1>10. CASE ConnectToLocal
  <2>1. albReader = "none" /\ tunnel \notin After /\ UNCHANGED <<albReader, tunnel>>
    BY <1>10, NotYetAnswered DEF ConnectToLocal, Before, After
  <2> QED
    BY <2>1 DEF CloseOnItsWay
<1>11. CASE AcknowledgeInit \/ LocalReader
  BY <1>0, <1>11 DEF CloseOnItsWay, AcknowledgeInit, LocalReader
<1>12. CASE HandleCloseFromServer
  BY <1>12 DEF CloseOnItsWay, HandleCloseFromServer
<1>13. CASE LocalWriter
  <2>1. UNCHANGED <<tunnel, sessions, link, toAgent, albReader, far["browser"]>>
    BY <1>0, <1>13, WriteEffect DEF LocalWriter
  <2> QED
    BY <1>0, <2>1 DEF CloseOnItsWay
<1>14. CASE CleanUpSession
  BY <1>14 DEF CloseOnItsWay, CleanUpSession
<1>15. CASE FarStep
  <2>1. /\ UNCHANGED <<tunnel, sessions, link, toAgent, albReader>>
        /\ far'["browser"] = "closed" => far["browser"] \in {"open", "closed"}
    BY <1>0, <1>15 DEF FarStep, FarSends, FarCloses, FarResets, Speaks
  <2> QED
    BY <1>0, <2>1 DEF CloseOnItsWay, ServerInv
<1>16. CASE LinkLost
  BY <1>16 DEF CloseOnItsWay, LinkLost
<1> QED
  BY <1>1, <1>2, <1>3, <1>4, <1>5, <1>6, <1>7, <1>8, <1>9, <1>10, <1>11, <1>12, <1>13,
     <1>14, <1>15, <1>16
  DEF Next, TunnelStep, AgentLoopStep

-----------------------------------------------------------------------------
(* Where closes can be *)

\* A write puts a close behind no other one, if the end has had none.
LEMMA WriteCloses ==
    ASSUME Types, EndCloses, NEW e \in Ends, NEW frame \in WsFrames,
           ~ Has(got[e], Close), WriteSucceeds(e, frame) \/ WriteFails(e)
    PROVE  EndCloses'
<1>1. /\ UNCHANGED <<far, inbound>>
      /\ \A d \in Ends : d # e \/ far[e] # "open" => got'[d] = got[d]
      /\ far[e] = "open" => got'[e] = Append(got[e], frame)
  BY WriteEffect
<1>2. got[e] \in Seq(WsFrames)
  BY DEF Types
<1>3. CloseLast(Append(got[e], frame))
  BY <1>2, AddLastHas
<1> QED
  BY <1>1, <1>3 DEF EndCloses

LEMMA NextEndCloses ==
    ASSUME TunnelInv, Next
    PROVE  EndCloses'
<1> USE DEF TunnelInv, ClosesInv, serverVars, agentVars, linkVars, farVars
<1>0. /\ Types /\ EndCloses /\ MapCloses /\ AgentInv
      /\ far \in [Ends -> {"absent", "open", "closed", "reset"}]
      /\ inbound \in [Ends -> Seq(WsFrames)]
      /\ {"browser", "app"} = Ends
  BY DEF Types, Ends
<1>1. CASE UNCHANGED <<far, inbound, got>>
  BY <1>0, <1>1 DEF EndCloses
<1>2. CASE CleanUp
  BY <1>0, <1>2 DEF CleanUp, EndCloses
<1>3. CASE AlbToAgent \/ LocalReader
  <2>1. /\ UNCHANGED <<far, got>>
        /\ \/ inbound' = inbound
           \/ \E e \in Ends : inbound[e] # <<>> /\ inbound' = [inbound EXCEPT ![e] = Tail(@)]
    BY <1>0, <1>3 DEF AlbToAgent, LocalReader
  <2>2. ASSUME NEW e \in Ends, inbound[e] # <<>>
        PROVE  /\ Has(Tail(inbound[e]), Close) => Has(inbound[e], Close)
               /\ CloseLast(inbound[e]) => CloseLast(Tail(inbound[e]))
    BY <1>0, <2>2, TakeHeadHas
  <2> QED
    BY <1>0, <2>1, <2>2 DEF EndCloses
<1>4. CASE AgentToAlb
  <2>1. albOut # <<>> => Head(albOut) \in WsFrames
    BY ReadTypes DEF Types
  <2> QED
    BY <1>0, <1>1, <1>4, <2>1, WriteCloses DEF AgentToAlb, MapCloses
<1>5. CASE LocalWriter
  <2>1. localOut # <<>> => Head(localOut) \in WsFrames
    BY ReadTypes DEF Types
  <2> QED
    BY <1>0, <1>1, <1>5, <2>1, WriteCloses DEF LocalWriter, MapCloses
<1>6. CASE ConnectToLocal
  <2>1. got["app"] = <<>> /\ ~ Has(got["app"], Close) /\ far["app"] = "absent"
    BY <1>0, <1>6, EmptyQueue DEF ConnectToLocal, AgentInv, Has
  <2> QED
    BY <1>0, <1>6, <2>1 DEF ConnectToLocal, EndCloses
<1>7. ASSUME NEW e \in Ends, FarSends(e) \/ FarCloses(e)
      PROVE  EndCloses'
  <2>1. PICK frame \in WsFrames :
            /\ inbound' = [inbound EXCEPT ![e] = Append(@, frame)]
            /\ frame = Close => far'[e] = "closed"
            /\ far[e] = "open" /\ got' = got /\ \A d \in Ends : d # e => far'[d] = far[d]
            /\ frame # Close => far' = far
    <3>1. CASE FarSends(e)
      <4>1. sent'[e] \in 1 .. Frames
        BY <3>1, WsTunnelAssumption DEF FarSends, Types, WsTunnelAssumption
      <4>2. DataFrame(sent'[e]) \in WsFrames /\ DataFrame(sent'[e]) # Close
        BY <4>1, Kinds DEF WsFrames, Data
      <4> QED
        BY <3>1, <4>2 DEF FarSends, Speaks
    <3>2. CASE FarCloses(e)
      BY <1>0, <3>2 DEF FarCloses, Speaks, WsFrames
    <3> QED
      BY <1>7, <3>1, <3>2
  <2>2. inbound[e] \in Seq(WsFrames) /\ ~ Has(inbound[e], Close)
    BY <1>0, <2>1 DEF EndCloses
  <2>3. Has(inbound'[e], Close) => frame = Close
    BY <1>0, <2>1, <2>2, AddLastHas
  <2>4. CloseLast(inbound'[e])
    BY <1>0, <2>1, <2>2, AddLastHas
  <2> QED
    BY <1>0, <2>1, <2>3, <2>4 DEF EndCloses
<1>8. ASSUME NEW e \in Ends, FarResets(e)
      PROVE  EndCloses'
  <2>1. PICK rest \in Prefixes(inbound[e]) : inbound' = [inbound EXCEPT ![e] = rest]
    BY <1>8 DEF FarResets
  <2>2. ~ Has(rest, Close) /\ CloseLast(rest)
    BY <1>0, <1>8, <2>1, KeepPrefix DEF EndCloses, FarResets
  <2> QED
    BY <1>0, <1>8, <2>1, <2>2 DEF EndCloses, FarResets
<1> QED
  BY <1>1, <1>2, <1>3, <1>4, <1>5, <1>6, <1>7, <1>8
  DEF Next, Refuse, SendInit, Abandon, TunnelStep, StoreSession, StoreWaiter, Upgrade, AwaitAck,
      Join, FromAgentStep, HandleInitAck, HandleDataFromAgent, HandleCloseFromAgent,
      AgentLoopStep, HandleInit, AcknowledgeInit, HandleDataFromServer, HandleCloseFromServer,
      CleanUpSession, FarStep, LinkLost

\* How a close moves: a reader ends as it passes one on, and each queue is filled
\* from the one behind it.
LEMMA CloseMovesToApp ==
    ASSUME TunnelInv, Next
    PROVE  /\ albReader' # "done" => albReader # "done"
           /\ Has(toAgent', Close) => Has(toAgent, Close) \/ albReader' = "done"
           /\ Has(localOut', Close) => Has(localOut, Close) \/ Has(toAgent, Close)
           /\ Has(got'["app"], Close) => Has(got["app"], Close) \/ Has(localOut, Close)
<1> USE DEF TunnelInv, ClosesInv, TunnelGoesTo, serverVars, agentVars, linkVars, farVars
<1>0. /\ Types /\ ServerInv /\ AgentInv /\ ClosesInv /\ {"browser", "app"} = Ends
      /\ toAgent \in Seq(WsFrames \cup {Frame("init")}) /\ localOut \in Seq(WsFrames)
      /\ got \in [Ends -> Seq(WsFrames)] /\ inbound \in [Ends -> Seq(WsFrames)]
  BY DEF Types, Ends
<1>1. CASE UNCHANGED <<albReader, toAgent, localOut, got["app"]>>
  BY <1>1
<1>2. CASE SendInit
  <2>1. Has(toAgent', Close) => Has(toAgent, Close)
    BY <1>0, <1>2, Kinds, SentToAgent DEF SendInit
  <2> QED
    BY <1>2, <2>1 DEF SendInit
<1>3. CASE AwaitAck
  <2>1. albReader = "none"
    BY <1>0, <1>3 DEF AwaitAck, ServerInv, Before
  <2> QED
    BY <1>3, <2>1 DEF AwaitAck
<1>4. CASE Join
  BY <1>4 DEF Join
<1>5. CASE AlbToAgent
  <2>1. UNCHANGED <<localOut, got>> /\ albReader = "run"
    BY <1>5 DEF AlbToAgent
  <2>2. Has(toAgent', Close) => Has(toAgent, Close) \/ albReader' = "done"
    <3>1. inbound["browser"] # <<>> => Head(inbound["browser"]) \in WsFrames
      BY <1>0, ReadTypes
    <3> QED
      BY <1>0, <1>5, <3>1, SentToAgent DEF AlbToAgent
  <2> QED
    BY <2>1, <2>2
<1>6. CASE AgentToAlb
  BY <1>0, <1>1, <1>6, WriteEffect DEF AgentToAlb
<1>7. CASE HandleInit
  <2>1. Has(toAgent', Close) => Has(toAgent, Close)
    BY <1>0, <1>7, TakenFromServer DEF HandleInit
  <2> QED
    BY <1>7, <2>1 DEF HandleInit
<1>8. CASE HandleDataFromServer \/ HandleCloseFromServer
  <2>1. PICK frame \in WsFrames : TakeFromServer(frame) /\ QueueForApp(frame)
    BY <1>8 DEF HandleDataFromServer, HandleCloseFromServer, WsFrames
  <2>2. Has(toAgent, frame) /\ (Has(toAgent', Close) => Has(toAgent, Close))
    BY <1>0, <2>1, TakenFromServer
  <2>3. Has(localOut', Close) => Has(localOut, Close) \/ frame = Close
    BY <1>0, <2>1, AddLastHas DEF QueueForApp
  <2>4. UNCHANGED <<albReader, got>>
    BY <1>8 DEF HandleDataFromServer, HandleCloseFromServer
  <2> QED
    BY <2>2, <2>3, <2>4
<1>9. CASE LocalWriter
  <2>1. UNCHANGED <<albReader, toAgent>>
    BY <1>9 DEF LocalWriter
  <2>2. CASE localOut = <<>>
    BY <1>9, <2>1, <2>2 DEF LocalWriter
  <2>3. CASE localOut # <<>>
    <3>1. /\ WriteSucceeds("app", Head(localOut)) \/ WriteFails("app")
          /\ localOut' \in {Tail(localOut), <<>>}
      BY <1>9, <2>3 DEF LocalWriter
    <3>2. Has(localOut', Close) => Has(localOut, Close)
      <4>1. ~ Has(<<>>, Close)
        BY EmptyQueue
      <4> QED
        BY <1>0, <2>3, <3>1, <4>1, TakeHeadHas
    <3>3. Head(localOut) \in WsFrames /\ (Head(localOut) = Close => Has(localOut, Close))
      BY <1>0, <2>3, TakeHeadHas, ReadTypes
    <3>4. got'["app"] \in {got["app"], Append(got["app"], Head(localOut))}
      BY <1>0, <3>1, WriteEffect
    <3>5. Has(got'["app"], Close) => Has(got["app"], Close) \/ Head(localOut) = Close
      BY <1>0, <3>3, <3>4, AddLastHas
    <3> QED
      BY <2>1, <3>2, <3>3, <3>5
  <2> QED
    BY <2>2, <2>3
<1>10. CASE LinkLost
  <2>1. Has(toAgent', Close) => Has(toAgent, Close)
    BY <1>0, <1>10, KeepPrefix DEF LinkLost
  <2> QED
    BY <1>10, <2>1 DEF LinkLost
<1> QED
  BY <1>1, <1>2, <1>3, <1>4, <1>5, <1>6, <1>7, <1>8, <1>9, <1>10
  DEF Next, Refuse, Abandon, TunnelStep, StoreSession, StoreWaiter, Upgrade, CleanUp,
      FromAgentStep, HandleInitAck, HandleDataFromAgent, HandleCloseFromAgent, AgentLoopStep,
      ConnectToLocal, AcknowledgeInit, LocalReader, CleanUpSession, FarStep, FarSends,
      FarCloses, FarResets

LEMMA CloseMovesToBrowser ==
    ASSUME TunnelInv, Next
    PROVE  /\ reader' # "done" => reader # "done"
           /\ Has(toServer', Close) => Has(toServer, Close) \/ reader' = "done"
           /\ Has(albOut', Close) => Has(albOut, Close) \/ Has(toServer, Close)
           /\ Has(got'["browser"], Close) => Has(got["browser"], Close) \/ Has(albOut, Close)
<1> USE DEF TunnelInv, ClosesInv, TunnelGoesTo, serverVars, agentVars, linkVars, farVars
<1>0. /\ Types /\ ServerInv /\ AgentInv /\ ClosesInv /\ {"browser", "app"} = Ends
      /\ toServer \in Seq(WsFrames \cup Acks) /\ albOut \in Seq(WsFrames)
      /\ got \in [Ends -> Seq(WsFrames)] /\ inbound \in [Ends -> Seq(WsFrames)]
  BY DEF Types, Ends
<1>1. CASE UNCHANGED <<reader, toServer, albOut, got["browser"]>>
  BY <1>1
<1>2. CASE ConnectToLocal
  <2>1. reader = "none"
    BY <1>0, <1>2 DEF ConnectToLocal, AgentInv
  <2>2. Has(toServer', Close) => Has(toServer, Close)
    BY <1>0, <1>2, Kinds, SentToServer DEF ConnectToLocal, Acks
  <2> QED
    BY <1>2, <2>1, <2>2 DEF ConnectToLocal
<1>3. CASE AcknowledgeInit
  <2>1. Has(toServer', Close) => Has(toServer, Close)
    BY <1>0, <1>3, Kinds, SentToServer DEF AcknowledgeInit, Acks
  <2> QED
    BY <1>3, <2>1 DEF AcknowledgeInit
<1>4. CASE LocalReader
  <2>1. UNCHANGED <<albOut, got>> /\ reader = "run"
    BY <1>4 DEF LocalReader
  <2>2. Has(toServer', Close) => Has(toServer, Close) \/ reader' = "done"
    <3>1. inbound["app"] # <<>> => Head(inbound["app"]) \in WsFrames
      BY <1>0, ReadTypes
    <3> QED
      BY <1>0, <1>4, <3>1, SentToServer DEF LocalReader
  <2> QED
    BY <2>1, <2>2
<1>5. CASE LocalWriter
  BY <1>0, <1>1, <1>5, WriteEffect DEF LocalWriter
<1>6. CASE HandleInitAck
  <2>1. Has(toServer', Close) => Has(toServer, Close)
    BY <1>0, <1>6, TakenFromAgent DEF HandleInitAck
  <2> QED
    BY <1>6, <2>1 DEF HandleInitAck
<1>7. CASE HandleDataFromAgent \/ HandleCloseFromAgent
  <2>1. PICK frame \in WsFrames : TakeFromAgent(frame) /\ QueueForBrowser(frame)
    BY <1>7 DEF HandleDataFromAgent, HandleCloseFromAgent, WsFrames
  <2>2. Has(toServer, frame) /\ (Has(toServer', Close) => Has(toServer, Close))
    BY <1>0, <2>1, TakenFromAgent
  <2>3. Has(albOut', Close) => Has(albOut, Close) \/ frame = Close
    BY <1>0, <2>1, AddLastHas DEF QueueForBrowser
  <2>4. UNCHANGED <<reader, got>>
    BY <1>7 DEF HandleDataFromAgent, HandleCloseFromAgent
  <2> QED
    BY <2>2, <2>3, <2>4
<1>8. CASE AgentToAlb
  <2>1. UNCHANGED <<reader, toServer>>
    BY <1>8 DEF AgentToAlb
  <2>2. CASE albOut = <<>>
    BY <1>8, <2>1, <2>2 DEF AgentToAlb
  <2>3. CASE albOut # <<>>
    <3>1. /\ WriteSucceeds("browser", Head(albOut)) \/ WriteFails("browser")
          /\ albOut' \in {Tail(albOut), <<>>}
      BY <1>8, <2>3 DEF AgentToAlb
    <3>2. Has(albOut', Close) => Has(albOut, Close)
      <4>1. ~ Has(<<>>, Close)
        BY EmptyQueue
      <4> QED
        BY <1>0, <2>3, <3>1, <4>1, TakeHeadHas
    <3>3. Head(albOut) \in WsFrames /\ (Head(albOut) = Close => Has(albOut, Close))
      BY <1>0, <2>3, TakeHeadHas, ReadTypes
    <3>4. got'["browser"] \in {got["browser"], Append(got["browser"], Head(albOut))}
      BY <1>0, <3>1, WriteEffect
    <3>5. Has(got'["browser"], Close) => Has(got["browser"], Close) \/ Head(albOut) = Close
      BY <1>0, <3>3, <3>4, AddLastHas
    <3> QED
      BY <2>1, <3>2, <3>3, <3>5
  <2> QED
    BY <2>2, <2>3
<1>9. CASE LinkLost
  <2>1. Has(toServer', Close) => Has(toServer, Close)
    BY <1>0, <1>9, KeepPrefix DEF LinkLost
  <2> QED
    BY <1>9, <2>1 DEF LinkLost
<1> QED
  BY <1>1, <1>2, <1>3, <1>4, <1>5, <1>6, <1>7, <1>8, <1>9
  DEF Next, Refuse, SendInit, Abandon, TunnelStep, StoreSession, StoreWaiter, Upgrade,
      AwaitAck, Join, CleanUp, AlbToAgent, FromAgentStep, AgentLoopStep, HandleInit,
      HandleDataFromServer, HandleCloseFromServer, CleanUpSession, FarStep, FarSends,
      FarCloses, FarResets

LEMMA NextReaderCloses ==
    ASSUME TunnelInv, Next
    PROVE  ReaderCloses'
BY CloseMovesToApp, CloseMovesToBrowser DEF TunnelInv, ClosesInv, ReaderCloses

LEMMA NextMapCloses ==
    ASSUME TunnelInv, Next
    PROVE  MapCloses'
<1> USE DEF TunnelInv, ClosesInv, TunnelGoesTo, serverVars, agentVars, linkVars, farVars
<1>0. /\ Types /\ ServerInv /\ AgentInv /\ MapCloses
      /\ localOut \in Seq(WsFrames) /\ albOut \in Seq(WsFrames)
      /\ \A e \in Ends : got[e] \in Seq(WsFrames)
      /\ {"browser", "app"} = Ends
      /\ ~ Has(<<>>, Close) /\ CloseLast(<<>>)
  BY EmptyQueue DEF Types, Ends
<1>1. CASE UNCHANGED <<sessions, localOut, ws_sessions, albOut, got>>
  BY <1>0, <1>1 DEF MapCloses
<1>2. CASE ConnectToLocal
  <2>1. localOut = <<>> /\ got["app"] = <<>>
    BY <1>0, <1>2 DEF ConnectToLocal, AgentInv
  <2> QED
    BY <1>0, <1>2, <2>1 DEF ConnectToLocal, MapCloses
<1>3. CASE StoreSession
  <2>1. albOut = <<>> /\ got["browser"] = <<>>
    BY <1>0, <1>3 DEF StoreSession, ServerInv, Before
  <2> QED
    BY <1>0, <1>3, <2>1 DEF StoreSession, MapCloses
<1>4. CASE CleanUp \/ CleanUpSession
  BY <1>0, <1>4 DEF CleanUp, CleanUpSession, MapCloses
<1>5. CASE HandleCloseFromServer
  <2>1. /\ CloseLast(localOut') /\ (Has(got["app"], Close) => localOut' = <<>>)
    BY <1>0, <1>5, AddLastHas DEF HandleCloseFromServer, QueueForApp, MapCloses, WsFrames
  <2> QED
    BY <1>0, <1>5, <2>1 DEF HandleCloseFromServer, MapCloses
<1>6. CASE HandleCloseFromAgent
  <2>1. /\ CloseLast(albOut') /\ (Has(got["browser"], Close) => albOut' = <<>>)
    BY <1>0, <1>6, AddLastHas DEF HandleCloseFromAgent, QueueForBrowser, MapCloses, WsFrames
  <2> QED
    BY <1>0, <1>6, <2>1 DEF HandleCloseFromAgent, MapCloses
<1>7. CASE HandleDataFromServer
  <2>0. PICK frame \in Data : QueueForApp(frame)
    BY <1>7 DEF HandleDataFromServer
  <2>1. /\ Has(localOut', Close) => Has(localOut, Close)
        /\ CloseLast(localOut') /\ (Has(got["app"], Close) => localOut' = <<>>)
    <3>1. frame \in WsFrames /\ frame # Close
      BY Kinds DEF WsFrames
    <3>2. \/ localOut' = localOut
          \/ sessions /\ localOut' = Append(localOut, frame)
      BY <2>0 DEF QueueForApp
    <3>3. /\ Has(Append(localOut, frame), Close) => Has(localOut, Close)
          /\ ~ Has(localOut, Close) => CloseLast(Append(localOut, frame))
      BY <1>0, <3>1, AddLastHas
    <3>4. /\ CloseLast(localOut) /\ (Has(got["app"], Close) => localOut = <<>>)
          /\ sessions => ~ Has(localOut, Close) /\ ~ Has(got["app"], Close)
      BY <1>0 DEF MapCloses
    <3> HIDE DEF TunnelInv, ClosesInv
    <3> QED
      BY <3>2, <3>3, <3>4
  <2> QED
    BY <1>0, <1>7, <2>1 DEF HandleDataFromServer, MapCloses
<1>8. CASE HandleDataFromAgent
  <2>0. PICK frame \in Data : QueueForBrowser(frame)
    BY <1>8 DEF HandleDataFromAgent
  <2>1. /\ Has(albOut', Close) => Has(albOut, Close)
        /\ CloseLast(albOut') /\ (Has(got["browser"], Close) => albOut' = <<>>)
    <3>1. frame \in WsFrames /\ frame # Close
      BY Kinds DEF WsFrames
    <3>2. \/ albOut' = albOut
          \/ ws_sessions /\ albOut' = Append(albOut, frame)
      BY <2>0 DEF QueueForBrowser
    <3>3. /\ Has(Append(albOut, frame), Close) => Has(albOut, Close)
          /\ ~ Has(albOut, Close) => CloseLast(Append(albOut, frame))
      BY <1>0, <3>1, AddLastHas
    <3>4. /\ CloseLast(albOut) /\ (Has(got["browser"], Close) => albOut = <<>>)
          /\ ws_sessions => ~ Has(albOut, Close) /\ ~ Has(got["browser"], Close)
      BY <1>0 DEF MapCloses
    <3> HIDE DEF TunnelInv, ClosesInv
    <3> QED
      BY <3>2, <3>3, <3>4
  <2> QED
    BY <1>0, <1>8, <2>1 DEF HandleDataFromAgent, MapCloses
<1>9. CASE AgentToAlb
  <2>1. UNCHANGED <<sessions, localOut, ws_sessions>>
    BY <1>9 DEF AgentToAlb
  <2>2. CASE albOut = <<>>
    BY <1>0, <1>1, <1>9, <2>2 DEF AgentToAlb
  <2>3. CASE albOut # <<>>
    <3>1. /\ WriteSucceeds("browser", Head(albOut)) \/ WriteFails("browser")
          /\ albOut' \in {Tail(albOut), <<>>} /\ Head(albOut) \in WsFrames
      BY <1>0, <1>9, <2>3, ReadTypes DEF AgentToAlb
    <3>2. /\ got'["app"] = got["app"]
          /\ got'["browser"] \in {got["browser"], Append(got["browser"], Head(albOut))}
      BY <1>0, <3>1, WriteEffect
    <3>3. ~ Has(got["browser"], Close) /\ CloseLast(albOut)
      BY <1>0, <2>3 DEF MapCloses
    <3>4. Has(got'["browser"], Close) => Head(albOut) = Close
      <4>1. got["browser"] \in Seq(WsFrames)
        BY <1>0
      <4>2. Has(Append(got["browser"], Head(albOut)), Close) =>
                Has(got["browser"], Close) \/ Head(albOut) = Close
        BY <3>1, <4>1, AddLastHas
      <4> QED
        BY <3>2, <3>3, <4>2
    <3>5. /\ Has(albOut, Head(albOut)) /\ (Has(Tail(albOut), Close) => Has(albOut, Close))
          /\ CloseLast(Tail(albOut)) /\ (Head(albOut) = Close => Tail(albOut) = <<>>)
      BY <1>0, <2>3, <3>3, TakeHeadHas
    <3>6. /\ CloseLast(albOut') /\ (Has(albOut', Close) => Has(albOut, Close))
          /\ Has(got'["browser"], Close) => albOut' = <<>> /\ Has(albOut, Close)
      BY <1>0, <3>1, <3>4, <3>5
    <3>7. ws_sessions => ~ Has(albOut, Close)
      BY <1>0 DEF MapCloses
    <3> QED
      BY <1>0, <2>1, <3>2, <3>6, <3>7 DEF MapCloses
  <2> QED
    BY <2>2, <2>3
<1>10. CASE LocalWriter
  <2>1. UNCHANGED <<sessions, ws_sessions, albOut>>
    BY <1>10 DEF LocalWriter
  <2>2. CASE localOut = <<>>
    BY <1>0, <1>1, <1>10, <2>2 DEF LocalWriter
  <2>3. CASE localOut # <<>>
    <3>1. /\ WriteSucceeds("app", Head(localOut)) \/ WriteFails("app")
          /\ localOut' \in {Tail(localOut), <<>>} /\ Head(localOut) \in WsFrames
      BY <1>0, <1>10, <2>3, ReadTypes DEF LocalWriter
    <3>2. /\ got'["browser"] = got["browser"]
          /\ got'["app"] \in {got["app"], Append(got["app"], Head(localOut))}
      BY <1>0, <3>1, WriteEffect
    <3>3. ~ Has(got["app"], Close) /\ CloseLast(localOut)
      BY <1>0, <2>3 DEF MapCloses
    <3>4. Has(got'["app"], Close) => Head(localOut) = Close
      <4>1. got["app"] \in Seq(WsFrames)
        BY <1>0
      <4>2. Has(Append(got["app"], Head(localOut)), Close) =>
                Has(got["app"], Close) \/ Head(localOut) = Close
        BY <3>1, <4>1, AddLastHas
      <4> QED
        BY <3>2, <3>3, <4>2
    <3>5. /\ Has(localOut, Head(localOut)) /\ (Has(Tail(localOut), Close) => Has(localOut, Close))
          /\ CloseLast(Tail(localOut)) /\ (Head(localOut) = Close => Tail(localOut) = <<>>)
      BY <1>0, <2>3, <3>3, TakeHeadHas
    <3>6. /\ CloseLast(localOut') /\ (Has(localOut', Close) => Has(localOut, Close))
          /\ Has(got'["app"], Close) => localOut' = <<>> /\ Has(localOut, Close)
      BY <1>0, <3>1, <3>4, <3>5
    <3>7. sessions => ~ Has(localOut, Close)
      BY <1>0 DEF MapCloses
    <3> QED
      BY <1>0, <2>1, <3>2, <3>6, <3>7 DEF MapCloses
  <2> QED
    BY <2>2, <2>3
<1> QED
  BY <1>1, <1>2, <1>3, <1>4, <1>5, <1>6, <1>7, <1>8, <1>9, <1>10
  DEF Next, Refuse, SendInit, Abandon, TunnelStep, StoreWaiter, Upgrade, AwaitAck, Join,
      AlbToAgent, FromAgentStep, HandleInitAck, AgentLoopStep, HandleInit, AcknowledgeInit,
      LocalReader, FarStep, FarSends, FarCloses, FarResets, LinkLost

\* Closes among the last two of a queue, after a send or a receipt.
LEMMA SecondToLast ==
    ASSUME NEW S, NEW s \in Seq(S), NEW f \in S
    PROVE  /\ CloseLast(s) => \A i \in 1 .. Len(Append(s, f)) - 2 : Append(s, f)[i] # Close
           /\ s # <<>> /\ (\A i \in 1 .. Len(s) - 2 : s[i] # Close) =>
                  \A i \in 1 .. Len(Tail(s)) - 2 : Tail(s)[i] # Close
           /\ ~ Has(s, Close) => CloseLast(s)
           /\ CloseLast(s) => \A i \in 1 .. Len(s) - 2 : s[i] # Close
<1>1. CloseLast(s) => \A i \in 1 .. Len(Append(s, f)) - 2 : Append(s, f)[i] # Close
  BY AppendProperties DEF CloseLast
<1>2. ASSUME s # <<>>, \A i \in 1 .. Len(s) - 2 : s[i] # Close,
             NEW i \in 1 .. Len(Tail(s)) - 2
      PROVE  Tail(s)[i] # Close
  <2>1. /\ Len(Tail(s)) = Len(s) - 1 /\ Len(s) \in Nat
        /\ \A j \in 1 .. Len(Tail(s)) : Tail(s)[j] = s[j + 1]
    BY <1>2, HeadTailProperties
  <2>2. i + 1 \in 1 .. Len(s) - 2 /\ i \in 1 .. Len(Tail(s))
    BY <2>1
  <2> QED
    BY <1>2, <2>1, <2>2
<1>3. ~ Has(s, Close) => CloseLast(s)
  BY DEF Has, CloseLast
<1>4. CloseLast(s) => \A i \in 1 .. Len(s) - 2 : s[i] # Close
  BY DEF CloseLast
<1> QED
  BY <1>1, <1>2, <1>3, <1>4

LEMMA NextLinkCloses ==
    ASSUME TunnelInv, Next
    PROVE  LinkCloses'
<1> USE DEF TunnelInv, ClosesInv, TunnelGoesTo, serverVars, agentVars, linkVars, farVars
<1> DEFINE Old(s) == \A i \in 1 .. Len(s) - 2 : s[i] # Close
           Once(s) == \A i, j \in 1 .. Len(s) : s[i] = Close /\ s[j] = Close => i = j
<1>0. /\ Types /\ ServerInv /\ AgentInv /\ LinkCloses /\ ReaderCloses
      /\ toAgent \in Seq(WsFrames \cup {Frame("init")})
      /\ toServer \in Seq(WsFrames \cup Acks)
      /\ Close \in WsFrames /\ \A m \in Acks \cup {Frame("init")} : m # Close
  BY Kinds DEF Types, WsFrames
<1>1. Old(toAgent')
  <2>1. CASE toAgent' = toAgent
    BY <1>0, <2>1 DEF LinkCloses
  <2>2. CASE SendInit \/ AlbToAgent
    <3>1. ~ Has(toAgent, Close)
      <4>1. ~ Has(<<>>, Close)
        BY EmptyQueue
      <4> QED
        BY <1>0, <2>2, <4>1 DEF SendInit, AlbToAgent, ServerInv, ReaderCloses
    <3>2. inbound["browser"] # <<>> => Head(inbound["browser"]) \in WsFrames
      BY ReadTypes DEF Types, Ends
    <3>3. \/ toAgent' = toAgent
          \/ \E m \in WsFrames \cup {Frame("init")} : toAgent' = Append(toAgent, m)
      BY <2>2, <3>2 DEF SendInit, AlbToAgent, SendToAgent
    <3> QED
      BY <1>0, <2>1, <3>1, <3>3, SecondToLast
  <2>3. CASE Join
    <3>1. CloseLast(toAgent)
      BY <1>0, <2>3 DEF Join, LinkCloses
    <3> QED
      BY <1>0, <2>1, <2>3, <3>1, SecondToLast DEF Join, SendToAgent
  <2>4. CASE toAgent # <<>> /\ toAgent' = Tail(toAgent)
    BY <1>0, <2>4, SecondToLast DEF LinkCloses
  <2>5. CASE LinkLost
    BY <1>0, <2>5, KeepPrefix DEF LinkLost, LinkCloses
  <2> QED
    BY <2>1, <2>2, <2>3, <2>4, <2>5
    DEF Next, Refuse, Abandon, TunnelStep, StoreSession, StoreWaiter, Upgrade, AwaitAck,
        CleanUp, AgentToAlb, FromAgentStep, HandleInitAck, HandleDataFromAgent,
        HandleCloseFromAgent, AgentLoopStep, HandleInit, ConnectToLocal, AcknowledgeInit,
        HandleDataFromServer, HandleCloseFromServer, TakeFromServer, LocalWriter, LocalReader,
        CleanUpSession, FarStep, FarSends, FarCloses, FarResets
<1>2. tunnel' = "open" => CloseLast(toAgent')
  <2>1. CASE toAgent' = toAgent /\ (tunnel' = "open" => tunnel = "open")
    BY <1>0, <2>1 DEF LinkCloses
  <2>2. CASE AwaitAck
    <3>1. ~ Has(toAgent, Close)
      BY <1>0, <2>2 DEF AwaitAck, ServerInv, Before, ReaderCloses
    <3> QED
      BY <1>0, <2>2, <3>1, SecondToLast DEF AwaitAck
  <2>3. CASE SendInit \/ Join
    BY <2>3 DEF SendInit, Join
  <2>4. CASE AlbToAgent
    <3>1. ~ Has(toAgent, Close)
      BY <1>0, <2>4 DEF AlbToAgent, ReaderCloses
    <3>2. inbound["browser"] # <<>> => Head(inbound["browser"]) \in WsFrames
      BY ReadTypes DEF Types, Ends
    <3>3. \/ toAgent' = toAgent
          \/ \E m \in WsFrames \cup {Frame("init")} : toAgent' = Append(toAgent, m)
      BY <2>4, <3>2 DEF AlbToAgent, SendToAgent
    <3>4. CloseLast(toAgent)
      BY <1>0, <3>1, SecondToLast
    <3>5. \A m \in WsFrames \cup {Frame("init")} : CloseLast(Append(toAgent, m))
      BY <1>0, <3>1, AddLastHas
    <3> QED
      BY <3>3, <3>4, <3>5
  <2>5. CASE toAgent # <<>> /\ toAgent' = Tail(toAgent) /\ tunnel' = tunnel
    BY <1>0, <2>5, TakeHeadHas DEF LinkCloses
  <2>6. CASE LinkLost
    BY <1>0, <2>6, KeepPrefix DEF LinkLost, LinkCloses
  <2> QED
    BY <2>1, <2>2, <2>3, <2>4, <2>5, <2>6
    DEF Next, Refuse, Abandon, TunnelStep, StoreSession, StoreWaiter, Upgrade,
        CleanUp, AgentToAlb, FromAgentStep, HandleInitAck, HandleDataFromAgent,
        HandleCloseFromAgent, AgentLoopStep, HandleInit, ConnectToLocal, AcknowledgeInit,
        HandleDataFromServer, HandleCloseFromServer, TakeFromServer, LocalWriter, LocalReader,
        CleanUpSession, FarStep, FarSends, FarCloses, FarResets
<1>3. Once(toServer')
  <2>1. CASE toServer' = toServer
    BY <1>0, <2>1 DEF LinkCloses
  <2>2. ASSUME NEW m \in WsFrames \cup Acks, toServer' = Append(toServer, m),
               m = Close => ~ Has(toServer, Close)
        PROVE  Once(toServer')
    BY <1>0, <2>2, AppendProperties DEF LinkCloses, Has
  <2>3. CASE ConnectToLocal \/ AcknowledgeInit
    BY <1>0, <2>1, <2>2, <2>3 DEF ConnectToLocal, AcknowledgeInit, SendToServer, Acks
  <2>4. CASE LocalReader
    <3>1. ~ Has(toServer, Close)
      BY <1>0, <2>4 DEF LocalReader, ReaderCloses
    <3>2. inbound["app"] # <<>> => Head(inbound["app"]) \in WsFrames
      BY ReadTypes DEF Types, Ends
    <3> QED
      BY <1>0, <2>1, <2>2, <2>4, <3>1, <3>2 DEF LocalReader, SendToServer
  <2>5. CASE toServer # <<>> /\ toServer' = Tail(toServer)
    <3>1. /\ Len(Tail(toServer)) = Len(toServer) - 1 /\ Len(toServer) \in Nat
          /\ \A i \in 1 .. Len(Tail(toServer)) : Tail(toServer)[i] = toServer[i + 1]
      BY <1>0, <2>5, HeadTailProperties
    <3> QED
      BY <1>0, <2>5, <3>1 DEF LinkCloses
  <2>6. CASE LinkLost
    BY <1>0, <2>6, KeepPrefix DEF LinkLost, LinkCloses
  <2> QED
    BY <2>1, <2>2, <2>3, <2>4, <2>5, <2>6
    DEF Next, Refuse, SendInit, Abandon, TunnelStep, StoreSession, StoreWaiter, Upgrade,
        AwaitAck, Join, CleanUp, AlbToAgent, AgentToAlb, FromAgentStep, HandleInitAck,
        HandleDataFromAgent, HandleCloseFromAgent, TakeFromAgent, AgentLoopStep, HandleInit,
        HandleDataFromServer, HandleCloseFromServer, LocalWriter,
        CleanUpSession, FarStep, FarSends, FarCloses, FarResets
<1> QED
  BY <1>1, <1>2, <1>3 DEF LinkCloses

LEMMA NextClosesInv ==
    ASSUME TunnelInv, Next
    PROVE  ClosesInv'
BY NextEndCloses, NextMapCloses, NextReaderCloses, NextLinkCloses DEF ClosesInv

-----------------------------------------------------------------------------
(* From the browser to the application *)

\* No acknowledgement is among these queues, so that a place is a position.
LEMMA QueuesToApp ==
    ASSUME Types
    PROVE  /\ toAgent \in Seq(WsFrames \cup {Frame("init")}) /\ Carried(toAgent) = Len(toAgent)
           /\ localOut \in Seq(WsFrames) /\ Carried(localOut) = Len(localOut)
           /\ got["app"] \in Seq(WsFrames) /\ Carried(got["app"]) = Len(got["app"])
           /\ inbound["browser"] \in Seq(WsFrames)
           /\ Carried(inbound["browser"]) = Len(inbound["browser"])
           /\ {Len(toAgent), Len(localOut), Len(got["app"]), Len(inbound["browser"])} \subseteq Nat
           /\ sent["browser"] \in Nat
<1>1. /\ toAgent \in Seq(WsFrames \cup {Frame("init")}) /\ localOut \in Seq(WsFrames)
      /\ got["app"] \in Seq(WsFrames) /\ inbound["browser"] \in Seq(WsFrames)
      /\ sent["browser"] \in 0 .. Frames
  BY DEF Types, Ends
<1>2. WsFrames \cap Acks = {} /\ (WsFrames \cup {Frame("init")}) \cap Acks = {}
  BY Kinds DEF WsFrames
<1>3. sent["browser"] \in Nat
  BY <1>1, WsTunnelAssumption DEF WsTunnelAssumption
<1> QED
  BY <1>1, <1>2, <1>3, PlainPlace

\* A step that loses nothing and forgets at most who is there.
LEMMA SameToApp ==
    ASSUME NEW m \in Nat, NEW n \in Nat, ToApp(m, n), CloseToApp(m, n),
           UNCHANGED <<got["app"], localOut, toAgent, inbound["browser"], sent["browser"],
                       link, albReader>>,
           far'["browser"] \in {far["browser"], "reset"},
           Written' => Written,
           sessions' => sessions
    PROVE  PathToApp'
<1>1. ToApp(m, n)'
  BY DEF ToApp
<1>2. CloseToApp(m, n)'
  BY DEF CloseToApp
<1> QED
  BY <1>1, <1>2 DEF PathToApp

\* A new last element that the browser sends.
LEMMA BrowserSends ==
    ASSUME TunnelInv, NEW frame \in WsFrames, far["browser"] = "open",
           inbound'["browser"] = Append(inbound["browser"], frame),
           frame = Close => far'["browser"] = "closed" /\ sent'["browser"] = sent["browser"],
           frame # Close => /\ far'["browser"] = "open"
                            /\ frame.no = sent["browser"] + 1
                            /\ sent'["browser"] = sent["browser"] + 1,
           UNCHANGED <<got["app"], localOut, toAgent, link, albReader, sessions, writer,
                       far["app"]>>
    PROVE  PathToApp'
<1> DEFINE queue == inbound["browser"]
<1>0. PICK m, n \in Nat : ToApp(m, n) /\ CloseToApp(m, n)
  BY DEF TunnelInv, PathToApp
<1>1. /\ albReader # "done" /\ ~ Has(queue, Close)
      /\ ~ Has(toAgent, Close) /\ ~ Has(localOut, Close) /\ ~ Has(got["app"], Close)
  BY DEF TunnelInv, ServerInv, ClosesInv, EndCloses, ReaderCloses, Ends
<1>2. /\ queue \in Seq(WsFrames) /\ Carried(queue) = Len(queue) /\ Len(queue) \in Nat
      /\ sent["browser"] \in Nat /\ n + Len(queue) = sent["browser"]
  BY <1>0, QueuesToApp DEF TunnelInv, CloseToApp
<1>3. /\ Len(Append(queue, frame)) = Len(queue) + 1
      /\ frame = Close => Has(Append(queue, frame), Close)
  BY <1>2, AppendProperties, AddLastHas
<1>4. InOrder(Append(queue, frame), n)
  <2>1. frame \notin Acks /\ InOrder(queue, n) /\ (frame \in Data => frame # Close)
    BY <1>0, Kinds DEF WsFrames, ToApp
  <2>2. frame \in Data => frame.no = n + Carried(queue) + 1 /\ ~ Has(queue, Close)
    BY <1>1, <1>2, <2>1
  <2> QED
    BY <1>2, <2>1, <2>2, AddLast
<1>5. ToApp(m, n)'
  BY <1>0, <1>4 DEF ToApp, Written
<1>6. CloseToApp(m, n)'
  <2>1. CASE frame = Close
    BY <1>1, <1>2, <1>3, <2>1 DEF CloseToApp, Has
  <2>2. CASE frame # Close
    BY <1>2, <1>3, <2>2 DEF CloseToApp
  <2> QED
    BY <2>1, <2>2
<1> QED
  BY <1>5, <1>6 DEF PathToApp

LEMMA FarToApp ==
    ASSUME TunnelInv, FarStep
    PROVE  PathToApp'
<1> USE DEF TunnelInv, serverVars, agentVars, linkVars
<1>0. PICK m, n \in Nat : ToApp(m, n) /\ CloseToApp(m, n)
  BY DEF PathToApp
<1>1. /\ far \in [Ends -> {"absent", "open", "closed", "reset"}]
      /\ sent \in [Ends -> 0 .. Frames] /\ inbound \in [Ends -> Seq(WsFrames)]
      /\ {"browser", "app"} = Ends
  BY DEF Types, Ends
<1>2. CASE FarSends("app") \/ FarCloses("app") \/ FarResets("app")
  <2>1. UNCHANGED <<got, localOut, toAgent, inbound["browser"], sent["browser"], link,
                    albReader, far["browser"], writer, sessions>>
    BY <1>1, <1>2 DEF FarSends, FarCloses, FarResets
  <2>2. Written' => Written
    BY <1>1, <1>2 DEF FarSends, FarCloses, FarResets, Speaks, Written
  <2> QED
    BY <1>0, <2>1, <2>2, SameToApp
<1>3. CASE FarSends("browser")
  <2>1. sent["browser"] + 1 \in 1 .. Frames
    BY <1>1, <1>3, WsTunnelAssumption DEF FarSends, WsTunnelAssumption
  <2>2. DataFrame(sent["browser"] + 1) \in Data
    BY <2>1 DEF Data
  <2>3. DataFrame(sent["browser"] + 1).no = sent["browser"] + 1
    BY DEF DataFrame
  <2>4. /\ sent'["browser"] = sent["browser"] + 1 /\ far' = far /\ far["browser"] = "open"
        /\ inbound'["browser"]
               = Append(inbound["browser"], DataFrame(sent["browser"] + 1))
        /\ UNCHANGED <<got, localOut, toAgent, link, albReader, sessions, writer>>
    BY <1>1, <1>3 DEF FarSends, Speaks
  <2> QED
    BY <2>2, <2>3, <2>4, Kinds, BrowserSends DEF WsFrames
<1>4. CASE FarCloses("browser")
  <2>1. /\ sent' = sent /\ far'["browser"] = "closed" /\ far["browser"] = "open"
        /\ far'["app"] = far["app"]
        /\ inbound'["browser"] = Append(inbound["browser"], Close)
        /\ UNCHANGED <<got, localOut, toAgent, link, albReader, sessions, writer>>
    BY <1>1, <1>4 DEF FarCloses, Speaks
  <2> QED
    BY <2>1, BrowserSends DEF WsFrames
<1>5. CASE FarResets("browser")
  <2>1. PICK rest \in Prefixes(inbound["browser"]) :
            inbound' = [inbound EXCEPT !["browser"] = rest]
    BY <1>5 DEF FarResets
  <2>2. InOrder(rest, n)
    BY <1>0, <1>1, <2>1, KeepPrefix DEF ToApp
  <2>3. /\ far'["browser"] = "reset" /\ far'["app"] = far["app"]
        /\ inbound'["browser"] = rest
        /\ UNCHANGED <<got, localOut, toAgent, link, albReader, sessions, writer, sent>>
    BY <1>1, <1>5, <2>1 DEF FarResets
  <2>4. ToApp(m, n)'
    BY <1>0, <2>2, <2>3 DEF ToApp, Written
  <2>5. CloseToApp(m, n)'
    BY <2>3 DEF CloseToApp
  <2> QED
    BY <2>4, <2>5 DEF PathToApp
<1> QED
  BY <1>1, <1>2, <1>3, <1>4, <1>5 DEF FarStep, Ends

\* The server's side of the path, up to the connection.
LEMMA ServerToApp ==
    ASSUME TunnelInv,
           Refuse \/ SendInit \/ Abandon \/ TunnelStep \/ AgentToAlb \/ FromAgentStep
    PROVE  PathToApp'
<1> USE DEF TunnelInv, TunnelGoesTo, agentVars, linkVars, farVars
<1>0. PICK m, n \in Nat : ToApp(m, n) /\ CloseToApp(m, n)
  BY DEF PathToApp
<1>1. /\ Types /\ ServerInv /\ AgentInv /\ ClosesInv
      /\ far \in [Ends -> {"absent", "open", "closed", "reset"}]
      /\ {"browser", "app"} = Ends
  BY DEF Types, Ends
<1>2. CASE Refuse \/ Abandon \/ StoreSession \/ StoreWaiter \/ Upgrade \/ FromAgentStep
  <2>1. UNCHANGED <<far, sent, inbound, got, sessions, localOut, writer, toAgent, link,
                    albReader>>
    BY <1>2 DEF Refuse, Abandon, StoreSession, StoreWaiter, Upgrade, FromAgentStep,
                HandleInitAck, HandleDataFromAgent, HandleCloseFromAgent
  <2>2. Written' => Written
    BY <2>1 DEF Written
  <2> QED
    BY <1>0, <2>1, <2>2, SameToApp
<1>3. CASE SendInit
  <2>1. albReader = "none" /\ toAgent = <<>> /\ m = 0 /\ n = 0
    BY <1>0, <1>1, <1>3 DEF SendInit, ServerInv, Before, ToApp
  <2>2. toAgent' = <<>> \/ toAgent' = Append(<<>>, Frame("init"))
    BY <1>3, <2>1 DEF SendInit, SendToAgent
  <2>3. InOrder(toAgent', 0) /\ ~ Has(toAgent', Close)
    <3>1. /\ InOrder(<<>>, 0) /\ ~ Has(<<>>, Close)
          /\ Frame("init") \notin Acks \cup Data \cup {Close}
      BY EmptyQueue, Kinds
    <3>2. <<>> \in Seq({Frame("init")})
      OBVIOUS
    <3>3. InOrder(Append(<<>>, Frame("init")), 0)
      BY <3>1, <3>2, AddLast
    <3>4. ~ Has(Append(<<>>, Frame("init")), Close)
      BY <3>1, <3>2, AddLastHas
    <3> QED
      BY <2>2, <3>1, <3>3, <3>4
  <2>4. UNCHANGED <<far, sent, inbound, got, sessions, localOut, writer, link, albReader>>
    BY <1>3 DEF SendInit
  <2>5. ToApp(m, n)'
    BY <1>0, <2>1, <2>3, <2>4 DEF ToApp, Written
  <2>6. CloseToApp(m, n)'
    BY <1>0, <2>3, <2>4 DEF CloseToApp, Written, Has
  <2> QED
    BY <2>5, <2>6 DEF PathToApp
<1>4. CASE AwaitAck
  <2>1. albReader = "none" /\ m = 0 /\ n = 0 /\ ack # "none"
    BY <1>0, <1>1, <1>4 DEF AwaitAck, ServerInv, Before, ToApp
  <2>2. toAgent = <<>> /\ Len(toAgent) = 0
    BY <1>1, <2>1, NotYetAnswered DEF AgentInv
  <2>3. UNCHANGED <<far, sent, inbound, got, sessions, localOut, writer, toAgent, link>>
    BY <1>4 DEF AwaitAck
  <2>4. albReader' \in {"none", "run"}
    BY <1>4, <2>1 DEF AwaitAck
  <2>5. ToApp(m, n)'
    BY <1>0, <2>1, <2>2, <2>3, <2>4 DEF ToApp, Written
  <2>6. CloseToApp(m, n)'
    BY <1>0, <2>1, <2>3, <2>4 DEF CloseToApp, Written
  <2> QED
    BY <2>5, <2>6 DEF PathToApp
<1>5. CASE Join
  <2>1. /\ albReader = "done" /\ CloseLast(toAgent)
        /\ UNCHANGED <<far, sent, inbound, got, sessions, localOut, writer, link, albReader>>
    BY <1>1, <1>5 DEF Join, ClosesInv, LinkCloses
  <2>2. (toAgent' = Append(toAgent, Close) /\ link = "up") \/ toAgent' = toAgent
    BY <1>5 DEF Join, SendToAgent
  <2>3. CASE toAgent' = toAgent
    BY <1>0, <2>1, <2>3, SameToApp DEF Written
  <2>4. CASE toAgent' = Append(toAgent, Close) /\ link = "up"
    <3>1. /\ toAgent \in Seq(WsFrames \cup {Frame("init")}) /\ Len(toAgent) \in Nat
          /\ Close \in WsFrames /\ Close \notin Data \cup Acks
      BY <1>1, QueuesToApp, Kinds DEF WsFrames
    <3>2. InOrder(toAgent, m)
      BY <1>0 DEF ToApp
    <3>3. InOrder(toAgent', m)
      BY <2>4, <3>1, <3>2, AddLast
    <3>4. /\ Len(toAgent') = Len(toAgent) + 1
          /\ \A i \in 1 .. Len(toAgent) : toAgent'[i] = toAgent[i]
      BY <2>4, <3>1, AppendProperties
    <3>5. sessions /\ far["browser"] = "closed" =>
              Len(toAgent) > 0 /\ toAgent[Len(toAgent)] = Close
      <4>1. sessions /\ far["browser"] = "closed" => Has(toAgent, Close)
        BY <2>1, <2>4 DEF CloseOnItsWay
      <4> QED
        BY <2>1, <3>1, <4>1 DEF Has, CloseLast
    <3>6. ToApp(m, n)'
      BY <1>0, <2>1, <3>3 DEF ToApp, Written
    <3>7. ASSUME sessions, far["browser"] = "closed", NEW i \in 1 .. Len(toAgent'),
                 toAgent'[i] = Close
          PROVE  m + i = sent["browser"] + 1 \/ (i > 1 /\ toAgent'[i - 1] = Close)
      <4>1. CASE i = Len(toAgent) + 1
        BY <3>1, <3>4, <3>5, <3>7, <4>1
      <4>2. CASE i \in 1 .. Len(toAgent)
        <5>1. toAgent[i] = Close
          BY <3>4, <3>7, <4>2
        <5>2. m + i = sent["browser"] + 1 \/ (i > 1 /\ toAgent[i - 1] = Close)
          BY <1>0, <3>7, <4>2, <5>1 DEF CloseToApp
        <5>3. i > 1 => i - 1 \in 1 .. Len(toAgent)
          BY <3>1, <4>2
        <5> QED
          BY <3>4, <5>2, <5>3
      <4> QED
        BY <3>1, <3>4, <3>7, <4>1, <4>2
    <3>8. CloseToApp(m, n)'
      BY <1>0, <2>1, <3>7 DEF CloseToApp, Written
    <3> QED
      BY <3>6, <3>8 DEF PathToApp
  <2> QED
    BY <2>2, <2>3, <2>4
<1>6. CASE CleanUp
  <2>1. /\ UNCHANGED <<sent, inbound, got, sessions, localOut, writer, toAgent, link,
                       albReader, far["app"]>>
        /\ far'["browser"] \in {far["browser"], "reset"}
    BY <1>1, <1>6 DEF CleanUp
  <2> QED
    BY <1>0, <2>1, SameToApp DEF Written
<1>7. CASE AgentToAlb
  <2>1. UNCHANGED <<sessions, localOut, writer, toAgent, link, albReader>>
    BY <1>7 DEF AgentToAlb
  <2>2. CASE UNCHANGED farVars
    BY <1>0, <2>1, <2>2, SameToApp DEF Written
  <2>3. CASE albOut # <<>> /\ ~ UNCHANGED farVars
    <3>1. UNCHANGED <<far, sent, inbound>> /\ got'["app"] = got["app"]
      BY <1>1, <1>7, <2>3, WriteEffect DEF AgentToAlb
    <3> QED
      BY <1>0, <2>1, <3>1, SameToApp DEF Written
  <2> QED
    BY <1>7, <2>2, <2>3 DEF AgentToAlb
<1> QED
  BY <1>2, <1>3, <1>4, <1>5, <1>6, <1>7 DEF TunnelStep

\* alb_to_agent takes the browser's next frame to the connection.
LEMMA AlbToAgentToApp ==
    ASSUME TunnelInv, AlbToAgent
    PROVE  PathToApp'
<1> DEFINE queue == inbound["browser"]
<1> USE DEF TunnelInv, agentVars
<1>0. PICK m, n \in Nat : ToApp(m, n) /\ CloseToApp(m, n)
  BY DEF PathToApp
<1>1. /\ queue \in Seq(WsFrames) /\ Carried(queue) = Len(queue) /\ Len(queue) \in Nat
      /\ toAgent \in Seq(WsFrames \cup {Frame("init")}) /\ Carried(toAgent) = Len(toAgent)
      /\ Len(toAgent) \in Nat /\ sent["browser"] \in Nat
      /\ inbound \in [Ends -> Seq(WsFrames)] /\ {"browser", "app"} = Ends
  BY QueuesToApp DEF Types, Ends
<1>2. /\ albReader = "run" /\ albReader' \in {"run", "done"} /\ ~ Has(toAgent, Close)
      /\ UNCHANGED <<far, sent, got, sessions, localOut, writer, link>>
  BY DEF AlbToAgent, ClosesInv, ReaderCloses
<1>3. CASE queue = <<>>
  <2>1. far["browser"] = "reset" /\ inbound' = inbound /\ toAgent' = toAgent
        /\ albReader' = "done"
    BY <1>3 DEF AlbToAgent
  <2>2. ToApp(m, n)'
    BY <1>0, <1>2, <2>1 DEF ToApp, Written
  <2>3. CloseToApp(m, n)'
    BY <1>2, <2>1 DEF CloseToApp
  <2> QED
    BY <2>2, <2>3 DEF PathToApp
<1>4. CASE queue # <<>>
  <2> DEFINE h == Head(queue)
  <2>1. /\ inbound'["browser"] = Tail(queue) /\ SendToAgent(h)
        /\ albReader' = IF h = Close THEN "done" ELSE "run"
    BY <1>1, <1>4 DEF AlbToAgent
  <2>2. /\ h \in WsFrames /\ h \notin Acks /\ Len(Tail(queue)) = Len(queue) - 1
        /\ h # Close => h \in Data
        /\ Close \notin Data
    BY <1>1, <1>4, Kinds, HeadTailProperties DEF WsFrames
  <2>3. /\ InOrder(Tail(queue), n + 1) /\ (h \in Data => h.no = n + 1)
    <3>1. InOrder(queue, n)
      BY <1>0 DEF ToApp
    <3> QED
      BY <1>1, <1>4, <2>2, <3>1, TakeHead
  <2>4. /\ Has(queue, Close) /\ h # Close => Has(Tail(queue), Close)
        /\ h = Close => Len(queue) = 1
    <3>1. CloseLast(queue)
      BY <1>1 DEF ClosesInv, EndCloses
    <3>2. h = Close => Tail(queue) = <<>>
      BY <1>1, <1>4, <3>1, TakeHeadHas
    <3>3. h = Close => Len(Tail(queue)) = 0
      BY <3>2, EmptySeq
    <3> QED
      BY <1>1, <1>4, <2>2, <3>3, TakeHeadHas
  <2>5. link = "up" => /\ toAgent' = Append(toAgent, h) /\ n = m + Len(toAgent)
                       /\ Len(toAgent') = Len(toAgent) + 1
                       /\ toAgent'[Len(toAgent) + 1] = h
                       /\ \A i \in 1 .. Len(toAgent) : toAgent'[i] = toAgent[i]
    BY <1>0, <1>1, <1>2, <2>1, <2>2, AppendProperties DEF SendToAgent, ToApp
  <2>6. link # "up" => toAgent' = toAgent
    BY <2>1 DEF SendToAgent
  <2>7. InOrder(toAgent', m)
    <3>1. InOrder(toAgent, m)
      BY <1>0 DEF ToApp
    <3>2. ASSUME link = "up"
          PROVE  InOrder(Append(toAgent, h), m)
      <4>1. h \in Data => h.no = m + Carried(toAgent) + 1 /\ ~ Has(toAgent, Close)
        BY <1>1, <1>2, <2>3, <2>5, <3>2
      <4>2. h \in WsFrames \cup {Frame("init")} /\ h \notin Acks
        BY <2>2
      <4>3. toAgent \in Seq(WsFrames \cup {Frame("init")})
        BY <1>1
      <4> HIDE DEF h
      <4> QED
        BY <3>1, <4>1, <4>2, <4>3, AddLast
    <3> QED
      BY <2>5, <2>6, <3>1, <3>2
  <2>8. ToApp(m, n + 1)'
    BY <1>0, <1>1, <1>2, <2>1, <2>3, <2>5, <2>7 DEF ToApp, Written
  <2>9. CloseToApp(m, n + 1)'
    <3> DEFINE l == Len(queue)
               t == Len(Tail(queue))
    <3>0. l \in Nat /\ t = l - 1 /\ sent["browser"] \in Nat
      BY <1>1, <2>2
    <3>1. far["browser"] = "open" => n + 1 + t = sent["browser"]
      <4>1. far["browser"] = "open" => n + l = sent["browser"]
        BY <1>0 DEF CloseToApp
      <4> HIDE DEF l, t
      <4> QED
        BY <3>0, <4>1
    <3>2. far["browser"] = "closed" => /\ n + 1 + t = sent["browser"] + 1
                                       /\ Has(queue, Close)
      <4>1. far["browser"] = "closed" => n + l = sent["browser"] + 1 /\ Has(queue, Close)
        BY <1>0, <1>2 DEF CloseToApp
      <4> HIDE DEF l, t
      <4> QED
        BY <3>0, <4>1
    <3>3. ASSUME NEW i \in 1 .. Len(toAgent'), toAgent'[i] = Close, far["browser"] = "closed"
          PROVE  m + i = sent["browser"] + 1
      <4>1. \A j \in 1 .. Len(toAgent) : toAgent[j] # Close
        BY <1>2 DEF Has
      <4>2. link = "up" /\ i = Len(toAgent) + 1 /\ h = Close
        BY <1>1, <2>5, <2>6, <3>3, <4>1
      <4>3. t = 0 /\ n = m + Len(toAgent)
        BY <2>2, <2>4, <2>5, <4>2
      <4>4. n + 1 + t = sent["browser"] + 1
        BY <3>2, <3>3
      <4> HIDE DEF t
      <4> QED
        BY <1>1, <4>2, <4>3, <4>4
    <3> QED
      BY <1>0, <1>2, <2>1, <2>4, <3>1, <3>2, <3>3 DEF CloseToApp, Written
  <2>10. n + 1 \in Nat
    OBVIOUS
  <2> QED
    BY <2>8, <2>9, <2>10 DEF PathToApp
<1> QED
  BY <1>3, <1>4

\* The agent takes the next frame from the connection to the session's queue.
LEMMA HandleFromServerToApp ==
    ASSUME TunnelInv, HandleDataFromServer \/ HandleCloseFromServer
    PROVE  PathToApp'
<1> USE DEF TunnelInv, serverVars, farVars
<1>0. PICK m, n \in Nat : ToApp(m, n) /\ CloseToApp(m, n)
  BY DEF PathToApp
<1>1. /\ toAgent \in Seq(WsFrames \cup {Frame("init")}) /\ Carried(toAgent) = Len(toAgent)
      /\ localOut \in Seq(WsFrames) /\ Carried(localOut) = Len(localOut)
      /\ {Len(toAgent), Len(localOut), Len(got["app"]), sent["browser"]} \subseteq Nat
  BY QueuesToApp
<1>2. PICK frame \in WsFrames :
          /\ TakeFromServer(frame) /\ QueueForApp(frame)
          /\ frame # Close => sessions' = sessions
          /\ frame = Close => ~ sessions'
  BY Kinds DEF HandleDataFromServer, HandleCloseFromServer, WsFrames
<1>3. /\ toAgent # <<>> /\ Head(toAgent) = frame /\ toAgent' = Tail(toAgent)
      /\ albReader # "none" /\ frame \notin Acks
      /\ frame = Close => frame \notin Data
  <2>1. /\ toAgent # <<>> /\ Head(toAgent) = frame /\ toAgent' = Tail(toAgent)
        /\ albReader # "none"
    BY <1>2, FramesAfterAnswer, TakenFromServer
  <2>2. frame \notin Acks /\ (frame = Close => frame \notin Data)
    BY Kinds DEF WsFrames
  <2> QED
    BY <2>1, <2>2
<1>4. UNCHANGED <<far, sent, inbound, got, writer, link, albReader>>
  BY DEF HandleDataFromServer, HandleCloseFromServer
<1>5. InOrder(toAgent', m + 1) /\ (frame \in Data => frame.no = m + 1)
  <2>1. InOrder(toAgent, m)
    BY <1>0 DEF ToApp
  <2> QED
    BY <1>1, <1>3, <2>1, TakeHead
<1>6. /\ Len(toAgent') = Len(toAgent) - 1 /\ Len(toAgent) > 0 /\ toAgent[1] = frame
      /\ \A i \in 1 .. Len(toAgent') : toAgent'[i] = toAgent[i + 1]
  BY <1>1, <1>3, HeadTailProperties
\* What the queue for the application is, when it is still written.
<1>7. Written => IF sessions
                 THEN /\ localOut' = Append(localOut, frame)
                      /\ m = Len(got["app"]) + Len(localOut)
                      /\ ~ Has(localOut, Close)
                 ELSE localOut' = localOut
  <2>1. Written /\ sessions => m = Len(got["app"]) + Len(localOut)
    BY <1>0 DEF ToApp
  <2>2. sessions => ~ Has(localOut, Close)
    BY DEF ClosesInv, MapCloses
  <2>3. Written => localOut' = IF sessions THEN Append(localOut, frame) ELSE localOut
    BY <1>2 DEF QueueForApp, Written
  <2> QED
    BY <2>1, <2>2, <2>3
<1>8. /\ Len(Append(localOut, frame)) = Len(localOut) + 1
      /\ Append(localOut, frame)[Len(localOut) + 1] = frame
      /\ \A i \in 1 .. Len(localOut) : Append(localOut, frame)[i] = localOut[i]
  BY <1>1, AppendProperties
<1>9. Written => InOrder(localOut', Len(got["app"]))
  <2>1. Written => InOrder(localOut, Len(got["app"]))
    BY <1>0 DEF ToApp
  <2>2. ASSUME Written, sessions
        PROVE  InOrder(Append(localOut, frame), Len(got["app"]))
    <3> DEFINE g == Len(got["app"])
    <3>1. frame \in Data => frame.no = g + Carried(localOut) + 1 /\ ~ Has(localOut, Close)
      BY <1>1, <1>5, <1>7, <2>2
    <3>2. g \in Nat /\ InOrder(localOut, g)
      BY <1>1, <2>1, <2>2
    <3> HIDE DEF g
    <3>3. InOrder(Append(localOut, frame), g)
      BY <1>1, <1>3, <3>1, <3>2, AddLast
    <3> QED
      BY <3>3 DEF g
  <2> QED
    BY <1>7, <2>1, <2>2
<1>10. ToApp(m + 1, n)'
  <2>1. Written' => Written
    BY <1>4 DEF Written
  <2>2. Written' /\ sessions' => m + 1 = Len(got["app"]) + Len(localOut')
    <3> DEFINE g == Len(got["app"])
               l == Len(localOut)
    <3>1. Written' /\ sessions' => Len(localOut') = l + 1 /\ m = g + l
      BY <1>2, <1>7, <1>8, <2>1
    <3>2. g \in Nat /\ l \in Nat
      BY <1>1
    <3> HIDE DEF g, l
    <3>3. Written' /\ sessions' => m + 1 = g + Len(localOut')
      BY <3>1, <3>2
    <3> QED
      BY <3>3 DEF g
  <2>3. link = "up" /\ albReader = "run" => n = m + 1 + Len(toAgent')
    BY <1>0, <1>1, <1>6 DEF ToApp
  <2>4. InOrder(got["app"], 0) /\ InOrder(inbound["browser"], n)
    BY <1>0 DEF ToApp
  <2> QED
    BY <1>3, <1>4, <1>5, <1>9, <2>1, <2>2, <2>3, <2>4 DEF ToApp
<1>11. CloseToApp(m + 1, n)'
  <2>1. ASSUME far["browser"] = "closed", sessions', NEW i \in 1 .. Len(toAgent'),
               toAgent'[i] = Close
        PROVE  (m + 1) + i = sent["browser"] + 1 \/ (i > 1 /\ toAgent'[i - 1] = Close)
    <3>1. /\ sessions /\ frame # Close /\ toAgent[i + 1] = Close
          /\ i + 1 \in 1 .. Len(toAgent)
      <4>1. sessions /\ frame # Close
        BY <1>2, <2>1
      <4>2. i + 1 \in 1 .. Len(toAgent)
        BY <1>1, <1>6, <2>1
      <4> QED
        BY <1>6, <2>1, <4>1, <4>2
    <3>2. m + (i + 1) = sent["browser"] + 1 \/ (i + 1 > 1 /\ toAgent[i] = Close)
      BY <1>0, <2>1, <3>1 DEF CloseToApp
    <3>3. CASE m + (i + 1) = sent["browser"] + 1
      BY <3>3
    <3>4. CASE toAgent[i] = Close
      <4>1. i # 1
        BY <1>6, <3>1, <3>4
      <4>2. i - 1 \in 1 .. Len(toAgent') /\ toAgent'[i - 1] = toAgent[i]
        BY <1>1, <1>6, <2>1, <4>1
      <4> QED
        BY <3>4, <4>1, <4>2
    <3> QED
      BY <3>2, <3>3, <3>4
  <2>2. ASSUME far["browser"] = "closed", Written, NEW i \in 1 .. Len(localOut'),
               localOut'[i] = Close
        PROVE  Len(got["app"]) + i = sent["browser"] + 1
    <3>1. CASE i \in 1 .. Len(localOut) /\ localOut[i] = Close
      BY <1>0, <2>2, <3>1 DEF CloseToApp
    <3>2. CASE sessions /\ i = Len(localOut) + 1 /\ frame = Close
      <4>1. m + 1 = sent["browser"] + 1
        <5>1. 1 \in 1 .. Len(toAgent) /\ toAgent[1] = Close
          BY <1>1, <1>6, <3>2
        <5> QED
          BY <1>0, <2>2, <3>2, <5>1 DEF CloseToApp
      <4> DEFINE g == Len(got["app"])
                 l == Len(localOut)
      <4>2. m = g + l /\ i = l + 1 /\ g \in Nat /\ l \in Nat
        BY <1>1, <1>7, <2>2, <3>2
      <4> HIDE DEF g, l
      <4>3. g + i = sent["browser"] + 1
        BY <4>1, <4>2
      <4> QED
        BY <4>3 DEF g
    <3>3. CASE ~ sessions
      BY <1>7, <2>2, <3>1, <3>3
    <3>4. CASE sessions
      <4>1. localOut' = Append(localOut, frame)
        BY <1>7, <2>2, <3>4
      <4>2. i \in 1 .. Len(localOut) \/ i = Len(localOut) + 1
        BY <1>1, <1>8, <2>2, <4>1
      <4> QED
        BY <1>8, <2>2, <3>1, <3>2, <3>4, <4>1, <4>2
    <3> QED
      BY <3>3, <3>4
  <2>3. Written' => Written
    BY <1>4 DEF Written
  <2> QED
    BY <1>0, <1>4, <2>1, <2>2, <2>3 DEF CloseToApp
<1>12. m + 1 \in Nat
  OBVIOUS
<1> QED
  BY <1>10, <1>11, <1>12 DEF PathToApp

\* The session's writer takes the next frame from its queue to the application.
LEMMA LocalWriterToApp ==
    ASSUME TunnelInv, LocalWriter
    PROVE  PathToApp'
<1> USE DEF TunnelInv, serverVars, linkVars
<1>0. PICK m, n \in Nat : ToApp(m, n) /\ CloseToApp(m, n)
  BY DEF PathToApp
<1>1. /\ localOut \in Seq(WsFrames) /\ Carried(localOut) = Len(localOut)
      /\ got["app"] \in Seq(WsFrames) /\ Carried(got["app"]) = Len(got["app"])
      /\ Len(localOut) \in Nat /\ Len(got["app"]) \in Nat /\ sent["browser"] \in Nat
      /\ {"browser", "app"} = Ends
  BY QueuesToApp DEF Ends
<1>2. /\ writer = "run"
      /\ UNCHANGED <<sessions, toAgent, link, albReader>>
  BY DEF LocalWriter
<1>3. CASE UNCHANGED farVars /\ (far["app"] # "open" \/ localOut' = localOut)
  <2>1. (Written' => Written) /\ (Written' => localOut' = localOut)
    BY <1>2, <1>3 DEF Written, farVars
  <2>2. ToApp(m, n)'
    BY <1>0, <1>2, <1>3, <2>1 DEF ToApp, farVars
  <2>3. CloseToApp(m, n)'
    BY <1>0, <1>2, <1>3, <2>1 DEF CloseToApp, farVars
  <2> QED
    BY <2>2, <2>3 DEF PathToApp
<1>4. CASE far["app"] = "open" /\ localOut # <<>>
  <2> DEFINE h == Head(localOut)
             g == Len(got["app"])
             l == Len(localOut)
             t == Len(Tail(localOut))
  <2>1. /\ Written /\ WriteSucceeds("app", h) /\ localOut' = Tail(localOut)
        /\ writer' = "run" /\ h \in WsFrames
    BY <1>1, <1>2, <1>4, ReadTypes DEF LocalWriter, WriteFails, Written
  <2>2. /\ got'["app"] = Append(got["app"], h) /\ sent' = sent
        /\ UNCHANGED <<far, inbound>>
    BY <1>1, <1>4, <2>1, WriteEffect
  <2>3. /\ h \notin Acks /\ (h = Close => h \notin Data) /\ ~ Has(got["app"], Close)
    BY <1>1, <1>4, <2>1, Kinds DEF WsFrames, ClosesInv, MapCloses
  <2>4. /\ InOrder(Tail(localOut), g + 1) /\ (h \in Data => h.no = g + 1)
    <3>1. InOrder(localOut, g) /\ g \in Nat
      BY <1>0, <1>1, <2>1 DEF ToApp
    <3> HIDE DEF g
    <3> QED
      BY <1>1, <1>4, <2>3, <3>1, TakeHead
  <2>5. InOrder(got'["app"], 0)
    <3>1. InOrder(got["app"], 0)
      BY <1>0 DEF ToApp
    <3>2. h \in Data => h.no = 0 + Carried(got["app"]) + 1 /\ ~ Has(got["app"], Close)
      BY <1>1, <2>3, <2>4
    <3> HIDE DEF h
    <3> QED
      BY <1>1, <2>1, <2>2, <2>3, <3>1, <3>2, AddLast
  <2>6. /\ Len(got'["app"]) = g + 1 /\ got'["app"][g + 1] = h
        /\ \A i \in 1 .. g : got'["app"][i] = got["app"][i]
    BY <1>1, <2>1, <2>2, AppendProperties
  <2>7. /\ t = l - 1 /\ l \in Nat \ {0} /\ g \in Nat /\ localOut[1] = h
        /\ \A i \in 1 .. t : Tail(localOut)[i] = localOut[i + 1]
    BY <1>1, <1>4, HeadTailProperties
  <2>8. ToApp(m, n)'
    <3>1. sessions => m = g + l
      BY <1>0, <2>1 DEF ToApp
    <3>2. sessions => m = Len(got'["app"]) + t
      <4> HIDE DEF g, l, t
      <4> QED
        BY <2>6, <2>7, <3>1
    <3> QED
      BY <1>0, <1>2, <2>1, <2>2, <2>4, <2>5, <2>6, <3>2 DEF ToApp
  <2>9. CloseToApp(m, n)'
    <3>1. ASSUME far["browser"] = "closed", NEW i \in 1 .. l, localOut[i] = Close
          PROVE  g + i = sent["browser"] + 1
      BY <1>0, <2>1, <3>1 DEF CloseToApp
    <3>2. ASSUME far["browser"] = "closed", NEW i \in 1 .. t, Tail(localOut)[i] = Close
          PROVE  Len(got'["app"]) + i = sent["browser"] + 1
      <4>1. i + 1 \in 1 .. l /\ localOut[i + 1] = Close
        BY <2>7, <3>2
      <4>2. g + (i + 1) = sent["browser"] + 1
        BY <3>1, <3>2, <4>1
      <4> HIDE DEF g, t
      <4> QED
        BY <2>6, <2>7, <4>2
    <3>3. ASSUME far["browser"] = "closed", NEW i \in 1 .. Len(got'["app"]),
                 got'["app"][i] = Close
          PROVE  i = sent["browser"] + 1
      <4>1. i = g + 1 /\ h = Close
        BY <2>3, <2>6, <2>7, <3>3 DEF Has
      <4> QED
        BY <2>7, <3>1, <3>3, <4>1
    <3> QED
      BY <1>0, <1>2, <2>1, <2>2, <3>2, <3>3 DEF CloseToApp
  <2> QED
    BY <2>8, <2>9 DEF PathToApp
<1>5. far["app"] # "open" => UNCHANGED farVars
  BY DEF LocalWriter, WriteSucceeds, WriteFails, farVars
<1>6. localOut = <<>> => UNCHANGED farVars /\ localOut' = localOut
  BY DEF LocalWriter
<1> QED
  BY <1>3, <1>4, <1>5, <1>6

LEMMA AgentToApp ==
    ASSUME TunnelInv, AgentLoopStep \/ LocalReader \/ CleanUpSession \/ LinkLost
    PROVE  PathToApp'
<1> USE DEF TunnelInv, serverVars, agentVars, linkVars, farVars
<1>0. PICK m, n \in Nat : ToApp(m, n) /\ CloseToApp(m, n)
  BY DEF PathToApp
<1>1. /\ far \in [Ends -> {"absent", "open", "closed", "reset"}]
      /\ inbound \in [Ends -> Seq(WsFrames)] /\ {"browser", "app"} = Ends
      /\ toAgent \in Seq(WsFrames \cup {Frame("init")})
  BY DEF Types, Ends
<1>2. CASE HandleInit
  <2>1. init = "none" /\ toAgent # <<>> /\ toAgent' = Tail(toAgent)
    BY <1>2, TakenFromServer DEF HandleInit, AgentInv
  <2>2. albReader = "none" /\ m = 0 /\ n = 0
    BY <1>0, <2>1, NotYetAnswered DEF ToApp
  <2>3. toAgent' = <<>> /\ InOrder(toAgent', 0) /\ ~ Has(toAgent', Close)
    <3>1. toAgent = <<Frame("init")>>
      BY <2>1, <2>2 DEF AgentInv
    <3>2. Tail(<<Frame("init")>>) = <<>>
      OBVIOUS
    <3>3. toAgent' = <<>>
      BY <2>1, <3>1, <3>2
    <3> QED
      BY <3>3, EmptyQueue
  <2>4. UNCHANGED <<far, sent, inbound, got, sessions, localOut, writer, link, albReader>>
    BY <1>2 DEF HandleInit
  <2>5. ToApp(m, n)'
    BY <1>0, <2>2, <2>3, <2>4 DEF ToApp, Written
  <2>6. CloseToApp(m, n)'
    BY <1>0, <2>3, <2>4 DEF CloseToApp, Written, Has
  <2> QED
    BY <2>5, <2>6 DEF PathToApp
<1>3. CASE ConnectToLocal
  <2>1. /\ albReader = "none" /\ m = 0 /\ n = 0 /\ localOut = <<>> /\ got["app"] = <<>>
        /\ ~ Has(toAgent, Close) /\ ~ Has(localOut, Close)
    BY <1>0, <1>3, NotYetAnswered, EmptyQueue
    DEF ConnectToLocal, AgentInv, ToApp, ClosesInv, ReaderCloses
  <2>2. /\ UNCHANGED <<sent, inbound, got, localOut, toAgent, link, albReader>>
        /\ far'["browser"] = far["browser"]
    BY <1>1, <1>3 DEF ConnectToLocal
  <2>3. InOrder(<<>>, 0) /\ Len(<<>>) = 0
    BY EmptyQueue
  <2>4. ToApp(m, n)'
    BY <1>0, <2>1, <2>2, <2>3 DEF ToApp
  <2>5. CloseToApp(m, n)'
    BY <1>0, <2>1, <2>2 DEF CloseToApp, Has
  <2> QED
    BY <2>4, <2>5 DEF PathToApp
<1>4. CASE AcknowledgeInit \/ LocalReader \/ CleanUpSession
  <2>1. /\ UNCHANGED <<far, sent, inbound["browser"], got, localOut, writer, toAgent, link,
                       albReader>>
        /\ sessions' => sessions
    BY <1>1, <1>4 DEF AcknowledgeInit, LocalReader, CleanUpSession
  <2> QED
    BY <1>0, <2>1, SameToApp DEF Written
<1>5. CASE HandleDataFromServer \/ HandleCloseFromServer
  BY <1>5, HandleFromServerToApp
<1>6. CASE LinkLost
  <2>1. /\ UNCHANGED <<far, sent, inbound, got, sessions, localOut, writer, albReader>>
        /\ link' = "down" /\ toAgent' \in Prefixes(toAgent)
    BY <1>6 DEF LinkLost
  <2>2. /\ InOrder(toAgent, m) => InOrder(toAgent', m)
        /\ Len(toAgent') \in 0 .. Len(toAgent)
        /\ \A i \in 1 .. Len(toAgent') : toAgent'[i] = toAgent[i]
    BY <1>1, <2>1, KeepPrefix
  <2>3. ToApp(m, n)'
    BY <1>0, <2>1, <2>2 DEF ToApp, Written
  <2>4. ASSUME sessions, far["browser"] = "closed", NEW i \in 1 .. Len(toAgent'),
               toAgent'[i] = Close
        PROVE  m + i = sent["browser"] + 1 \/ (i > 1 /\ toAgent'[i - 1] = Close)
    <3>1. i \in 1 .. Len(toAgent) /\ toAgent[i] = Close
      BY <2>2, <2>4
    <3>2. m + i = sent["browser"] + 1 \/ (i > 1 /\ toAgent[i - 1] = Close)
      BY <1>0, <2>4, <3>1 DEF CloseToApp
    <3>3. i > 1 => i - 1 \in 1 .. Len(toAgent')
      BY <2>2, <2>4
    <3> QED
      BY <2>2, <3>2, <3>3
  <2>5. CloseToApp(m, n)'
    BY <1>0, <2>1, <2>4 DEF CloseToApp, Written
  <2> QED
    BY <2>3, <2>5 DEF PathToApp
<1> QED
  BY <1>2, <1>3, <1>4, <1>5, <1>6 DEF AgentLoopStep

LEMMA NextPathToApp ==
    ASSUME TunnelInv, Next
    PROVE  PathToApp'
BY FarToApp, ServerToApp, AlbToAgentToApp, LocalWriterToApp, AgentToApp DEF Next

-----------------------------------------------------------------------------
(* From the application to the browser *)

\* Only the agent's connection carries acknowledgements among the frames.
LEMMA QueuesToBrowser ==
    ASSUME Types
    PROVE  /\ toServer \in Seq(WsFrames \cup Acks)
           /\ Len(toServer) \in Nat /\ Carried(toServer) \in Nat
           /\ \A i \in 1 .. Len(toServer) : Place(toServer, i) \in Nat
           /\ albOut \in Seq(WsFrames) /\ Carried(albOut) = Len(albOut)
           /\ got["browser"] \in Seq(WsFrames)
           /\ Carried(got["browser"]) = Len(got["browser"])
           /\ inbound["app"] \in Seq(WsFrames)
           /\ Carried(inbound["app"]) = Len(inbound["app"])
           /\ Len(albOut) \in Nat /\ Len(got["browser"]) \in Nat /\ Len(inbound["app"]) \in Nat
           /\ sent["app"] \in Nat
<1>1. /\ toServer \in Seq(WsFrames \cup Acks) /\ albOut \in Seq(WsFrames)
      /\ got["browser"] \in Seq(WsFrames) /\ inbound["app"] \in Seq(WsFrames)
      /\ sent["app"] \in 0 .. Frames
  BY DEF Types, Ends
<1>2. WsFrames \cap Acks = {}
  BY Kinds DEF WsFrames
<1>3. sent["app"] \in Nat
  BY <1>1, WsTunnelAssumption DEF WsTunnelAssumption
<1> QED
  BY <1>1, <1>2, <1>3, PlainPlace, PlacesAreNumbers

LEMMA SameToBrowser ==
    ASSUME NEW k \in Nat, NEW m \in Nat, NEW n \in Nat,
           ToBrowser(k, m, n), CloseToBrowser(k, m, n),
           UNCHANGED <<got["browser"], albOut, toServer, inbound["app"], sent["app"],
                       link, reader>>,
           far'["app"] \in {far["app"], "reset"},
           Shown' => Shown,
           ws_sessions' => ws_sessions
    PROVE  PathToBrowser'
<1>1. ToBrowser(k, m, n)'
  BY DEF ToBrowser
<1>2. CloseToBrowser(k, m, n)'
  BY DEF CloseToBrowser
<1> QED
  BY <1>1, <1>2 DEF PathToBrowser

\* A new last element that the application sends.
LEMMA AppSends ==
    ASSUME TunnelInv, NEW frame \in WsFrames, far["app"] = "open",
           inbound'["app"] = Append(inbound["app"], frame),
           frame = Close => far'["app"] = "closed" /\ sent'["app"] = sent["app"],
           frame # Close => /\ far'["app"] = "open"
                            /\ frame.no = sent["app"] + 1
                            /\ sent'["app"] = sent["app"] + 1,
           UNCHANGED <<got["browser"], albOut, toServer, link, reader, ws_sessions, albWriter,
                       far["browser"]>>
    PROVE  PathToBrowser'
<1> DEFINE queue == inbound["app"]
<1>0. PICK k, m, n \in Nat : ToBrowser(k, m, n) /\ CloseToBrowser(k, m, n)
  BY DEF TunnelInv, PathToBrowser
<1>1. /\ reader # "done" /\ ~ Has(queue, Close)
      /\ ~ Has(toServer, Close) /\ ~ Has(albOut, Close) /\ ~ Has(got["browser"], Close)
  BY DEF TunnelInv, AgentInv, ClosesInv, EndCloses, ReaderCloses, Ends
<1>2. /\ queue \in Seq(WsFrames) /\ Carried(queue) = Len(queue) /\ Len(queue) \in Nat
      /\ sent["app"] \in Nat /\ n + Len(queue) = sent["app"]
  BY <1>0, QueuesToBrowser DEF TunnelInv, CloseToBrowser
<1>3. /\ Len(Append(queue, frame)) = Len(queue) + 1
      /\ frame = Close => Has(Append(queue, frame), Close)
  BY <1>2, AppendProperties, AddLastHas
<1>4. InOrder(Append(queue, frame), n)
  <2>1. frame \notin Acks /\ InOrder(queue, n) /\ (frame \in Data => frame # Close)
    BY <1>0, Kinds DEF WsFrames, ToBrowser
  <2>2. frame \in Data => frame.no = n + Carried(queue) + 1 /\ ~ Has(queue, Close)
    BY <1>1, <1>2, <2>1
  <2> QED
    BY <1>2, <2>1, <2>2, AddLast
<1>5. ToBrowser(k, m, n)'
  BY <1>0, <1>4 DEF ToBrowser, Shown
<1>6. CloseToBrowser(k, m, n)'
  <2>1. CASE frame = Close
    BY <1>1, <1>2, <1>3, <2>1 DEF CloseToBrowser, Has
  <2>2. CASE frame # Close
    BY <1>2, <1>3, <2>2 DEF CloseToBrowser
  <2> QED
    BY <2>1, <2>2
<1> QED
  BY <1>5, <1>6 DEF PathToBrowser

LEMMA FarToBrowser ==
    ASSUME TunnelInv, FarStep
    PROVE  PathToBrowser'
<1> USE DEF TunnelInv, serverVars, agentVars, linkVars
<1>0. PICK k, m, n \in Nat : ToBrowser(k, m, n) /\ CloseToBrowser(k, m, n)
  BY DEF PathToBrowser
<1>1. /\ far \in [Ends -> {"absent", "open", "closed", "reset"}]
      /\ sent \in [Ends -> 0 .. Frames] /\ inbound \in [Ends -> Seq(WsFrames)]
      /\ {"browser", "app"} = Ends
  BY DEF Types, Ends
<1>2. CASE FarSends("browser") \/ FarCloses("browser") \/ FarResets("browser")
  <2>1. UNCHANGED <<got, albOut, toServer, inbound["app"], sent["app"], link, reader,
                    far["app"], albWriter, ws_sessions>>
    BY <1>1, <1>2 DEF FarSends, FarCloses, FarResets
  <2>2. Shown' => Shown
    BY <1>1, <1>2 DEF FarSends, FarCloses, FarResets, Speaks, Shown
  <2> QED
    BY <1>0, <2>1, <2>2, SameToBrowser
<1>3. CASE FarSends("app")
  <2>1. sent["app"] + 1 \in 1 .. Frames
    BY <1>1, <1>3, WsTunnelAssumption DEF FarSends, WsTunnelAssumption
  <2>2. DataFrame(sent["app"] + 1) \in Data
    BY <2>1 DEF Data
  <2>3. DataFrame(sent["app"] + 1).no = sent["app"] + 1
    BY DEF DataFrame
  <2>4. /\ sent'["app"] = sent["app"] + 1 /\ far' = far /\ far["app"] = "open"
        /\ inbound'["app"] = Append(inbound["app"], DataFrame(sent["app"] + 1))
        /\ UNCHANGED <<got, albOut, toServer, link, reader, ws_sessions, albWriter>>
    BY <1>1, <1>3 DEF FarSends, Speaks
  <2> QED
    BY <2>2, <2>3, <2>4, Kinds, AppSends DEF WsFrames
<1>4. CASE FarCloses("app")
  <2>1. /\ sent' = sent /\ far'["app"] = "closed" /\ far["app"] = "open"
        /\ far'["browser"] = far["browser"]
        /\ inbound'["app"] = Append(inbound["app"], Close)
        /\ UNCHANGED <<got, albOut, toServer, link, reader, ws_sessions, albWriter>>
    BY <1>1, <1>4 DEF FarCloses, Speaks
  <2> QED
    BY <2>1, AppSends DEF WsFrames
<1>5. CASE FarResets("app")
  <2>1. PICK rest \in Prefixes(inbound["app"]) : inbound' = [inbound EXCEPT !["app"] = rest]
    BY <1>5 DEF FarResets
  <2>2. InOrder(rest, n)
    BY <1>0, <1>1, <2>1, KeepPrefix DEF ToBrowser
  <2>3. /\ far'["app"] = "reset" /\ far'["browser"] = far["browser"]
        /\ inbound'["app"] = rest
        /\ UNCHANGED <<got, albOut, toServer, link, reader, ws_sessions, albWriter, sent>>
    BY <1>1, <1>5, <2>1 DEF FarResets
  <2>4. ToBrowser(k, m, n)'
    BY <1>0, <2>2, <2>3 DEF ToBrowser, Shown
  <2>5. CloseToBrowser(k, m, n)'
    BY <2>3 DEF CloseToBrowser
  <2> QED
    BY <2>4, <2>5 DEF PathToBrowser
<1> QED
  BY <1>1, <1>2, <1>3, <1>4, <1>5 DEF FarStep, Ends

\* The agent's side of the path, up to the connection.
LEMMA AgentToBrowser ==
    ASSUME TunnelInv, AgentLoopStep \/ LocalWriter \/ CleanUpSession
    PROVE  PathToBrowser'
<1> USE DEF TunnelInv, serverVars, farVars
<1>0. PICK k, m, n \in Nat : ToBrowser(k, m, n) /\ CloseToBrowser(k, m, n)
  BY DEF PathToBrowser
<1>1. /\ far \in [Ends -> {"absent", "open", "closed", "reset"}]
      /\ inbound \in [Ends -> Seq(WsFrames)] /\ {"browser", "app"} = Ends
      /\ toServer \in Seq(WsFrames \cup Acks)
  BY DEF Types, Ends
<1>2. CASE HandleInit \/ HandleDataFromServer \/ HandleCloseFromServer \/ CleanUpSession
  <2>1. UNCHANGED <<far, sent, inbound, got, albOut, albWriter, ws_sessions, toServer, link,
                    reader>>
    BY <1>2 DEF HandleInit, HandleDataFromServer, HandleCloseFromServer, CleanUpSession,
                linkVars
  <2> QED
    BY <1>0, <2>1, SameToBrowser DEF Shown
<1>3. CASE ConnectToLocal
  <2>1. /\ far["app"] = "absent" /\ toServer = <<>> /\ reader = "none"
        /\ sent["app"] = 0 /\ inbound["app"] = <<>> /\ m = 0 /\ n = 0
    BY <1>0, <1>3 DEF ConnectToLocal, AgentInv, ToBrowser
  <2>2. /\ UNCHANGED <<sent, inbound, got, albOut, albWriter, ws_sessions, link>>
        /\ far'["browser"] = far["browser"]
    BY <1>1, <1>3 DEF ConnectToLocal
  <2>3. /\ InOrder(<<>>, 0) /\ Carried(<<>>) = 0 /\ Len(<<>>) = 0
        /\ \A x : ~ Has(<<>>, x)
    BY EmptyQueue
  <2>4. CASE init' = "spawned"
    <3>1. toServer' = <<>> /\ far'["app"] = "open" /\ reader' = "run"
      BY <1>1, <1>3, <2>1, <2>4 DEF ConnectToLocal
    <3>2. ToBrowser(k, m, n)'
      BY <1>0, <2>1, <2>2, <2>3, <3>1 DEF ToBrowser, Shown
    <3>3. CloseToBrowser(k, m, n)'
      BY <1>0, <2>1, <2>2, <2>3, <3>1 DEF CloseToBrowser
    <3> QED
      BY <3>2, <3>3 DEF PathToBrowser
  <2>5. CASE init' = "over"
    <3>1. /\ far' = far /\ reader' = "none"
          /\ toServer' = <<>> \/ toServer' = Append(<<>>, Frame("fail"))
      BY <1>3, <2>1, <2>5 DEF ConnectToLocal, SendToServer
    <3>2. InOrder(Append(<<>>, Frame("fail")), 0)
      <4>1. <<>> \in Seq(Acks) /\ Frame("fail") \in Acks /\ Frame("fail") \notin Data
        BY Kinds DEF Acks
      <4> QED
        BY <2>3, <4>1, AddLast
    <3>3. ToBrowser(k, m, n)'
      BY <1>0, <2>1, <2>2, <2>3, <3>1, <3>2 DEF ToBrowser, Shown
    <3>4. CloseToBrowser(k, m, n)'
      BY <2>1, <3>1 DEF CloseToBrowser
    <3> QED
      BY <3>3, <3>4 DEF PathToBrowser
  <2> QED
    BY <1>3, <2>4, <2>5 DEF ConnectToLocal
<1>4. CASE AcknowledgeInit
  <2>1. UNCHANGED <<far, sent, inbound, got, albOut, albWriter, ws_sessions, link, reader>>
    BY <1>4 DEF AcknowledgeInit
  <2>2. toServer' = toServer \/ toServer' = Append(toServer, Frame("ok"))
    BY <1>4 DEF AcknowledgeInit, SendToServer
  <2>3. CASE toServer' = toServer
    BY <1>0, <2>1, <2>3, SameToBrowser DEF Shown
  <2>4. CASE toServer' = Append(toServer, Frame("ok"))
    <3>1. /\ Frame("ok") \in Acks /\ Frame("ok") \notin Data /\ Frame("ok") # Close
          /\ \A x \in Acks : ~ Has(toServer, x)
      BY <1>4, Kinds DEF Acks, AcknowledgeInit, AgentInv
    <3>2. InOrder(toServer, m)
      BY <1>0 DEF ToBrowser
    <3>3. /\ InOrder(toServer', m) /\ Carried(toServer') = Carried(toServer)
          /\ \A i \in 1 .. Len(toServer) : Place(toServer', i) = Place(toServer, i)
      BY <1>1, <2>4, <3>1, <3>2, AddLast
    <3>4. \A i \in 1 .. Len(toServer') : toServer'[i] = Close =>
              i \in 1 .. Len(toServer) /\ toServer[i] = Close
      BY <1>1, <2>4, <3>1, AppendProperties
    <3>5. ToBrowser(k, m, n)'
      BY <1>0, <2>1, <3>3 DEF ToBrowser, Shown
    <3>6. CloseToBrowser(k, m, n)'
      BY <1>0, <2>1, <3>3, <3>4 DEF CloseToBrowser, Shown
    <3> QED
      BY <3>5, <3>6 DEF PathToBrowser
  <2> QED
    BY <2>2, <2>3, <2>4
<1>5. CASE LocalWriter
  <2>1. UNCHANGED <<ws_sessions, albOut, albWriter, toServer, link, reader>>
    BY <1>5 DEF LocalWriter, linkVars
  <2>2. CASE UNCHANGED farVars
    BY <1>0, <2>1, <2>2, SameToBrowser DEF Shown
  <2>3. CASE localOut # <<>> /\ ~ UNCHANGED farVars
    <3>1. UNCHANGED <<far, sent, inbound>> /\ got'["browser"] = got["browser"]
      BY <1>1, <1>5, <2>3, WriteEffect DEF LocalWriter
    <3> QED
      BY <1>0, <2>1, <3>1, SameToBrowser DEF Shown
  <2> QED
    BY <1>5, <2>2, <2>3 DEF LocalWriter
<1> QED
  BY <1>2, <1>3, <1>4, <1>5 DEF AgentLoopStep

\* The session's reader takes the application's next frame to the connection.
LEMMA LocalReaderToBrowser ==
    ASSUME TunnelInv, LocalReader
    PROVE  PathToBrowser'
<1> DEFINE queue == inbound["app"]
           sum == Carried(toServer)
           l == Len(queue)
           t == Len(Tail(queue))
<1> USE DEF TunnelInv, serverVars
<1>0. PICK k, m, n \in Nat : ToBrowser(k, m, n) /\ CloseToBrowser(k, m, n)
  BY DEF PathToBrowser
<1>1. /\ queue \in Seq(WsFrames) /\ l \in Nat /\ Carried(queue) = l
      /\ toServer \in Seq(WsFrames \cup Acks) /\ sum \in Nat
      /\ Len(toServer) \in Nat /\ sent["app"] \in Nat
      /\ inbound \in [Ends -> Seq(WsFrames)] /\ {"browser", "app"} = Ends
  BY QueuesToBrowser DEF Types, Ends
<1>2. /\ reader = "run" /\ reader' \in {"run", "done"} /\ ~ Has(toServer, Close)
      /\ UNCHANGED <<far, sent, got, ws_sessions, albOut, albWriter, link>>
  BY DEF LocalReader, ClosesInv, ReaderCloses
<1>3. CASE queue = <<>>
  <2>1. /\ far["app"] = "reset" /\ inbound' = inbound /\ toServer' = toServer
        /\ reader' = "done"
    BY <1>3 DEF LocalReader
  <2>2. ToBrowser(k, m, n)'
    BY <1>0, <1>2, <2>1 DEF ToBrowser, Shown
  <2>3. CloseToBrowser(k, m, n)'
    BY <1>2, <2>1 DEF CloseToBrowser
  <2> QED
    BY <2>2, <2>3 DEF PathToBrowser
<1>4. CASE queue # <<>>
  <2> DEFINE h == Head(queue)
  <2>1. /\ inbound'["app"] = Tail(queue) /\ SendToServer(h)
        /\ reader' = IF h = Close THEN "done" ELSE "run"
    BY <1>1, <1>4 DEF LocalReader
  <2>2. /\ h \in WsFrames /\ h \notin Acks /\ t = l - 1
        /\ h # Close => h \in Data
        /\ Close \notin Data
    BY <1>1, <1>4, Kinds, HeadTailProperties DEF WsFrames
  <2>3. /\ InOrder(Tail(queue), n + 1) /\ (h \in Data => h.no = n + 1)
    <3>1. InOrder(queue, n)
      BY <1>0 DEF ToBrowser
    <3> QED
      BY <1>1, <1>4, <2>2, <3>1, TakeHead
  <2>4. /\ Has(queue, Close) /\ h # Close => Has(Tail(queue), Close)
        /\ h = Close => t = 0
    <3>1. CloseLast(queue)
      BY <1>1 DEF ClosesInv, EndCloses
    <3>2. h = Close => Tail(queue) = <<>>
      BY <1>1, <1>4, <3>1, TakeHeadHas
    <3>3. h = Close => t = 0
      BY <3>2, EmptySeq
    <3> QED
      BY <1>1, <1>4, <3>3, TakeHeadHas
  <2>5. link = "up" => toServer' = Append(toServer, h) /\ n = m + sum
    BY <1>0, <1>2, <2>1 DEF SendToServer, ToBrowser
  <2>6. link # "up" => toServer' = toServer
    BY <2>1 DEF SendToServer
  <2>7. /\ InOrder(toServer, m)
        /\ link = "up" => InOrder(toServer', m) /\ Carried(toServer') = sum + 1
    <3>1. InOrder(toServer, m)
      BY <1>0 DEF ToBrowser
    <3>2. ASSUME link = "up"
          PROVE  InOrder(Append(toServer, h), m) /\ Carried(Append(toServer, h)) = sum + 1
      <4>1. h \in Data => h.no = m + Carried(toServer) + 1 /\ ~ Has(toServer, Close)
        BY <1>1, <1>2, <2>3, <2>5, <3>2
      <4>2. h \in WsFrames \cup Acks /\ h \notin Acks
        BY <2>2
      <4>3. toServer \in Seq(WsFrames \cup Acks)
        BY <1>1
      <4> HIDE DEF h
      <4> QED
        BY <3>1, <4>1, <4>2, <4>3, AddLast
    <3> QED
      BY <2>5, <3>1, <3>2
  <2>8. ToBrowser(k, m, n + 1)'
    <3>1. link = "up" => n + 1 = m + Carried(toServer')
      <4>1. link = "up" => Carried(toServer') = sum + 1 /\ n = m + sum
        BY <2>5, <2>7
      <4> HIDE DEF sum
      <4> QED
        BY <1>1, <4>1
    <3> QED
      BY <1>0, <1>2, <2>1, <2>3, <2>6, <2>7, <3>1 DEF ToBrowser, Shown
  <2>9. CloseToBrowser(k, m, n + 1)'
    <3>1. far["app"] = "open" => n + 1 + t = sent["app"]
      <4>1. far["app"] = "open" => n + l = sent["app"]
        BY <1>0 DEF CloseToBrowser
      <4> HIDE DEF l, t
      <4> QED
        BY <1>1, <2>2, <4>1
    <3>2. far["app"] = "closed" => n + 1 + t = sent["app"] + 1 /\ Has(queue, Close)
      <4>1. far["app"] = "closed" => n + l = sent["app"] + 1 /\ Has(queue, Close)
        BY <1>0, <1>2 DEF CloseToBrowser
      <4> HIDE DEF l, t
      <4> QED
        BY <1>1, <2>2, <4>1
    <3>3. ASSUME NEW i \in 1 .. Len(toServer'), toServer'[i] = Close, far["app"] = "closed"
          PROVE  m + Place(toServer', i) = sent["app"] + 1
      <4>1. \A j \in 1 .. Len(toServer) : toServer[j] # Close
        BY <1>2 DEF Has
      <4>2. link = "up"
        BY <2>6, <3>3, <4>1
      <4>3. /\ Len(toServer') = Len(toServer) + 1 /\ toServer'[Len(toServer) + 1] = h
            /\ \A j \in 1 .. Len(toServer) : toServer'[j] = toServer[j]
        BY <1>1, <2>2, <2>5, <4>2, AppendProperties
      <4>4. i = Len(toServer') /\ h = Close
        BY <1>1, <3>3, <4>1, <4>3
      <4>5. Place(toServer', i) = sum + 1 /\ t = 0 /\ n = m + sum
        BY <2>4, <2>5, <2>7, <4>2, <4>4 DEF Carried
      <4>6. n + 1 + t = sent["app"] + 1
        BY <3>2, <3>3
      <4> HIDE DEF t, sum
      <4> QED
        BY <1>1, <4>5, <4>6
    <3> QED
      BY <1>0, <1>2, <2>1, <2>4, <3>1, <3>2, <3>3 DEF CloseToBrowser, Shown
  <2>10. n + 1 \in Nat
    OBVIOUS
  <2> QED
    BY <2>8, <2>9, <2>10 DEF PathToBrowser
<1> QED
  BY <1>3, <1>4

\* handle_websocket_message takes the next frame to the session's queue.
LEMMA HandleFromAgentToBrowser ==
    ASSUME TunnelInv, HandleDataFromAgent \/ HandleCloseFromAgent
    PROVE  PathToBrowser'
<1> DEFINE g == Len(got["browser"])
           l == Len(albOut)
<1> USE DEF TunnelInv, agentVars, farVars
<1>0. PICK k, m, n \in Nat : ToBrowser(k, m, n) /\ CloseToBrowser(k, m, n)
  BY DEF PathToBrowser
<1>1. /\ toServer \in Seq(WsFrames \cup Acks) /\ Len(toServer) \in Nat
      /\ Carried(toServer) \in Nat
      /\ \A i \in 1 .. Len(toServer) : Place(toServer, i) \in Nat
      /\ albOut \in Seq(WsFrames) /\ Carried(albOut) = l
      /\ l \in Nat /\ g \in Nat /\ sent["app"] \in Nat
  BY QueuesToBrowser
<1>2. PICK frame \in WsFrames :
          /\ TakeFromAgent(frame) /\ QueueForBrowser(frame)
          /\ frame # Close => ws_sessions' = ws_sessions
          /\ frame = Close => ~ ws_sessions'
  BY Kinds DEF HandleDataFromAgent, HandleCloseFromAgent, WsFrames
<1>3. /\ toServer # <<>> /\ Head(toServer) = frame /\ toServer' = Tail(toServer)
      /\ frame \notin Acks /\ (frame = Close => frame \notin Data)
  <2>1. toServer # <<>> /\ Head(toServer) = frame /\ toServer' = Tail(toServer)
    BY <1>2, TakenFromAgent
  <2>2. frame \notin Acks /\ (frame = Close => frame \notin Data)
    BY Kinds DEF WsFrames
  <2> QED
    BY <2>1, <2>2
<1>4. UNCHANGED <<far, sent, inbound, got, albWriter, link, reader>>
  BY DEF HandleDataFromAgent, HandleCloseFromAgent
\* Only a reader sends frames.
<1>5. reader # "none"
  <2>1. Head(<<Frame("fail")>>) = Frame("fail") /\ Frame("fail") \in Acks
    BY DEF Acks
  <2>2. toServer # <<Frame("fail")>>
    BY <1>3, <2>1
  <2> QED
    BY <1>3, <2>2 DEF AgentInv
<1>6. /\ InOrder(toServer', m + 1) /\ (frame \in Data => frame.no = m + 1)
      /\ Carried(toServer) = Carried(toServer') + 1
      /\ \A i \in 1 .. Len(toServer') : Place(toServer, i + 1) = Place(toServer', i) + 1
  <2>1. InOrder(toServer, m)
    BY <1>0 DEF ToBrowser
  <2> QED
    BY <1>1, <1>3, <2>1, TakeHead
<1>7. /\ Len(toServer') = Len(toServer) - 1 /\ Len(toServer) > 0 /\ toServer[1] = frame
      /\ \A i \in 1 .. Len(toServer') : toServer'[i] = toServer[i + 1]
      /\ toServer' \in Seq(WsFrames \cup Acks)
  BY <1>1, <1>3, HeadTailProperties
<1>8. Shown => IF ws_sessions
               THEN /\ albOut' = Append(albOut, frame) /\ m = k + g + l
                    /\ ~ Has(albOut, Close)
               ELSE albOut' = albOut
  <2>1. Shown /\ ws_sessions => m = k + g + l
    BY <1>0 DEF ToBrowser
  <2>2. ws_sessions => ~ Has(albOut, Close)
    BY DEF ClosesInv, MapCloses
  <2>3. Shown => albOut' = IF ws_sessions THEN Append(albOut, frame) ELSE albOut
    BY <1>2 DEF QueueForBrowser, Shown
  <2> QED
    BY <2>1, <2>2, <2>3
<1>9. /\ Len(Append(albOut, frame)) = l + 1
      /\ Append(albOut, frame)[l + 1] = frame
      /\ \A i \in 1 .. l : Append(albOut, frame)[i] = albOut[i]
  BY <1>1, AppendProperties
<1>10. Shown' => Shown
  BY <1>4 DEF Shown
<1>11. Shown => InOrder(albOut', k + g)
  <2>1. Shown => InOrder(albOut, k + g)
    BY <1>0 DEF ToBrowser
  <2>2. ASSUME Shown, ws_sessions
        PROVE  InOrder(Append(albOut, frame), k + g)
    <3>1. frame \in Data => frame.no = (k + g) + Carried(albOut) + 1 /\ ~ Has(albOut, Close)
      <4>1. m = k + g + l /\ ~ Has(albOut, Close)
        BY <1>8, <2>2
      <4> HIDE DEF g, l
      <4> QED
        BY <1>1, <1>6, <4>1
    <3>2. k + g \in Nat /\ InOrder(albOut, k + g)
      BY <1>1, <2>1, <2>2
    <3> HIDE DEF g
    <3> QED
      BY <1>1, <1>3, <3>1, <3>2, AddLast
  <2> QED
    BY <1>8, <2>1, <2>2
<1>12. ToBrowser(k, m + 1, n)'
  <2>1. Shown' /\ ws_sessions' => m + 1 = k + g + Len(albOut')
    <3>1. Shown' /\ ws_sessions' => Len(albOut') = l + 1 /\ m = k + g + l
      BY <1>2, <1>8, <1>9, <1>10
    <3> HIDE DEF g, l
    <3> QED
      BY <1>1, <3>1
  <2>2. link = "up" /\ reader = "run" => n = (m + 1) + Carried(toServer')
    <3> DEFINE c == Carried(toServer')
    <3>1. c \in Nat /\ Carried(toServer) = c + 1
      BY <1>6, <1>7, PlacesAreNumbers
    <3>2. link = "up" /\ reader = "run" => n = m + (c + 1)
      BY <1>0, <3>1 DEF ToBrowser
    <3> HIDE DEF c
    <3>3. link = "up" /\ reader = "run" => n = (m + 1) + c
      BY <3>1, <3>2
    <3> QED
      BY <3>3 DEF c
  <2>3. InOrder(got["browser"], k) /\ InOrder(inbound["app"], n)
    BY <1>0 DEF ToBrowser
  <2> QED
    BY <1>4, <1>5, <1>6, <1>10, <1>11, <2>1, <2>2, <2>3 DEF ToBrowser
<1>13. CloseToBrowser(k, m + 1, n)'
  <2>1. ASSUME far["app"] = "closed", NEW i \in 1 .. Len(toServer'), toServer'[i] = Close
        PROVE  (m + 1) + Place(toServer', i) = sent["app"] + 1
    <3> DEFINE p == Place(toServer', i)
    <3>1. i + 1 \in 1 .. Len(toServer) /\ toServer[i + 1] = Close
      BY <1>1, <1>7, <2>1
    <3>2. m + Place(toServer, i + 1) = sent["app"] + 1
      BY <1>0, <2>1, <3>1 DEF CloseToBrowser
    <3>3. p \in Nat /\ m + (p + 1) = sent["app"] + 1
      BY <1>6, <1>7, <2>1, <3>2, PlacesAreNumbers
    <3> HIDE DEF p
    <3>4. (m + 1) + p = sent["app"] + 1
      BY <3>3
    <3> QED
      BY <3>4 DEF p
  <2>2. ASSUME far["app"] = "closed", Shown, NEW i \in 1 .. Len(albOut'),
               albOut'[i] = Close
        PROVE  k + g + i = sent["app"] + 1
    <3>1. CASE i \in 1 .. l /\ albOut[i] = Close
      BY <1>0, <2>2, <3>1 DEF CloseToBrowser
    <3>2. CASE ws_sessions /\ i = l + 1 /\ frame = Close
      <4>1. m + 1 = sent["app"] + 1
        <5>1. 1 \in 1 .. Len(toServer) /\ toServer[1] = Close
          BY <1>1, <1>7, <3>2
        <5>2. Place(toServer, 1) = 1
          BY <1>3, <1>7 DEF Place
        <5>3. m + Place(toServer, 1) = sent["app"] + 1
          BY <1>0, <2>2, <5>1 DEF CloseToBrowser
        <5> QED
          BY <5>2, <5>3
      <4>2. m = k + g + l
        BY <1>8, <2>2, <3>2
      <4> HIDE DEF g, l
      <4> QED
        BY <1>1, <3>2, <4>1, <4>2
    <3>3. CASE ~ ws_sessions
      BY <1>8, <2>2, <3>1, <3>3
    <3>4. CASE ws_sessions
      <4>1. albOut' = Append(albOut, frame)
        BY <1>8, <2>2, <3>4
      <4>2. i \in 1 .. l \/ i = l + 1
        BY <1>1, <1>9, <2>2, <4>1
      <4> QED
        BY <1>9, <2>2, <3>1, <3>2, <3>4, <4>1, <4>2
    <3> QED
      BY <3>3, <3>4
  <2> QED
    BY <1>0, <1>4, <1>10, <2>1, <2>2 DEF CloseToBrowser
<1>14. m + 1 \in Nat
  OBVIOUS
<1> QED
  BY <1>12, <1>13, <1>14 DEF PathToBrowser

\* agent_to_alb takes the next frame from the session's queue to the browser.
LEMMA AgentToAlbToBrowser ==
    ASSUME TunnelInv, AgentToAlb
    PROVE  PathToBrowser'
<1> USE DEF TunnelInv, agentVars, linkVars
<1>0. PICK k, m, n \in Nat : ToBrowser(k, m, n) /\ CloseToBrowser(k, m, n)
  BY DEF PathToBrowser
<1>1. /\ albOut \in Seq(WsFrames) /\ Carried(albOut) = Len(albOut)
      /\ got["browser"] \in Seq(WsFrames) /\ Carried(got["browser"]) = Len(got["browser"])
      /\ Len(albOut) \in Nat /\ Len(got["browser"]) \in Nat /\ sent["app"] \in Nat
      /\ {"browser", "app"} = Ends
  BY QueuesToBrowser DEF Ends
<1>2. albWriter = "run" /\ UNCHANGED <<ws_sessions, toServer, link, reader>>
  BY DEF AgentToAlb
<1>3. CASE UNCHANGED farVars /\ (far["browser"] # "open" \/ albOut' = albOut)
  <2>1. (Shown' => Shown) /\ (Shown' => albOut' = albOut)
    BY <1>2, <1>3 DEF Shown, farVars
  <2>2. ToBrowser(k, m, n)'
    BY <1>0, <1>2, <1>3, <2>1 DEF ToBrowser, farVars
  <2>3. CloseToBrowser(k, m, n)'
    BY <1>0, <1>2, <1>3, <2>1 DEF CloseToBrowser, farVars
  <2> QED
    BY <2>2, <2>3 DEF PathToBrowser
<1>4. CASE far["browser"] = "open" /\ albOut # <<>>
  <2> DEFINE h == Head(albOut)
             g == Len(got["browser"])
             l == Len(albOut)
             t == Len(Tail(albOut))
  <2>1. /\ Shown /\ WriteSucceeds("browser", h) /\ albOut' = Tail(albOut)
        /\ albWriter' = "run" /\ h \in WsFrames
    BY <1>1, <1>2, <1>4, ReadTypes DEF AgentToAlb, WriteFails, Shown
  <2>2. /\ got'["browser"] = Append(got["browser"], h) /\ sent' = sent
        /\ UNCHANGED <<far, inbound>>
    BY <1>1, <1>4, <2>1, WriteEffect
  <2>3. /\ h \notin Acks /\ (h = Close => h \notin Data) /\ ~ Has(got["browser"], Close)
    BY <1>1, <1>4, <2>1, Kinds DEF WsFrames, ClosesInv, MapCloses
  <2>4. /\ InOrder(Tail(albOut), k + g + 1) /\ (h \in Data => h.no = k + g + 1)
    <3>1. InOrder(albOut, k + g) /\ k + g \in Nat
      BY <1>0, <1>1, <2>1 DEF ToBrowser
    <3> HIDE DEF g
    <3> QED
      BY <1>1, <1>4, <2>3, <3>1, TakeHead
  <2>5. InOrder(got'["browser"], k)
    <3>1. InOrder(got["browser"], k)
      BY <1>0 DEF ToBrowser
    <3>2. h \in Data => h.no = k + Carried(got["browser"]) + 1 /\ ~ Has(got["browser"], Close)
      BY <1>1, <2>3, <2>4
    <3> HIDE DEF h
    <3> QED
      BY <1>1, <2>1, <2>2, <2>3, <3>1, <3>2, AddLast
  <2>6. /\ Len(got'["browser"]) = g + 1 /\ got'["browser"][g + 1] = h
        /\ \A i \in 1 .. g : got'["browser"][i] = got["browser"][i]
    BY <1>1, <2>1, <2>2, AppendProperties
  <2>7. /\ t = l - 1 /\ l \in Nat \ {0} /\ g \in Nat /\ albOut[1] = h
        /\ \A i \in 1 .. t : Tail(albOut)[i] = albOut[i + 1]
    BY <1>1, <1>4, HeadTailProperties
  <2>8. ToBrowser(k, m, n)'
    <3>1. ws_sessions => m = k + g + l
      BY <1>0, <2>1 DEF ToBrowser
    <3>2. ws_sessions => m = k + Len(got'["browser"]) + t
      <4> HIDE DEF g, l, t
      <4> QED
        BY <2>6, <2>7, <3>1
    <3>3. k + Len(got'["browser"]) = k + g + 1
      BY <2>6, <2>7
    <3>4. InOrder(albOut', k + Len(got'["browser"]))
      BY <2>1, <2>4, <3>3
    <3> QED
      BY <1>0, <1>2, <2>1, <2>2, <2>5, <3>2, <3>4 DEF ToBrowser
  <2>9. CloseToBrowser(k, m, n)'
    <3>1. ASSUME far["app"] = "closed", NEW i \in 1 .. l, albOut[i] = Close
          PROVE  k + g + i = sent["app"] + 1
      BY <1>0, <2>1, <3>1 DEF CloseToBrowser
    <3>2. ASSUME far["app"] = "closed", NEW i \in 1 .. t, Tail(albOut)[i] = Close
          PROVE  k + Len(got'["browser"]) + i = sent["app"] + 1
      <4>1. i + 1 \in 1 .. l /\ albOut[i + 1] = Close
        BY <2>7, <3>2
      <4>2. k + g + (i + 1) = sent["app"] + 1
        BY <3>1, <3>2, <4>1
      <4> HIDE DEF g, t
      <4> QED
        BY <2>6, <2>7, <4>2
    <3>3. ASSUME far["app"] = "closed", NEW i \in 1 .. Len(got'["browser"]),
                 got'["browser"][i] = Close
          PROVE  k + i = sent["app"] + 1
      <4>1. i = g + 1 /\ h = Close
        BY <2>3, <2>6, <2>7, <3>3 DEF Has
      <4>2. k + g + 1 = sent["app"] + 1
        BY <2>7, <3>1, <3>3, <4>1
      <4> HIDE DEF g
      <4> QED
        BY <2>7, <4>1, <4>2
    <3> QED
      BY <1>0, <1>2, <2>1, <2>2, <3>2, <3>3 DEF CloseToBrowser
  <2> QED
    BY <2>8, <2>9 DEF PathToBrowser
<1>5. far["browser"] # "open" => UNCHANGED farVars
  BY DEF AgentToAlb, WriteSucceeds, WriteFails, farVars
<1>6. albOut = <<>> => UNCHANGED farVars /\ albOut' = albOut
  BY DEF AgentToAlb
<1> QED
  BY <1>3, <1>4, <1>5, <1>6

LEMMA ServerToBrowser ==
    ASSUME TunnelInv,
           Refuse \/ SendInit \/ Abandon \/ TunnelStep \/ AlbToAgent \/ HandleInitAck \/ LinkLost
    PROVE  PathToBrowser'
<1> USE DEF TunnelInv, TunnelGoesTo, serverVars, agentVars, linkVars, farVars
<1>0. PICK k, m, n \in Nat : ToBrowser(k, m, n) /\ CloseToBrowser(k, m, n)
  BY DEF PathToBrowser
<1>1. /\ far \in [Ends -> {"absent", "open", "closed", "reset"}]
      /\ inbound \in [Ends -> Seq(WsFrames)] /\ {"browser", "app"} = Ends
      /\ toServer \in Seq(WsFrames \cup Acks) /\ Len(toServer) \in Nat
  BY QueuesToBrowser DEF Types, Ends
<1>2. CASE Refuse \/ SendInit \/ Abandon \/ StoreWaiter \/ Upgrade \/ AwaitAck \/ Join
           \/ AlbToAgent
  <2>1. UNCHANGED <<far, sent, inbound["app"], got, albOut, ws_sessions, toServer, link,
                    reader>>
    BY <1>1, <1>2 DEF Refuse, SendInit, Abandon, StoreWaiter, Upgrade, AwaitAck, Join,
                      AlbToAgent
  <2>2. albWriter' = "done" => albWriter = "done"
    BY <1>2 DEF Refuse, SendInit, Abandon, StoreWaiter, Upgrade, AwaitAck, Join, AlbToAgent
  <2>3. albWriter' # "done" => albWriter # "done"
    BY <1>2 DEF Refuse, SendInit, Abandon, StoreWaiter, Upgrade, AwaitAck, Join, AlbToAgent,
                ServerInv, Before
  <2> QED
    BY <1>0, <2>1, <2>2, <2>3, SameToBrowser DEF Shown
<1>3. CASE CleanUp
  <2>1. /\ UNCHANGED <<sent, inbound, got, albOut, albWriter, toServer, link, reader>>
        /\ far'["app"] = far["app"] /\ far'["browser"] \in {far["browser"], "reset"}
        /\ ws_sessions' => ws_sessions
    BY <1>1, <1>3 DEF CleanUp
  <2> QED
    BY <1>0, <2>1, SameToBrowser DEF Shown
\* What came before the session was stored is what the browser never gets.
<1>4. CASE StoreSession
  <2>1. /\ albOut = <<>> /\ got["browser"] = <<>>
        /\ UNCHANGED <<far, sent, inbound, got, albOut, albWriter, toServer, link, reader>>
    BY <1>4 DEF StoreSession, ServerInv, Before
  <2>2. InOrder(<<>>, m) /\ Len(<<>>) = 0 /\ m + 0 = m
    BY EmptyQueue
  <2>3. ToBrowser(m, m, n)'
    BY <1>0, <2>1, <2>2 DEF ToBrowser
  <2>4. CloseToBrowser(m, m, n)'
    BY <1>0, <2>1, <2>2 DEF CloseToBrowser
  <2> QED
    BY <2>3, <2>4 DEF PathToBrowser
<1>5. CASE HandleInitAck
  <2>1. PICK success \in {"ok", "fail"} : TakeFromAgent(Frame(success))
    BY <1>5 DEF HandleInitAck
  <2>2. /\ toServer # <<>> /\ toServer' = Tail(toServer) /\ Head(toServer) \in Acks
        /\ Head(toServer) # Close
    BY <2>1, TakenFromAgent, Kinds DEF Acks
  <2>3. /\ InOrder(toServer', m) /\ Carried(toServer') = Carried(toServer)
        /\ \A i \in 1 .. Len(toServer') : Place(toServer, i + 1) = Place(toServer', i) + 0
    <3>1. InOrder(toServer, m)
      BY <1>0 DEF ToBrowser
    <3> QED
      BY <1>1, <2>2, <3>1, TakeHead
  <2>4. /\ Len(toServer') = Len(toServer) - 1 /\ toServer' \in Seq(WsFrames \cup Acks)
        /\ \A i \in 1 .. Len(toServer') : toServer'[i] = toServer[i + 1]
    BY <1>1, <2>2, HeadTailProperties
  <2>5. UNCHANGED <<far, sent, inbound, got, albOut, albWriter, ws_sessions, link, reader>>
    BY <1>5 DEF HandleInitAck
  <2>6. ToBrowser(k, m, n)'
    BY <1>0, <2>3, <2>5 DEF ToBrowser, Shown
  <2>7. ASSUME far["app"] = "closed", NEW i \in 1 .. Len(toServer'), toServer'[i] = Close
        PROVE  m + Place(toServer', i) = sent["app"] + 1
    <3>1. i + 1 \in 1 .. Len(toServer) /\ toServer[i + 1] = Close
      BY <1>1, <2>4, <2>7
    <3>2. m + Place(toServer, i + 1) = sent["app"] + 1
      BY <1>0, <2>7, <3>1 DEF CloseToBrowser
    <3>3. Place(toServer, i + 1) = Place(toServer', i)
      BY <2>3, <2>4, <2>7, PlacesAreNumbers
    <3> QED
      BY <3>2, <3>3
  <2>8. CloseToBrowser(k, m, n)'
    BY <1>0, <2>5, <2>7 DEF CloseToBrowser, Shown
  <2> QED
    BY <2>6, <2>8 DEF PathToBrowser
<1>6. CASE LinkLost
  <2>1. /\ UNCHANGED <<far, sent, inbound, got, albOut, albWriter, ws_sessions, reader>>
        /\ link' = "down" /\ toServer' \in Prefixes(toServer)
    BY <1>6 DEF LinkLost
  <2>2. /\ InOrder(toServer, m) => InOrder(toServer', m)
        /\ Len(toServer') \in 0 .. Len(toServer)
        /\ \A i \in 1 .. Len(toServer') :
               toServer'[i] = toServer[i] /\ Place(toServer', i) = Place(toServer, i)
    BY <1>1, <2>1, KeepPrefix
  <2>3. ToBrowser(k, m, n)'
    BY <1>0, <2>1, <2>2 DEF ToBrowser, Shown
  <2>4. \A i \in 1 .. Len(toServer') : i \in 1 .. Len(toServer)
    BY <1>1, <2>2
  <2>5. CloseToBrowser(k, m, n)'
    BY <1>0, <2>1, <2>2, <2>4 DEF CloseToBrowser, Shown
  <2> QED
    BY <2>3, <2>5 DEF PathToBrowser
<1> QED
  BY <1>2, <1>3, <1>4, <1>5, <1>6 DEF TunnelStep

LEMMA NextPathToBrowser ==
    ASSUME TunnelInv, Next
    PROVE  PathToBrowser'
BY FarToBrowser, AgentToBrowser, LocalReaderToBrowser, HandleFromAgentToBrowser,
   AgentToAlbToBrowser, ServerToBrowser
DEF Next, FromAgentStep

-----------------------------------------------------------------------------
(* The invariant *)

LEMMA InitInv ==
    Init => TunnelInv
<1> SUFFICES ASSUME Init PROVE TunnelInv
  OBVIOUS
<1> USE DEF Init
<1>0. /\ 0 \in Nat /\ InOrder(<<>>, 0) /\ CloseLast(<<>>) /\ Len(<<>>) = 0
      /\ \A m : ~ Has(<<>>, m)
      /\ \A e \in Ends : /\ far[e] \in {"open", "absent"} /\ sent[e] = 0
                         /\ inbound[e] = <<>> /\ got[e] = <<>>
      /\ {"browser", "app"} = Ends /\ far["browser"] = "open" /\ far["app"] = "absent"
  BY EmptyQueue DEF Ends
<1>1. Types
  <2>1. /\ \A S : <<>> \in Seq(S)
        /\ 0 \in 0 .. Frames
    BY WsTunnelAssumption DEF WsTunnelAssumption
  <2> QED
    BY <2>1 DEF Types, TaskStates
<1>2. ServerInv
  BY <1>0 DEF ServerInv, Before, After
<1>3. AgentInv
  BY <1>0 DEF AgentInv
<1>4. ClosesInv
  BY <1>0 DEF ClosesInv, EndCloses, MapCloses, ReaderCloses, LinkCloses
<1>5. CloseOnItsWay
  BY DEF CloseOnItsWay
<1>6. PathToApp
  <2>1. ToApp(0, 0)
    BY <1>0 DEF ToApp, Written
  <2>2. CloseToApp(0, 0)
    BY <1>0 DEF CloseToApp
  <2> QED
    BY <2>1, <2>2 DEF PathToApp
<1>7. PathToBrowser
  <2>1. ToBrowser(0, 0, 0)
    BY <1>0 DEF ToBrowser
  <2>2. CloseToBrowser(0, 0, 0)
    BY <1>0 DEF CloseToBrowser
  <2> QED
    BY <2>1, <2>2 DEF PathToBrowser
<1> QED
  BY <1>1, <1>2, <1>3, <1>4, <1>5, <1>6, <1>7 DEF TunnelInv

LEMMA Stutter ==
    ASSUME TunnelInv, UNCHANGED vars
    PROVE  TunnelInv'
<1> USE DEF TunnelInv, vars, serverVars, agentVars, linkVars, farVars
<1>1. Types' /\ ServerInv' /\ AgentInv' /\ CloseOnItsWay'
  BY DEF Types, ServerInv, AgentInv, CloseOnItsWay
<1>2. ClosesInv'
  BY DEF ClosesInv, EndCloses, MapCloses, ReaderCloses, LinkCloses
<1>3. PathToApp'
  BY SameToApp DEF PathToApp, Written
<1>4. PathToBrowser'
  BY SameToBrowser DEF PathToBrowser, Shown
<1> QED
  BY <1>1, <1>2, <1>3, <1>4

LEMMA NextInv ==
    ASSUME TunnelInv, Next
    PROVE  TunnelInv'
<1>1. Types'
  BY NextTypes DEF TunnelInv
<1>2. ServerInv'
  BY ServerSteps, ServerElsewhere DEF Next
<1>3. AgentInv'
  BY AgentElsewhere, AgentHears, AgentSteps DEF Next
<1> QED
  BY <1>1, <1>2, <1>3, NextClosesInv, NextCloseOnItsWay, NextPathToApp, NextPathToBrowser
  DEF TunnelInv

LEMMA Invariant ==
    SafeSpec => []TunnelInv
<1>1. TunnelInv /\ [Next]_vars => TunnelInv'
  BY Stutter, NextInv
<1> QED
  BY <1>1, InitInv, PTL DEF SafeSpec

-----------------------------------------------------------------------------
(* What follows from it *)

\* At most one close, one acknowledgement and the numbered frames are under way to
\* the server; only the last two elements on the way to the agent can be closes.
LEMMA QueueBounds ==
    ASSUME TunnelInv
    PROVE  Len(toServer) <= Frames + 2 /\ Len(toAgent) <= Frames + 2
<1>0. /\ Types /\ AgentInv /\ LinkCloses /\ Frames \in Nat
      /\ toServer \in Seq(WsFrames \cup Acks) /\ Len(toServer) \in Nat
      /\ toAgent \in Seq(WsFrames \cup {Frame("init")}) /\ Len(toAgent) \in Nat
  BY QueuesToApp, QueuesToBrowser, WsTunnelAssumption
  DEF TunnelInv, ClosesInv, WsTunnelAssumption
<1>1. ASSUME Len(toServer) > Frames + 2
      PROVE  FALSE
  <2> DEFINE l == Len(toServer)
  <2>1. PICK m \in Nat : InOrder(toServer, m)
    BY DEF TunnelInv, PathToBrowser, ToBrowser
  <2>2. l \in Nat /\ {l - 2, l - 1, l} \subseteq 1 .. l
    BY <1>0, <1>1
  <2>3. ASSUME NEW i \in 1 .. l, toServer[i] \in Data
        PROVE  Place(toServer, i) <= Frames
    <3>1. toServer[i].no = m + Place(toServer, i) /\ toServer[i].no \in 1 .. Frames
      BY <2>1, <2>3, Kinds DEF InOrder
    <3>2. Place(toServer, i) \in Nat
      BY <1>0, <2>3, PlacesAreNumbers
    <3> QED
      BY <1>0, <3>1, <3>2
  <2>4. ASSUME NEW i \in 1 .. l, toServer[i] \in Data
        PROVE  i - 1 <= Frames
    <3> DEFINE p == Place(toServer, i)
    <3>1. i \in Int /\ (p = i - 1 \/ p = i)
      BY <2>2 DEF Place
    <3>2. p <= Frames
      BY <2>3, <2>4
    <3> HIDE DEF p
    <3> QED
      BY <1>0, <3>1, <3>2
  <2>5. toServer[l] \notin Data /\ toServer[l - 1] \notin Data
    <3>1. ~ (l - 1 <= Frames) /\ ~ (l - 1 - 1 <= Frames)
      BY <1>0, <1>1
    <3>2. l \in 1 .. l /\ l - 1 \in 1 .. l
      BY <2>2
    <3> HIDE DEF l
    <3> QED
      BY <2>4, <3>1, <3>2
  <2>6. \A i \in 1 .. l : toServer[i] \in Data \/ toServer[i] = Close \/ toServer[i] \in Acks
    BY <1>0, ElementOfSeq DEF WsFrames
  <2>7. /\ \A i, j \in 1 .. l : toServer[i] = Close /\ toServer[j] = Close => i = j
        /\ \A i, j \in 1 .. l : toServer[i] \in Acks /\ toServer[j] \in Acks => i = j
    BY <1>0, <2>1 DEF LinkCloses, InOrder
  <2>8. PICK a \in {l - 1, l} : toServer[a] \in Acks
    BY <2>2, <2>5, <2>6, <2>7
  <2>9. toServer[l - 2] \in Data
    BY <2>2, <2>5, <2>6, <2>7
  <2>10. \A j \in 1 .. l - 2 : toServer[j] \notin Acks
    BY <2>2, <2>7, <2>8
  <2>11. Place(toServer, l - 2) = l - 2
    BY <2>10 DEF Place
  <2> QED
    BY <1>0, <1>1, <2>2, <2>3, <2>9, <2>11
<1>2. ASSUME Len(toAgent) > Frames + 2
      PROVE  FALSE
  <2> DEFINE l == Len(toAgent)
  <2>1. PICK m \in Nat : InOrder(toAgent, m)
    BY DEF TunnelInv, PathToApp, ToApp
  <2>2. l \in Nat /\ l - 2 \in 1 .. l /\ l > 2
    BY <1>0, <1>2
  <2>3. ~ Has(toAgent, Frame("init"))
    <3>1. ASSUME Has(toAgent, Frame("init"))
          PROVE  FALSE
      <4>1. albReader = "none"
        BY <1>0, <3>1, NotYetAnswered DEF AgentInv
      <4>2. toAgent = <<>> \/ toAgent = <<Frame("init")>>
        BY <1>0, <4>1 DEF AgentInv
      <4>3. Len(<<>>) = 0 /\ Len(<<Frame("init")>>) = 1
        OBVIOUS
      <4>4. l = 0 \/ l = 1
        BY <4>2, <4>3
      <4> HIDE DEF l
      <4> QED
        BY <2>2, <4>4
    <3> QED
      BY <3>1
  <2>4. toAgent[l - 2] # Close
    BY <1>0, <2>2 DEF LinkCloses
  <2>5. toAgent[l - 2] \in Data
    BY <1>0, <2>2, <2>3, <2>4, ElementOfSeq DEF WsFrames, Has
  <2>6. /\ toAgent[l - 2].no = m + Place(toAgent, l - 2)
        /\ toAgent[l - 2].no \in 1 .. Frames
    BY <2>1, <2>2, <2>5, Kinds DEF InOrder
  <2>7. Place(toAgent, l - 2) = l - 2
    <3>1. (WsFrames \cup {Frame("init")}) \cap Acks = {}
      BY Kinds DEF WsFrames
    <3> QED
      BY <1>0, <2>2, <3>1, PlainPlace
  <2> QED
    BY <1>0, <1>2, <2>2, <2>6, <2>7
<1> QED
  BY <1>0, <1>1, <1>2

\* What an end has received, by its numbers.
LEMMA Received ==
    ASSUME TunnelInv, NEW e \in Ends
    PROVE  \E k \in Nat :
              /\ e = "app" => k = 0
              /\ \A i \in 1 .. Len(got[e]) : got[e][i] # Close => got[e][i].no = k + i
              /\ \A i, j \in 1 .. Len(got[e]) : i < j => got[e][i] # Close
              /\ far[Peer(e)] = "closed" => \A i \in 1 .. Len(got[e]) :
                     got[e][i] = Close => k + i = sent[Peer(e)] + 1
<1>1. PICK k \in Nat : /\ e = "app" => k = 0
                       /\ InOrder(got[e], k)
                       /\ far[Peer(e)] = "closed" => \A i \in 1 .. Len(got[e]) :
                              got[e][i] = Close => k + i = sent[Peer(e)] + 1
  <2>1. Peer("app") = "browser" /\ Peer("browser") = "app"
    BY DEF Peer, Ends
  <2>2. CASE e = "app"
    <3>1. PICK m, n \in Nat : ToApp(m, n) /\ CloseToApp(m, n)
      BY DEF TunnelInv, PathToApp
    <3>2. sent["browser"] \in Nat /\ 0 \in Nat
      BY QueuesToApp DEF TunnelInv
    <3> QED
      BY <2>1, <2>2, <3>1, <3>2 DEF ToApp, CloseToApp
  <2>3. CASE e = "browser"
    <3>1. PICK k, m, n \in Nat : ToBrowser(k, m, n) /\ CloseToBrowser(k, m, n)
      BY DEF TunnelInv, PathToBrowser
    <3> QED
      BY <2>1, <2>3, <3>1 DEF ToBrowser, CloseToBrowser
  <2> QED
    BY <2>2, <2>3 DEF Ends
<1>2. /\ got[e] \in Seq(WsFrames) /\ Len(got[e]) \in Nat /\ CloseLast(got[e])
      /\ \A i \in 1 .. Len(got[e]) : Place(got[e], i) = i
  <2>1. got[e] \in Seq(WsFrames) /\ CloseLast(got[e])
    BY DEF TunnelInv, Types, ClosesInv, EndCloses
  <2>2. WsFrames \cap Acks = {}
    BY Kinds DEF WsFrames
  <2> QED
    BY <2>1, <2>2, PlainPlace
<1>3. \A i \in 1 .. Len(got[e]) : got[e][i] # Close => got[e][i] \in Data
  BY <1>2, ElementOfSeq DEF WsFrames
<1>4. \A i \in 1 .. Len(got[e]) : got[e][i] # Close => got[e][i].no = k + i
  BY <1>1, <1>2, <1>3 DEF InOrder
<1>5. \A i, j \in 1 .. Len(got[e]) : i < j => got[e][i] # Close
  BY <1>2 DEF CloseLast
<1> QED
  BY <1>1, <1>4, <1>5

\* The types, and a bound on what is under way on the agent's connection
\* (ws_proxy.rs:246-284 and 334-341, ws.rs:72-123): each end's frames, the close
\* that alb_to_agent passes on and the one after join!, and the agent's answer.
THEOREM TypeCorrect ==
    SafeSpec => []TypeOK
<1>1. TunnelInv => TypeOK
  BY QueueBounds DEF TunnelInv, TypeOK
<1> QED
  BY <1>1, Invariant, PTL

\* For any number of frames, and whatever the order in which the server's and the
\* agent's tasks, the connection and the two ends act, the application gets the
\* browser's frames from the first on without a gap and nothing after a close, and
\* so does the browser from the first that finds the session stored.
THEOREM TunnelKeepsOrder ==
    SafeSpec => []FramesInOrder
<1>1. ASSUME TunnelInv
      PROVE  FramesInOrder
  <2> SUFFICES ASSUME NEW e \in Ends, NEW i \in DOMAIN got[e], got[e][i] # Close
               PROVE  IF i = 1 THEN e = "app" => got[e][i].no = 1
                      ELSE got[e][i - 1] # Close /\ got[e][i].no = got[e][i - 1].no + 1
    BY DEF FramesInOrder
  <2>1. got[e] \in Seq(WsFrames) /\ DOMAIN got[e] = 1 .. Len(got[e]) /\ Len(got[e]) \in Nat
    BY <1>1 DEF TunnelInv, Types
  <2>2. PICK k \in Nat :
            /\ e = "app" => k = 0
            /\ \A j \in 1 .. Len(got[e]) : got[e][j] # Close => got[e][j].no = k + j
            /\ \A h, j \in 1 .. Len(got[e]) : h < j => got[e][h] # Close
    BY <1>1, Received
  <2>3. CASE i = 1
    BY <2>1, <2>2, <2>3
  <2>4. CASE i # 1
    <3>1. i \in 1 .. Len(got[e]) /\ i - 1 \in 1 .. Len(got[e]) /\ i - 1 < i
      BY <2>1, <2>4
    <3>2. got[e][i - 1] # Close /\ got[e][i].no = k + i
      BY <2>2, <3>1
    <3>3. got[e][i - 1].no = k + (i - 1)
      BY <2>2, <3>1, <3>2
    <3> QED
      BY <2>4, <3>1, <3>2, <3>3
  <2> QED
    BY <2>3, <2>4
<1> QED
  BY <1>1, Invariant, PTL

\* A close overtakes no frame (ws_proxy.rs:438, ws.rs:214): once an end has sent its
\* close frame, a peer that is told of a close has got the last frame sent before it,
\* also when the close it is told of is the one the server sends after join!.
THEOREM TunnelClosesLast ==
    SafeSpec => []CloseComesLast
<1>1. ASSUME TunnelInv
      PROVE  CloseComesLast
  <2> SUFFICES ASSUME NEW e \in Ends, far[Peer(e)] = "closed",
                      NEW i \in DOMAIN got[e], got[e][i] = Close
               PROVE  IF i = 1 THEN e = "app" => sent[Peer(e)] = 0
                      ELSE got[e][i - 1].no = sent[Peer(e)]
    BY DEF CloseComesLast
  <2>1. /\ got[e] \in Seq(WsFrames) /\ DOMAIN got[e] = 1 .. Len(got[e]) /\ Len(got[e]) \in Nat
        /\ sent[Peer(e)] \in Nat
    <3>1. Peer("app") = "browser" /\ Peer("browser") = "app"
      BY DEF Peer, Ends
    <3>2. sent["browser"] \in Nat /\ sent["app"] \in Nat
      BY <1>1, QueuesToApp, QueuesToBrowser DEF TunnelInv
    <3> QED
      BY <1>1, <3>1, <3>2 DEF TunnelInv, Types, Ends
  <2>2. PICK k \in Nat :
            /\ e = "app" => k = 0
            /\ \A j \in 1 .. Len(got[e]) : got[e][j] # Close => got[e][j].no = k + j
            /\ \A h, j \in 1 .. Len(got[e]) : h < j => got[e][h] # Close
            /\ \A j \in 1 .. Len(got[e]) : got[e][j] = Close => k + j = sent[Peer(e)] + 1
    BY <1>1, Received
  <2>3. i \in 1 .. Len(got[e]) /\ k + i = sent[Peer(e)] + 1
    BY <2>1, <2>2
  <2>4. CASE i = 1
    BY <2>1, <2>2, <2>3, <2>4
  <2>5. CASE i # 1
    <3>1. i - 1 \in 1 .. Len(got[e]) /\ i - 1 < i
      BY <2>1, <2>3, <2>5
    <3>2. got[e][i - 1].no = k + (i - 1)
      BY <2>2, <2>3, <3>1
    <3> DEFINE all == sent[Peer(e)]
               last == got[e][i - 1].no
    <3>3. i \in Nat /\ all \in Nat /\ last = k + (i - 1) /\ k + i = all + 1
      BY <2>1, <2>3, <3>2
    <3> HIDE DEF all, last
    <3>4. last = all
      BY <3>3
    <3> QED
      BY <2>5, <3>4 DEF all, last
  <2> QED
    BY <2>4, <2>5
<1> QED
  BY <1>1, Invariant, PTL

\* After the tunnel's task has ended (ws_proxy.rs:334-345) the agent's session is
\* gone, or the close that ends it is on its way, unless they are cut off.
THEOREM TunnelLeavesNoOrphan ==
    SafeSpec => []NoOrphanSession
<1>1. TunnelInv => NoOrphanSession
  <2>1. Has(toAgent, Close) /\ Types => Close \in Range(toAgent)
    BY DEF Has, Range, Types
  <2> QED
    BY <2>1 DEF TunnelInv, CloseOnItsWay, After, NoOrphanSession
<1> QED
  BY <1>1, Invariant, PTL
==============================================================================
