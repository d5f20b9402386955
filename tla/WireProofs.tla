----------------------------- MODULE WireProofs -----------------------------
(***************************************************************************)
(* Theorems about Wire: what the two ends of a connection make of the      *)
(* streams between them, in and out of step, and what a registered method  *)
(* looks like.                                                             *)
(***************************************************************************)
EXTENDS Wire, TLAPS

-----------------------------------------------------------------------------
(* Streams.                                                                *)

\* Reading an item.
LEMMA TailStream ==
  ASSUME NEW s \in Seq(Item), s # <<>>
  PROVE  /\ Tail(s) \in Seq(Item) /\ Head(s) = s[1] /\ s[1] \in Item
         /\ Len(s) \in Nat /\ Len(s) > 0 /\ Len(Tail(s)) = Len(s) - 1
         /\ \A i \in 1 .. Len(Tail(s)) :
               /\ i + 1 \in 1 .. Len(s)
               /\ Tail(s)[i] = s[i + 1]
               /\ Followed(Tail(s), i) <=> Followed(s, i + 1)
         /\ BodyNext(Tail(s)) <=> Followed(s, 1)
<1>1. /\ Tail(s) \in Seq(Item) /\ Head(s) = s[1] /\ s[1] \in Item
      /\ Len(s) \in Nat /\ Len(s) > 0 /\ Len(Tail(s)) = Len(s) - 1
      /\ \A i \in 1 .. Len(Tail(s)) : i + 1 \in 1 .. Len(s) /\ Tail(s)[i] = s[i + 1]
  OBVIOUS
<1>2. \A i \in 1 .. Len(Tail(s)) : Followed(Tail(s), i) <=> Followed(s, i + 1)
  BY <1>1 DEF Followed
<1>3. BodyNext(Tail(s)) <=> Followed(s, 1)
  <2>1. CASE Len(s) = 1
    <3>1. Tail(s) = <<>>
      <4> DEFINE t == Tail(s)
      <4>1. t \in Seq(Item) /\ Len(t) = 0
        BY <1>1, <2>1
      <4> HIDE DEF t
      <4>2. t = <<>>
        BY <4>1
      <4> QED
        BY <4>2 DEF t
    <3>2. ~(1 < Len(s))
      BY <2>1
    <3> QED
      BY <3>1, <3>2 DEF BodyNext, Followed
  <2>2. CASE Len(s) > 1
    <3>1. Tail(s) # <<>> /\ Head(Tail(s)) = Tail(s)[1] /\ 1 \in 1 .. Len(Tail(s))
      <4> DEFINE t == Tail(s)
      <4>1. t \in Seq(Item) /\ Len(t) > 0
        BY <1>1, <2>2
      <4> HIDE DEF t
      <4>2. t # <<>> /\ Head(t) = t[1] /\ 1 \in 1 .. Len(t)
        BY <4>1
      <4> QED
        BY <4>2 DEF t
    <3>2. Tail(s)[1] = s[1 + 1] /\ 1 < Len(s)
      BY <1>1, <2>2, <3>1
    <3> QED
      BY <3>1, <3>2 DEF BodyNext, Followed
  <2> QED
    BY <1>1, <2>1, <2>2
<1> QED
  BY <1>1, <1>2, <1>3

LEMMA TailPaired ==
  ASSUME NEW s \in Seq(Item), s # <<>>, Paired(s)
  PROVE  /\ Paired(Tail(s))
         /\ BodyNext(Tail(s)) => /\ Head(s).what = "header"
                                 /\ Head(Tail(s)).call = Head(s).call
<1>1. Paired(Tail(s))
  <2> SUFFICES ASSUME NEW i \in 1 .. Len(Tail(s)), Followed(Tail(s), i)
               PROVE  Tail(s)[i].what = "header" /\ Tail(s)[i + 1].call = Tail(s)[i].call
    BY DEF Paired
  <2>1. i \in Nat /\ i < Len(Tail(s))
    BY TailStream DEF Followed
  <2>2. i + 1 \in 1 .. Len(Tail(s))
    BY <2>1, TailStream
  <2>3. Followed(s, i + 1) /\ i + 1 \in 1 .. Len(s) /\ Tail(s)[i] = s[i + 1]
        /\ Tail(s)[i + 1] = s[(i + 1) + 1]
    BY <2>2, TailStream
  <2> QED
    BY <2>3 DEF Paired
<1>2. ASSUME BodyNext(Tail(s))
      PROVE  Head(s).what = "header" /\ Head(Tail(s)).call = Head(s).call
  <2>1. Followed(s, 1) /\ 1 \in 1 .. Len(s)
    BY <1>2, TailStream
  <2>2. s[1].what = "header" /\ s[2].call = s[1].call
    BY <2>1 DEF Paired
  <2>3. Tail(s) # <<>> /\ Tail(s) \in Seq(Item)
    BY <1>2, TailStream DEF BodyNext
  <2>4. Head(Tail(s)) = Tail(s)[1] /\ 1 \in 1 .. Len(Tail(s))
    BY <2>3
  <2>5. Head(Tail(s)) = s[2]
    BY <2>4, TailStream
  <2> QED
    BY <2>2, <2>5, TailStream
<1> QED
  BY <1>1, <1>2

\* Writing items that begin with a header.
LEMMA SentStream ==
  ASSUME NEW s \in Seq(Item), NEW t \in Seq(Item), ~BodyNext(t)
  PROVE  /\ s \o t \in Seq(Item)
         /\ Len(s \o t) = Len(s) + Len(t)
         /\ \A i \in 1 .. Len(s \o t) :
               \/ /\ i \in 1 .. Len(s) /\ (s \o t)[i] = s[i]
                  /\ Followed(s \o t, i) <=> Followed(s, i)
               \/ \E j \in 1 .. Len(t) : /\ i = Len(s) + j /\ (s \o t)[i] = t[j]
                                         /\ Followed(s \o t, i) <=> Followed(t, j)
         /\ s # <<>> => s \o t # <<>> /\ Head(s \o t) = Head(s)
         /\ s = <<>> => s \o t = t
         /\ BodyNext(s \o t) => BodyNext(s)
<1>1. /\ s \o t \in Seq(Item)
      /\ Len(s) \in Nat /\ Len(t) \in Nat /\ Len(s \o t) = Len(s) + Len(t)
      /\ \A i \in 1 .. Len(s) : (s \o t)[i] = s[i]
      /\ \A j \in 1 .. Len(t) : (s \o t)[Len(s) + j] = t[j]
  OBVIOUS
<1>2. ASSUME NEW i \in 1 .. Len(s)
      PROVE  Followed(s \o t, i) <=> Followed(s, i)
  <2>1. CASE i < Len(s)
    <3>1. i + 1 \in 1 .. Len(s)
      BY <2>1, <1>1
    <3> QED
      BY <1>1, <2>1, <3>1 DEF Followed
  <2>2. CASE i = Len(s)
    <3>1. CASE Len(t) = 0
      BY <1>1, <2>2, <3>1 DEF Followed
    <3>2. CASE Len(t) > 0
      <4>1. t # <<>> /\ Head(t) = t[1] /\ 1 \in 1 .. Len(t)
        BY <1>1, <3>2
      <4>2. (s \o t)[i + 1] = t[1]
        BY <1>1, <2>2, <4>1
      <4> QED
        BY <1>1, <2>2, <4>1, <4>2 DEF Followed, BodyNext
    <3> QED
      BY <1>1, <3>1, <3>2
  <2> QED
    BY <1>1, <2>1, <2>2
<1>3. ASSUME NEW j \in 1 .. Len(t)
      PROVE  Followed(s \o t, Len(s) + j) <=> Followed(t, j)
  <2>1. CASE j < Len(t)
    <3>1. j + 1 \in 1 .. Len(t) /\ (Len(s) + j) + 1 = Len(s) + (j + 1)
      BY <1>1, <2>1
    <3>2. (s \o t)[(Len(s) + j) + 1] = t[j + 1]
      BY <1>1, <3>1
    <3> QED
      BY <1>1, <2>1, <3>2 DEF Followed
  <2>2. CASE j = Len(t)
    BY <1>1, <2>2 DEF Followed
  <2> QED
    BY <1>1, <2>1, <2>2
<1>4. \A i \in 1 .. Len(s \o t) :
         i \in 1 .. Len(s) \/ \E j \in 1 .. Len(t) : i = Len(s) + j
  <2> TAKE i \in 1 .. Len(s \o t)
  <2>1. CASE i > Len(s)
    <3>1. i - Len(s) \in 1 .. Len(t) /\ i = Len(s) + (i - Len(s))
      BY <1>1, <2>1
    <3> QED
      BY <3>1
  <2> QED
    BY <1>1, <2>1
<1>5. /\ s # <<>> => s \o t # <<>> /\ Head(s \o t) = Head(s)
      /\ s = <<>> => s \o t = t
  OBVIOUS
<1>6. BodyNext(s \o t) => BodyNext(s)
  BY <1>5 DEF BodyNext
<1>7. \A i \in 1 .. Len(s \o t) :
         \/ /\ i \in 1 .. Len(s) /\ (s \o t)[i] = s[i]
            /\ Followed(s \o t, i) <=> Followed(s, i)
         \/ \E j \in 1 .. Len(t) : /\ i = Len(s) + j /\ (s \o t)[i] = t[j]
                                   /\ Followed(s \o t, i) <=> Followed(t, j)
  <2> TAKE i \in 1 .. Len(s \o t)
  <2>1. CASE i \in 1 .. Len(s)
    BY <1>1, <1>2, <2>1
  <2>2. ASSUME NEW j \in 1 .. Len(t), i = Len(s) + j
        PROVE  (s \o t)[i] = t[j] /\ (Followed(s \o t, i) <=> Followed(t, j))
    <3>1. (s \o t)[Len(s) + j] = t[j]
      BY <1>1
    <3>2. Followed(s \o t, Len(s) + j) <=> Followed(t, j)
      BY <1>3
    <3> QED
      BY <2>2, <3>1, <3>2
  <2> QED
    BY <1>4, <2>1, <2>2
<1> QED
  BY <1>1, <1>5, <1>6, <1>7

LEMMA SentPaired ==
  ASSUME NEW s \in Seq(Item), NEW t \in Seq(Item), ~BodyNext(t), Paired(s), Paired(t)
  PROVE  Paired(s \o t)
<1> SUFFICES ASSUME NEW i \in 1 .. Len(s \o t), Followed(s \o t, i)
             PROVE  /\ (s \o t)[i].what = "header"
                    /\ (s \o t)[i + 1].call = (s \o t)[i].call
  BY DEF Paired
<1>0. Len(s) \in Nat /\ Len(t) \in Nat
  OBVIOUS
<1>1. CASE i \in 1 .. Len(s) /\ (s \o t)[i] = s[i] /\ Followed(s, i)
  <2>1. i + 1 \in 1 .. Len(s)
    BY <1>0, <1>1 DEF Followed
  <2>2. (s \o t)[i + 1] = s[i + 1]
    BY <2>1
  <2> QED
    BY <1>1, <2>2 DEF Paired
<1>2. ASSUME NEW j \in 1 .. Len(t), i = Len(s) + j, (s \o t)[i] = t[j], Followed(t, j)
      PROVE  /\ (s \o t)[i].what = "header"
             /\ (s \o t)[i + 1].call = (s \o t)[i].call
  <2>1. j + 1 \in 1 .. Len(t) /\ i + 1 = Len(s) + (j + 1)
    BY <1>0, <1>2 DEF Followed
  <2>2. (s \o t)[i + 1] = t[j + 1]
    BY <2>1
  <2> QED
    BY <1>2, <2>2 DEF Paired
<1>3. \/ i \in 1 .. Len(s) /\ (s \o t)[i] = s[i] /\ Followed(s, i)
      \/ \E j \in 1 .. Len(t) : i = Len(s) + j /\ (s \o t)[i] = t[j] /\ Followed(t, j)
  <2>1. \/ /\ i \in 1 .. Len(s) /\ (s \o t)[i] = s[i]
           /\ Followed(s \o t, i) <=> Followed(s, i)
        \/ \E j \in 1 .. Len(t) : /\ i = Len(s) + j /\ (s \o t)[i] = t[j]
                                  /\ Followed(s \o t, i) <=> Followed(t, j)
    BY SentStream
  <2> QED
    BY <2>1
<1> QED
  BY <1>1, <1>2, <1>3

\* A header, alone or with the body of its call.
LEMMA HeaderStream ==
  ASSUME NEW h \in Item, h.what = "header"
  PROVE  /\ <<h>> \in Seq(Item) /\ Len(<<h>>) = 1 /\ <<h>>[1] = h
         /\ ~BodyNext(<<h>>) /\ Paired(<<h>>) /\ ~Followed(<<h>>, 1)
<1>1. <<h>> \in Seq(Item) /\ Len(<<h>>) = 1 /\ <<h>>[1] = h /\ Head(<<h>>) = h
  OBVIOUS
<1> QED
  BY <1>1 DEF BodyNext, Paired, Followed

LEMMA MessageStream ==
  ASSUME NEW h \in Item, NEW b \in Item, h.what = "header", b.what = "body", b.call = h.call
  PROVE  /\ <<h, b>> \in Seq(Item) /\ Len(<<h, b>>) = 2
         /\ <<h, b>>[1] = h /\ <<h, b>>[2] = b
         /\ ~BodyNext(<<h, b>>) /\ Paired(<<h, b>>)
         /\ Followed(<<h, b>>, 1) /\ ~Followed(<<h, b>>, 2)
<1>1. /\ <<h, b>> \in Seq(Item) /\ Len(<<h, b>>) = 2
      /\ <<h, b>>[1] = h /\ <<h, b>>[2] = b /\ Head(<<h, b>>) = h
      /\ <<h, b>>[1 + 1] = b
  OBVIOUS
<1>2. 1 .. Len(<<h, b>>) = {1, 2}
  BY <1>1
<1>3. Followed(<<h, b>>, 1) /\ ~Followed(<<h, b>>, 2)
  BY <1>1 DEF Followed
<1>4. Paired(<<h, b>>)
  BY <1>1, <1>2, <1>3 DEF Paired
<1> QED
  BY <1>1, <1>3, <1>4 DEF BodyNext
-----------------------------------------------------------------------------
(* The type invariant.                                                     *)

LEMMA ItemTypes ==
  \A r \in Calls \cup {NoCall} :
     /\ Request(r) \in Item /\ Body(r) \in Item
     /\ \A n, e \in BOOLEAN : Response(r, n, e) \in Item
BY DEF Item, Request, Body, Response

\* What either end writes at a time.
LEMMA MessageTypes ==
  /\ <<>> \in Seq(Item)
  /\ \A r \in Calls \cup {NoCall} :
        /\ <<Request(r)>> \in Seq(Item) /\ <<Request(r), Body(r)>> \in Seq(Item)
        /\ \A n, e \in BOOLEAN : /\ <<Response(r, n, e)>> \in Seq(Item)
                                /\ <<Response(r, n, e), Body(r)>> \in Seq(Item)
<1>1. \A h, b \in Item : <<h>> \in Seq(Item) /\ <<h, b>> \in Seq(Item) /\ <<>> \in Seq(Item)
  OBVIOUS
<1>2. <<>> \in Seq(Item)
  OBVIOUS
<1> QED
  BY <1>1, <1>2, ItemTypes

LEMMA SendsTypes ==
  ASSUME TypeOK, NEW t \in Seq(Item)
  PROVE  /\ Sends(toServer, t) => toServer' \in Seq(Item)
         /\ Sends(toClient, t) => toClient' \in Seq(Item)
<1>1. \A u \in Seq(Item) : u \o t \in Seq(Item)
  OBVIOUS
<1> QED
  BY <1>1 DEF Sends, TypeOK

LEMMA InitTypeOK == Init => TypeOK
<1> SUFFICES ASSUME Init PROVE TypeOK
  OBVIOUS
<1>1. RegistryTypeOK
  BY DEF Init, RegistryInit, RegistryTypeOK
<1> QED
  BY <1>1, MessageTypes, WireAssumption DEF Init, TypeOK, Results

\* The next number is a call that has not been made.
LEMMA NextCall ==
  ASSUME TypeOK, CallInv, made < NCalls
  PROVE  /\ made \in Nat /\ made + 1 \in Calls /\ made + 1 \in 0 .. NCalls
         /\ made + 1 \notin 1 .. made /\ made + 1 \notin pending
         /\ 1 .. (made + 1) = (1 .. made) \cup {made + 1}
         /\ kind[made + 1] = NoCall /\ reported[made + 1] = "no"
<1>1. NCalls \in Nat /\ made \in 0 .. NCalls /\ pending \subseteq 1 .. made
  BY WireAssumption DEF TypeOK
<1>2. made \in Nat /\ made + 1 \in Calls /\ made + 1 \in 0 .. NCalls /\ made + 1 \notin 1 .. made
      /\ ~(made + 1 <= made) /\ 1 .. (made + 1) = (1 .. made) \cup {made + 1}
  BY <1>1 DEF Calls
<1> QED
  BY <1>1, <1>2 DEF CallInv

\* What the writer of the client keeps.
LEMMA WriterTypeOK ==
  ASSUME TypeOK, CallInv, NEW k \in Kinds, WriteRequest(k) \/ WriteFails(k)
  PROVE  TypeOK'
<1> USE DEF clientVars, serverVars
<1>0. toServer \in Seq(Item)
  BY DEF TypeOK
<1>1. ASSUME made < NCalls
      PROVE  /\ <<Request(made + 1)>> \in Seq(Item)
             /\ <<Request(made + 1), Body(made + 1)>> \in Seq(Item)
  BY <1>1, NextCall, MessageTypes
<1>2. CASE WriteRequest(k)
  <2>1. toServer' \in Seq(Item)
    BY <1>0, <1>1, <1>2, SendsTypes DEF WriteRequest
  <2>2. /\ made' = made + 1 /\ made < NCalls /\ pending' = pending \cup {made + 1}
        /\ kind' = [kind EXCEPT ![made + 1] = k] /\ reported' = reported
    BY <1>2 DEF WriteRequest
  <2>3. clientAt = "body" => clientCall # made + 1
    BY <2>2, NextCall DEF CallInv
  <2>4. /\ pending' \subseteq 1 .. made'
        /\ \A r \in pending' : kind'[r] \in Kinds /\ reported'[r] = "no"
    <3>1. /\ pending \subseteq 1 .. made /\ kind \in [Calls -> Kinds \cup {NoCall}]
          /\ \A r \in pending : kind[r] \in Kinds /\ reported[r] = "no"
      BY DEF TypeOK
    <3>2. /\ made + 1 \in Calls /\ made + 1 \notin pending /\ reported[made + 1] = "no"
          /\ 1 .. (made + 1) = (1 .. made) \cup {made + 1}
      BY <2>2, NextCall
    <3>3. kind'[made + 1] = k /\ \A r \in pending : kind'[r] = kind[r]
      BY <2>2, <3>1, <3>2
    <3> QED
      BY <2>2, <3>1, <3>2, <3>3
  <2>5. kind' \in [Calls -> Kinds \cup {NoCall}] /\ made' \in 0 .. NCalls
    BY <2>2, NextCall DEF TypeOK
  <2>6. clientAt' = "body" => clientCall' \in Calls \ pending'
    BY <1>2, <2>2, <2>3 DEF WriteRequest, TypeOK
  <2> QED
    BY <1>2, <2>1, <2>2, <2>4, <2>5, <2>6 DEF WriteRequest, TypeOK, RegistryTypeOK
<1>3. CASE WriteFails(k)
  <2>1. toServer' \in Seq(Item)
    BY <1>0, <1>1, <1>3, SendsTypes DEF WriteFails
  <2>2. /\ made' = made + 1 /\ made < NCalls
        /\ kind' = [kind EXCEPT ![made + 1] = k]
    BY <1>3 DEF WriteFails
  <2>3. PICK first \in 1 .. (made + 1) :
           LET failed == {q \in pending : q >= first} \cup {made + 1}
           IN  /\ pending' = pending \ failed
               /\ reported' = [q \in Calls |-> IF q \in failed THEN "write" ELSE reported[q]]
    BY <1>3 DEF WriteFails
  <2>4. /\ pending' \subseteq pending
        /\ \A r \in pending' : reported'[r] = reported[r]
        /\ reported' \in [Calls -> Results \cup {"no"}]
    <3>1. pending \subseteq Calls /\ reported \in [Calls -> Results \cup {"no"}]
      BY WireAssumption DEF TypeOK, Calls
    <3>2. "write" \in Results
      BY DEF Results
    <3> QED
      BY <2>3, <3>1, <3>2
  <2>5. kind' \in [Calls -> Kinds \cup {NoCall}] /\ made' \in 0 .. NCalls
    BY <2>2, NextCall DEF TypeOK
  <2>6. /\ pending' \subseteq 1 .. made'
        /\ \A r \in pending' : kind'[r] \in Kinds /\ reported'[r] = "no"
    BY <2>2, <2>4, NextCall DEF TypeOK
  <2> QED
    BY <1>3, <2>1, <2>4, <2>5, <2>6 DEF WriteFails, TypeOK, RegistryTypeOK
<1> QED
  BY <1>2, <1>3

LEMMA KeepAliveTypeOK ==
  ASSUME TypeOK, KeepAlive
  PROVE  TypeOK'
<1> USE DEF clientVars, serverVars
<1>1. <<Request(NoCall)>> \in Seq(Item)
  BY MessageTypes
<1>2. toServer' \in Seq(Item)
  BY <1>1, SendsTypes DEF KeepAlive
<1>3. keepAlives' \in 0 .. MaxKeepAlives
  BY WireAssumption DEF KeepAlive, TypeOK
<1> QED
  BY <1>2, <1>3 DEF KeepAlive, TypeOK, RegistryTypeOK

\* What an item of the stream is.
LEMMA HeadRequest ==
  ASSUME TypeOK, toServer # <<>>
  PROVE  /\ Head(toServer).call \in Calls \cup {NoCall} /\ Tail(toServer) \in Seq(Item)
         /\ Head(toServer).what \in {"header", "body"}
<1>1. Head(toServer) \in Item /\ Tail(toServer) \in Seq(Item)
  BY TailStream DEF TypeOK
<1> QED
  BY <1>1 DEF Item

LEMMA HeadResponse ==
  ASSUME TypeOK, toClient # <<>>
  PROVE  /\ Head(toClient).call \in Calls \cup {NoCall} /\ Tail(toClient) \in Seq(Item)
         /\ Head(toClient).what \in {"header", "body"}
         /\ Head(toClient).noData \in BOOLEAN /\ Head(toClient).err \in BOOLEAN
<1>1. Head(toClient) \in Item /\ Tail(toClient) \in Seq(Item)
  BY TailStream DEF TypeOK
<1> QED
  BY <1>1 DEF Item

\* What the server writes is a header, or a header with the body of its call.
LEMMA ErrorType ==
  ASSUME TypeOK, NEW r \in Calls, SendError(r)
  PROVE  toClient' \in Seq(Item)
<1>1. (IF kind[r].name = <<>> THEN <<>> ELSE <<Response(r, TRUE, TRUE)>>) \in Seq(Item)
  BY MessageTypes
<1> QED
  BY <1>1, SendsTypes DEF SendError

\* What the read loop of the server keeps.
LEMMA ServerReaderTypeOK ==
  ASSUME TypeOK, ServerPlaceInv, ServerReader \/ NoHeader
  PROVE  TypeOK'
<1> USE DEF clientVars, serverVars, ServerGoes
<1>1. CASE ReadNoHeader
  BY <1>1, HeadRequest, MessageTypes
     DEF ReadNoHeader, ServerReads, ServerCloses, TypeOK, RegistryTypeOK
<1>2. CASE ReadPing
  <2>1. <<Response(Head(toServer).call, TRUE, FALSE)>> \in Seq(Item)
    BY <1>2, HeadRequest, MessageTypes DEF ReadPing, ServerReads
  <2>2. toClient' \in Seq(Item)
    BY <1>2, <2>1, SendsTypes DEF ReadPing
  <2> QED
    BY <1>2, <2>2, HeadRequest DEF ReadPing, ServerReads, TypeOK, RegistryTypeOK
<1>3. CASE ReadRequestHeader
  <2>1. Head(toServer).call \in Calls
    BY <1>3, HeadRequest DEF ReadRequestHeader, ServerReads, IsPing
  <2> QED
    BY <1>3, <2>1, HeadRequest DEF ReadRequestHeader, ServerReads, TypeOK, RegistryTypeOK
<1>4. CASE ReadArgs
  <2>1. serverCall \in Calls /\ Head(toServer).call \in Calls
    BY <1>4 DEF ReadArgs, ServerReads, ServerPlaceInv, BodyNext, TypeOK
  <2>2. (IF kind[serverCall].reply THEN <<>>
         ELSE <<Response(serverCall, FALSE, FALSE), Body(serverCall)>>) \in Seq(Item)
    BY <2>1, MessageTypes
  <2>3. toClient' \in Seq(Item)
    BY <1>4, <2>2, SendsTypes DEF ReadArgs
  <2>4. started' \subseteq [call : Calls, args : Calls] /\ running' \subseteq Calls
    BY <1>4, <2>1 DEF ReadArgs, TypeOK
  <2> QED
    BY <1>4, <2>3, <2>4, HeadRequest DEF ReadArgs, ServerReads, TypeOK, RegistryTypeOK
<1>5. CASE ReadArgsFails \/ SkipBody
  <2>1. serverCall \in Calls /\ SendError(serverCall)
    BY <1>5 DEF ReadArgsFails, SkipBody, ServerReads, TypeOK
  <2>2. toClient' \in Seq(Item)
    BY <2>1, ErrorType DEF SendError, Sends
  <2>3. stolen' \subseteq Calls
    BY <1>5 DEF ReadArgsFails, SkipBody, Steals, TypeOK
  <2> QED
    BY <1>5, <2>2, <2>3, HeadRequest
       DEF ReadArgsFails, SkipBody, ServerReads, TypeOK, RegistryTypeOK
<1>6. CASE NoBody
  <2>1. serverCall \in Calls /\ SendError(serverCall)
    BY <1>6 DEF NoBody, TypeOK
  <2>2. toClient' \in Seq(Item)
    BY <2>1, ErrorType DEF SendError, Sends
  <2> QED
    BY <1>6, <2>2 DEF NoBody, TypeOK, RegistryTypeOK
<1>7. CASE NoHeader
  BY <1>7, MessageTypes DEF NoHeader, ServerCloses, TypeOK, RegistryTypeOK
<1> QED
  BY <1>1, <1>2, <1>3, <1>4, <1>5, <1>6, <1>7 DEF ServerReader

\* What the calls of the server keep.
LEMMA MethodTypeOK ==
  ASSUME TypeOK, NEW r \in Calls,
         \/ \E ret \in {"nil", "error"} : MethodReturns(r, ret)
         \/ EncodeFails(r) \/ MethodPanics(r)
  PROVE  TypeOK'
<1> USE DEF clientVars, serverVars
<1>1. ASSUME NEW ret \in {"nil", "error"}, MethodReturns(r, ret) PROVE TypeOK'
  <2>1. (IF kind[r].reply THEN MethodResponse(r, ret) ELSE <<>>) \in Seq(Item)
    BY MessageTypes DEF MethodResponse
  <2>2. toClient' \in Seq(Item)
    BY <1>1, <2>1, SendsTypes DEF MethodReturns
  <2> QED
    BY <1>1, <2>2 DEF MethodReturns, TypeOK, RegistryTypeOK
<1>2. CASE EncodeFails(r)
  <2>1. toClient' \in Seq(Item)
    <3>1. \A u \in Seq(Item), h \in Item : Append(u, h) \in Seq(Item)
      OBVIOUS
    <3> QED
      BY <1>2, <3>1, ItemTypes DEF EncodeFails, TypeOK
  <2>2. toServer' \in Seq(Item)
    BY <1>2, MessageTypes DEF EncodeFails
  <2> QED
    BY <1>2, <2>1, <2>2 DEF EncodeFails, TypeOK, RegistryTypeOK
<1>3. CASE MethodPanics(r)
  BY <1>3 DEF MethodPanics, TypeOK, RegistryTypeOK
<1> QED
  BY <1>1, <1>2, <1>3

\* Reporting calls keeps the types.
LEMMA ReportsType ==
  ASSUME TypeOK, NEW S, NEW e \in Results, NEW ended \in BOOLEAN, Reports(S, e, ended)
  PROVE  /\ reported' \in [Calls -> Results \cup {"no"}]
         /\ pending' \subseteq pending /\ clientAt' \in {"header", "end"}
         /\ \A r \in pending' : r \notin S /\ reported'[r] = reported[r]
         /\ UNCHANGED <<kind, made, writing, keepAlives>>
<1>1. pending \subseteq Calls
  BY WireAssumption DEF TypeOK, Calls
<1> QED
  BY <1>1 DEF Reports, TypeOK, Results

\* What the reader of the client keeps.
LEMMA ClientReaderTypeOK ==
  ASSUME TypeOK, CallInv, ClientReader
  PROVE  TypeOK'
<1> USE DEF clientVars, serverVars
<1>0. "down" \in Results /\ "remote" \in Results /\ "nil" \in Results /\ "body" \in Results
  BY DEF Results
<1>1. CASE ReadNoResponse
  BY <1>0, <1>1, HeadResponse, ReportsType, ZenonT(60)
     DEF ReadNoResponse, ClientReads, TypeOK, RegistryTypeOK
<1>2. CASE ReadResponseHeader
  <2> DEFINE h == Head(toClient)
  <2>0. /\ toClient # <<>> /\ toClient' = Tail(toClient) /\ clientAt = "header"
        /\ UNCHANGED <<services, open, toServer, serverVars, stolen, derailed>>
    BY <1>2 DEF ReadResponseHeader, ClientReads
  <2>1. CASE UNCHANGED clientVars
    BY <2>0, <2>1, HeadResponse DEF TypeOK, RegistryTypeOK
  <2>2. CASE /\ h.call \in pending
             /\ Reports({h.call}, IF h.err THEN "remote" ELSE "nil", FALSE)
             /\ UNCHANGED gotReply
    <3>1. (IF h.err THEN "remote" ELSE "nil") \in Results
      BY <1>0
    <3> QED
      BY <2>0, <2>2, <3>1, HeadResponse, ReportsType, ZenonT(60) DEF TypeOK, RegistryTypeOK
  <2>3. CASE /\ h.call # NoCall
             /\ clientAt' = IF h.call \in pending THEN "body" ELSE "skip"
             /\ clientCall' = h.call
             /\ pending' = pending \ {h.call}
             /\ UNCHANGED <<kind, made, writing, reported, gotReply, keepAlives>>
    BY <2>0, <2>3, HeadResponse, ZenonT(60) DEF TypeOK, RegistryTypeOK
  <2> QED
    BY <1>2, <2>1, <2>2, <2>3 DEF ReadResponseHeader, CallOf, IsPing
<1>3. CASE ReadReply
  <2>1. clientCall \in Calls
    BY <1>3 DEF ReadReply, ClientReads, TypeOK
  <2>2. gotReply' \in [Calls -> Calls \cup {NoCall}]
    BY <1>3, <2>1, HeadResponse DEF ReadReply, ClientReads, TypeOK
  <2> QED
    BY <1>0, <1>3, <2>2, HeadResponse, ReportsType, ZenonT(60)
       DEF ReadReply, ClientReads, TypeOK, RegistryTypeOK
<1>4. CASE ReadReplyFails
  BY <1>0, <1>4, HeadResponse, ReportsType, ZenonT(60)
     DEF ReadReplyFails, ClientReads, TypeOK, RegistryTypeOK
<1>5. CASE SkipReply
  BY <1>5, HeadResponse DEF SkipReply, ClientReads, TypeOK, RegistryTypeOK
<1>6. CASE ReadEnd
  BY <1>0, <1>6, ReportsType DEF ReadEnd, TypeOK, RegistryTypeOK
<1> QED
  BY <1>1, <1>2, <1>3, <1>4, <1>5, <1>6 DEF ClientReader
LEMMA BreakTypeOK == TypeOK /\ NetBreak => TypeOK'
BY MessageTypes DEF NetBreak, TypeOK, RegistryTypeOK, clientVars, serverVars

-----------------------------------------------------------------------------
(* Registered services.                                                    *)

LEMMA SuitableMethods ==
  ASSUME NEW v \in Receivers
  PROVE  /\ suitableMethods(v) \subseteq MethodsOf[v]
         /\ \A m \in suitableMethods(v) :
               Len(m.ins) = 3 /\ m.ins[3].ptrs > 0 /\ m.outs = <<"error">>
BY DEF suitableMethods

LEMMA RegisterStep ==
  ASSUME RegistryInv, NEW v \in Receivers,
         NEW sname \in ServiceNames \cup {TypeName[u] : u \in Receivers}, register(v, sname)
  PROVE  RegistryInv'
<1> DEFINE s == [name |-> sname, rcvr |-> v, method |-> suitableMethods(v)]
<1>1. services' = services \cup {s} /\ sname # <<>> /\ \A t \in services : t.name # sname
  BY DEF register
<1>2. s \in Service
  BY SuitableMethods DEF Service
<1>3. s.name = sname /\ s.rcvr = v /\ s.method = suitableMethods(v)
  OBVIOUS
<1> HIDE DEF s
<1> QED
  BY <1>1, <1>2, <1>3 DEF RegistryInv, RegistryTypeOK

LEMMA RegistersStep == RegistryInv /\ Registers => RegistryInv'
<1> SUFFICES ASSUME RegistryInv, Registers PROVE RegistryInv'
  OBVIOUS
<1>1. \/ \E v \in Receivers : register(v, TypeName[v])
      \/ \E v \in Receivers, name \in ServiceNames : register(v, name)
  BY DEF Registers, Register, RegisterName
<1>2. ASSUME NEW v \in Receivers, register(v, TypeName[v]) PROVE RegistryInv'
  <2>1. TypeName[v] \in ServiceNames \cup {TypeName[u] : u \in Receivers}
    OBVIOUS
  <2> QED
    BY <1>2, <2>1, RegisterStep
<1>3. ASSUME NEW v \in Receivers, NEW name \in ServiceNames, register(v, name)
      PROVE  RegistryInv'
  BY <1>3, RegisterStep
<1> QED
  BY <1>1, <1>2, <1>3

LEMMA ServicesKept ==
  [Next]_vars => Registers \/ services' = services
BY DEF Next, Client, Server, ClientReader, ServerReader, vars, NetBreak,
       WriteRequest, WriteFails, KeepAlive,
       ReadNoResponse, ReadResponseHeader, ReadReply, ReadReplyFails, SkipReply, ReadEnd,
       ReadNoHeader, ReadPing, ReadRequestHeader, ReadArgs, ReadArgsFails, SkipBody, NoBody,
       NoHeader, MethodReturns, EncodeFails, MethodPanics

LEMMA RegistryStep == RegistryInv /\ [Next]_vars => RegistryInv'
<1> SUFFICES ASSUME RegistryInv, services' = services PROVE RegistryInv'
  BY ServicesKept, RegistersStep
<1> QED
  BY DEF RegistryInv, RegistryTypeOK

\* The name of a method, in front of its service.
LEMMA MethodName ==
  ASSUME NEW S, NEW q \in Seq(S), NEW x \in S, q # <<>>
  PROVE  /\ ~(Len(q \o <<x>>) < 2)
         /\ Len(q) = 1 => <<Head(q \o <<x>>)>> = q /\ Tail(q \o <<x>>) = <<x>>
         /\ Len(q) # 1 => \A n : <<n>> # Tail(q \o <<x>>)
<1> DEFINE name == q \o <<x>>
<1>1. /\ Len(q) \in Nat /\ Len(q) > 0 /\ name \in Seq(S) /\ Len(name) = Len(q) + 1
      /\ \A i \in 1 .. Len(q) : name[i] = q[i]
      /\ name[Len(q) + 1] = x
  <2>1. <<x>> \in Seq(S) /\ Len(<<x>>) = 1 /\ <<x>>[1] = x
    OBVIOUS
  <2>2. \A t \in Seq(S) :
           /\ q \o t \in Seq(S) /\ Len(q \o t) = Len(q) + Len(t)
           /\ \A i \in 1 .. Len(q) : (q \o t)[i] = q[i]
           /\ \A j \in 1 .. Len(t) : (q \o t)[Len(q) + j] = t[j]
    OBVIOUS
  <2>3. Len(q) \in Nat /\ Len(q) > 0
    OBVIOUS
  <2> QED
    BY <2>1, <2>2, <2>3
<1> HIDE DEF name
<1>2. name # <<>> /\ Head(name) = name[1]
  BY <1>1
<1>3. /\ Tail(name) \in Seq(S) /\ Len(Tail(name)) = Len(q)
      /\ \A i \in 1 .. Len(q) : Tail(name)[i] = name[i + 1]
  BY <1>1
<1>4. ASSUME Len(q) = 1 PROVE <<Head(name)>> = q /\ Tail(name) = <<x>>
  <2>1. Head(name) = q[1]
    BY <1>1, <1>2, <1>4
  <2>2. Tail(name)[1] = x
    <3>1. 1 \in 1 .. Len(q) /\ name[1 + 1] = x
      BY <1>1, <1>4
    <3> QED
      BY <1>3, <3>1
  <2>3. \A t \in Seq(S) : Len(t) = 1 => t = <<t[1]>>
    OBVIOUS
  <2> QED
    BY <1>3, <1>4, <2>1, <2>2, <2>3
<1>5. ASSUME Len(q) # 1 PROVE \A n : <<n>> # Tail(name)
  <2>1. \A n : Len(<<n>>) = 1
    OBVIOUS
  <2> QED
    BY <1>3, <1>5, <2>1
<1>6. ~(Len(name) < 2)
  BY <1>1
<1> QED
  BY <1>4, <1>5, <1>6 DEF name

\* Looking up the name of a registered method.
LEMMA LookupRegistered ==
  ASSUME RegistryInv, NEW s \in services, NEW m \in s.method
  PROVE  getSeviceMethod(s.name \o <<m.name>>) =
            IF Len(s.name) = 1 THEN {[rcvr |-> s.rcvr, method |-> m]} ELSE {}
<1> DEFINE name == s.name \o <<m.name>>
           found(t) == {n \in t.method : <<n.name>> = Tail(name)}
           results(t) == {[rcvr |-> t.rcvr, method |-> n] : n \in found(t)}
<1>1. /\ s.name \in Seq(STRING) /\ s.name # <<>> /\ s.rcvr \in Receivers
      /\ s.method = suitableMethods(s.rcvr)
  <2>1. s \in Service
    BY DEF RegistryInv, RegistryTypeOK
  <2>2. s.name \in ServiceNames \cup {TypeName[v] : v \in Receivers} /\ s.rcvr \in Receivers
    BY <2>1 DEF Service
  <2> QED
    BY <2>2, RegistryAssumption DEF RegistryInv
<1>2. \A n \in s.method : n \in MethodsOf[s.rcvr] /\ n.name \in STRING
  BY <1>1, SuitableMethods, RegistryAssumption DEF IsMethod
<1>3. /\ ~(Len(name) < 2)
      /\ Len(s.name) = 1 => <<Head(name)>> = s.name /\ Tail(name) = <<m.name>>
      /\ Len(s.name) # 1 => \A n : <<n>> # Tail(name)
  BY <1>1, <1>2, MethodName
<1> HIDE DEF name
<1>4. getSeviceMethod(name) =
         UNION {results(t) : t \in {t \in services : t.name = <<Head(name)>>}}
  BY <1>3 DEF getSeviceMethod
<1>5. CASE Len(s.name) # 1
  <2>1. \A t : found(t) = {}
    BY <1>3, <1>5
  <2>2. \A t : results(t) = {}
    BY <2>1
  <2> HIDE DEF results
  <2>3. getSeviceMethod(name) = {}
    BY <1>4, <2>2
  <2> QED
    BY <1>5, <2>3 DEF name
<1>6. CASE Len(s.name) = 1
  <2>1. {t \in services : t.name = <<Head(name)>>} = {s}
    BY <1>3, <1>6 DEF RegistryInv
  <2>2. \A n \in s.method : <<n.name>> = Tail(name) <=> n = m
    <3>1. \A x, y \in STRING : <<x>> = <<y>> => x = y
      OBVIOUS
    <3>2. \A n \in s.method : n.name = m.name => n = m
      BY <1>1, <1>2, RegistryAssumption
    <3> QED
      BY <1>2, <1>3, <1>6, <3>1, <3>2
  <2>3. found(s) = {m}
    BY <2>2
  <2> HIDE DEF found
  <2>4. results(s) = {[rcvr |-> s.rcvr, method |-> m]}
    BY <2>3
  <2> HIDE DEF results
  <2>5. UNION {results(t) : t \in {s}} = results(s)
    OBVIOUS
  <2>6. getSeviceMethod(name) = {[rcvr |-> s.rcvr, method |-> m]}
    BY <1>4, <2>1, <2>4, <2>5
  <2> QED
    BY <1>6, <2>6 DEF name
<1> QED
  BY <1>5, <1>6

LEMMA RegistryIsServable == RegistryInv => RegisteredIsServable
<1> SUFFICES ASSUME RegistryInv, NEW s \in services, NEW m \in s.method
             PROVE  /\ Len(m.ins) = 3 /\ m.ins[3].ptrs > 0
                    /\ \A i \in DOMAIN m.outs : m.outs[i] = "error"
                    /\ getSeviceMethod(s.name \o <<m.name>>) =
                          IF Len(s.name) = 1 THEN {[rcvr |-> s.rcvr, method |-> m]} ELSE {}
  BY DEF RegisteredIsServable
<1>1. s.rcvr \in Receivers /\ s.method = suitableMethods(s.rcvr)
  BY DEF RegistryInv, RegistryTypeOK, Service
<1>2. Len(m.ins) = 3 /\ m.ins[3].ptrs > 0 /\ m.outs = <<"error">>
  BY <1>1, SuitableMethods
<1> QED
  BY <1>2, LookupRegistered
LEMMA ServableNext == RegistryInv' => RegisteredIsServable'
BY RegistryIsServable, PTL

LEMMA ServicesGrow == [Next]_vars => services \subseteq services'
BY ServicesKept DEF Registers, Register, RegisterName, register

LEMMA FoundAgainStep ==
  RegistryInv /\ [Next]_vars =>
     [\A s \in services : \A m \in s.method :
         LET name == s.name \o <<m.name>>
         IN  getSeviceMethod(name) # {} => getSeviceMethod(name)' = getSeviceMethod(name)]_services
<1> SUFFICES ASSUME RegistryInv, [Next]_vars, NEW s \in services, NEW m \in s.method
             PROVE  getSeviceMethod(s.name \o <<m.name>>)' = getSeviceMethod(s.name \o <<m.name>>)
  OBVIOUS
<1>1. RegisteredIsServable /\ RegisteredIsServable'
  BY RegistryIsServable, RegistryStep, ServableNext
<1>2. s \in services'
  BY ServicesGrow
<1>3. getSeviceMethod(s.name \o <<m.name>>) =
         IF Len(s.name) = 1 THEN {[rcvr |-> s.rcvr, method |-> m]} ELSE {}
  BY <1>1 DEF RegisteredIsServable
<1>4. getSeviceMethod(s.name \o <<m.name>>)' =
         IF Len(s.name) = 1 THEN {[rcvr |-> s.rcvr, method |-> m]} ELSE {}
  BY <1>1, <1>2 DEF RegisteredIsServable
<1> QED
  BY <1>3, <1>4
-----------------------------------------------------------------------------
(* What is never taken back.                                               *)

Grows ==
  /\ made' \in Nat /\ made' >= made
  /\ \A r \in 1 .. made : kind'[r] = kind[r]
  /\ \A r \in Calls : reported[r] = "write" => reported'[r] = "write"
  /\ started \subseteq started'
  /\ \A r \in Calls : returned[r] # "no" => returned'[r] = returned[r]
  /\ open' => open

LEMMA Numbers ==
  ASSUME TypeOK
  PROVE  /\ made \in Nat /\ NCalls \in Nat /\ made <= NCalls /\ 1 .. made \subseteq Calls
         /\ pending \subseteq 1 .. made
BY WireAssumption DEF TypeOK, Calls

LEMMA WriterGrows ==
  ASSUME TypeOK, CallInv, NEW k \in Kinds, WriteRequest(k) \/ WriteFails(k)
  PROVE  Grows
<1> USE DEF clientVars, serverVars
<1>1. made' = made + 1 /\ made < NCalls /\ kind' = [kind EXCEPT ![made + 1] = k]
  BY DEF WriteRequest, WriteFails
<1>2. \A r \in 1 .. made : kind'[r] = kind[r]
  <2>1. kind \in [Calls -> Kinds \cup {NoCall}]
    BY DEF TypeOK
  <2> QED
    BY <1>1, <2>1, NextCall, Numbers
<1>3. \A r \in Calls : reported[r] = "write" => reported'[r] = "write"
  <2>1. CASE WriteRequest(k)
    BY <2>1 DEF WriteRequest
  <2>2. CASE WriteFails(k)
    <3>1. PICK first \in 1 .. (made + 1) :
             LET failed == {q \in pending : q >= first} \cup {made + 1}
             IN  reported' = [q \in Calls |-> IF q \in failed THEN "write" ELSE reported[q]]
      BY <2>2 DEF WriteFails
    <3> QED
      BY <3>1
  <2> QED
    BY <2>1, <2>2
<1> QED
  BY <1>1, <1>2, <1>3, Numbers DEF WriteRequest, WriteFails, Grows

\* A call that was failed by the writer is not reported again.
LEMMA ReaderGrows ==
  ASSUME TypeOK, CallInv, ClientReader
  PROVE  Grows
<1> USE DEF clientVars, serverVars
<1>1. /\ made' = made /\ kind' = kind /\ started' = started /\ returned' = returned
      /\ open' = open
  BY DEF ClientReader, ReadNoResponse, ReadResponseHeader, ReadReply, ReadReplyFails, SkipReply,
         ReadEnd, Reports
<1>2. ASSUME NEW S, NEW e, NEW ended, Reports(S, e, ended),
             \A r \in S \cap Calls : reported[r] = "no"
      PROVE  \A r \in Calls : reported[r] = "write" => reported'[r] = "write"
  BY <1>2 DEF Reports, TypeOK
<1>3. \A r \in Calls : reported[r] = "write" => reported'[r] = "write"
  <2>1. CASE ReadNoResponse
    BY <1>2, <2>1 DEF ReadNoResponse
  <2>2. CASE ReadResponseHeader
    <3> DEFINE r == Head(toClient).call
    <3>1. CASE reported' = reported
      BY <3>1
    <3>2. CASE \E e : r \in pending /\ Reports({r}, e, FALSE)
      BY <1>2, <3>2 DEF TypeOK
    <3> QED
      BY <2>2, <3>1, <3>2 DEF ReadResponseHeader, CallOf
  <2>3. CASE ReadReply \/ ReadReplyFails
    BY <1>2, <2>3 DEF ReadReply, ReadReplyFails, ClientReads, CallInv
  <2>4. CASE SkipReply
    BY <2>4 DEF SkipReply
  <2>5. CASE ReadEnd
    BY <1>2, <2>5 DEF ReadEnd, CallInv
  <2> QED
    BY <2>1, <2>2, <2>3, <2>4, <2>5 DEF ClientReader
<1> QED
  BY <1>1, <1>3, Numbers DEF Grows

LEMMA ServerGrows ==
  ASSUME TypeOK, StartedInv, Server
  PROVE  Grows
<1> USE DEF clientVars, serverVars
<1>1. CASE ServerReader \/ NoHeader
  <2>1. /\ made' = made /\ kind' = kind /\ reported' = reported /\ returned' = returned
        /\ started \subseteq started' /\ (open' => open)
    BY <1>1 DEF ServerReader, NoHeader, ReadNoHeader, ReadPing, ReadRequestHeader, ReadArgs,
                ReadArgsFails, SkipBody, NoBody, ServerCloses
  <2> QED
    BY <2>1, Numbers DEF Grows
<1>2. ASSUME NEW r \in Calls,
             \/ \E ret \in {"nil", "error"} : MethodReturns(r, ret)
             \/ EncodeFails(r) \/ MethodPanics(r)
      PROVE  Grows
  <2>1. /\ made' = made /\ kind' = kind /\ reported' = reported
        /\ started' = started /\ (open' => open) /\ returned[r] = "no"
        /\ \A q \in Calls \ {r} : returned'[q] = returned[q]
    <3>1. /\ made' = made /\ kind' = kind /\ reported' = reported
          /\ started' = started /\ (open' => open) /\ r \in running
      <4>1. ASSUME NEW ret, MethodReturns(r, ret)
            PROVE  /\ made' = made /\ kind' = kind /\ reported' = reported
                   /\ started' = started /\ (open' => open) /\ r \in running
        BY <4>1 DEF MethodReturns
      <4>2. CASE EncodeFails(r)
        BY <4>2 DEF EncodeFails
      <4>3. CASE MethodPanics(r)
        BY <4>3 DEF MethodPanics
      <4> QED
        BY <1>2, <4>1, <4>2, <4>3
    <3>2. returned' = returned \/ \E ret : returned' = [returned EXCEPT ![r] = ret]
      BY <1>2 DEF MethodReturns, EncodeFails, MethodPanics
    <3> QED
      BY <3>1, <3>2 DEF StartedInv, TypeOK
  <2> QED
    BY <2>1, Numbers DEF Grows
<1> QED
  BY <1>1, <1>2 DEF Server

LEMMA GrowsStep == TypeOK /\ CallInv /\ StartedInv /\ [Next]_vars => Grows
<1> SUFFICES ASSUME TypeOK, CallInv, StartedInv, [Next]_vars PROVE Grows
  OBVIOUS
<1>1. ASSUME NEW k \in Kinds, WriteRequest(k) \/ WriteFails(k) PROVE Grows
  BY <1>1, WriterGrows
<1>2. CASE KeepAlive \/ Registers \/ NetBreak \/ UNCHANGED vars
  BY <1>2, Numbers DEF KeepAlive, Registers, NetBreak, vars, clientVars, serverVars, Grows
<1> QED
  BY <1>1, <1>2, ReaderGrows, ServerGrows DEF Next, Client

\* What follows for the parts of the invariant.
LEMMA GrowsKeeps ==
  ASSUME TypeOK, CallInv, StartedInv, Grows
  PROVE  /\ \A r \in 1 .. made : Misleading(r) => Misleading(r)'
         /\ \A r \in 1 .. made : IsPing(r)' <=> IsPing(r)
         /\ \A r \in 1 .. made : Served(r) => Served(r)'
         /\ Misled => Misled'
         /\ SomeError => SomeError'
         /\ IsPing(NoCall) /\ IsPing(NoCall)'
<1>0. 1 .. made \subseteq Calls
  BY Numbers
<1>1. \A r \in 1 .. made : Misleading(r) => Misleading(r)'
  BY <1>0 DEF Grows, Misleading
<1>2. \A r \in 1 .. made : IsPing(r)' <=> IsPing(r)
  BY DEF Grows, IsPing
<1>3. \A r \in 1 .. made : Served(r) => Served(r)'
  BY <1>0 DEF Grows, Served
<1>4. Misled => Misled'
  <2>1. \A r \in Calls : Misleading(r) => r \in 1 .. made
    BY Numbers DEF Misleading, CallInv, Calls
  <2> QED
    BY <1>1, <2>1 DEF Misled
<1>5. SomeError => SomeError'
  BY DEF Grows, SomeError
<1> QED
  BY <1>1, <1>2, <1>3, <1>4, <1>5 DEF IsPing
-----------------------------------------------------------------------------
(* Streams of requests.                                                    *)

LEMMA ItemCalls ==
  ASSUME NEW s \in Seq(Item), Known(s), NEW i \in 1 .. Len(s)
  PROVE  /\ s[i] \in Item /\ s[i].what \in {"header", "body"}
         /\ s[i].call \in 1 .. made \/ s[i].call = NoCall
<1>1. s[i] \in Item
  OBVIOUS
<1> QED
  BY <1>1 DEF Known, Item

\* A stream stays one while calls are made and reported.
LEMMA RequestKept ==
  ASSUME TypeOK, CallInv, StartedInv, Grows, NEW s \in Seq(Item), RequestStream(s)
  PROVE  RequestStream(s)'
<1>1. Known(s)'
  <2>1. 1 .. made \subseteq 1 .. made'
    BY Numbers DEF Grows
  <2> QED
    BY <2>1 DEF Known, RequestStream
<1>2. ASSUME NEW i \in 1 .. Len(s), s[i].what = "header"
      PROVE  (\/ Followed(s, i) <=> ~IsPing(s[i].call)
              \/ s[i].call # NoCall /\ Misleading(s[i].call))'
  <2>1. s[i].call \in 1 .. made \/ s[i].call = NoCall
    BY ItemCalls DEF RequestStream
  <2>2. \/ Followed(s, i) <=> ~IsPing(s[i].call)
        \/ s[i].call # NoCall /\ Misleading(s[i].call)
    BY <1>2 DEF RequestStream
  <2> QED
    BY <2>1, <2>2, GrowsKeeps
<1> QED
  BY <1>1, <1>2 DEF RequestStream

LEMMA KnownTail ==
  ASSUME NEW s \in Seq(Item), s # <<>>, Known(s)
  PROVE  Known(Tail(s))
BY TailStream DEF Known

LEMMA RequestTail ==
  ASSUME NEW s \in Seq(Item), s # <<>>, RequestStream(s)
  PROVE  RequestStream(Tail(s))
<1>1. Paired(Tail(s)) /\ Known(Tail(s))
  BY TailPaired, KnownTail DEF RequestStream
<1>2. \A i \in 1 .. Len(Tail(s)) : /\ i + 1 \in 1 .. Len(s) /\ Tail(s)[i] = s[i + 1]
                                   /\ Followed(Tail(s), i) <=> Followed(s, i + 1)
  BY TailStream
<1>3. ASSUME NEW i \in 1 .. Len(Tail(s)), NEW j \in 1 .. Len(Tail(s)),
             Tail(s)[i].what = "header", Tail(s)[j].what = "header",
             Tail(s)[i].call = Tail(s)[j].call, Tail(s)[i].call # NoCall
      PROVE  i = j
  <2>1. i + 1 = j + 1
    BY <1>2, <1>3 DEF RequestStream
  <2> QED
    BY <2>1
<1>4. ASSUME NEW i \in 1 .. Len(Tail(s)), Tail(s)[i].what = "header"
      PROVE  \/ Followed(Tail(s), i) <=> ~IsPing(Tail(s)[i].call)
             \/ Tail(s)[i].call # NoCall /\ Misleading(Tail(s)[i].call)
  BY <1>2, <1>4 DEF RequestStream
<1> QED
  BY <1>1, <1>3, <1>4 DEF RequestStream

\* Two streams that share no call, one after the other.
RequestsJoin ==
  \A s, t \in Seq(Item) :
     /\ RequestStream(s) /\ RequestStream(t) /\ ~BodyNext(t)
     /\ \A i \in 1 .. Len(s), j \in 1 .. Len(t) :
           s[i].call = t[j].call => s[i].call = NoCall
     => RequestStream(s \o t)

LEMMA KnownJoin ==
  ASSUME NEW s \in Seq(Item), NEW t \in Seq(Item), ~BodyNext(t), Known(s), Known(t)
  PROVE  Known(s \o t)
<1> SUFFICES ASSUME NEW i \in 1 .. Len(s \o t)
             PROVE  \/ (s \o t)[i].call \in 1 .. made
                    \/ (s \o t)[i].call = NoCall /\ (s \o t)[i].what = "header"
  BY DEF Known
<1>1. \/ i \in 1 .. Len(s) /\ (s \o t)[i] = s[i]
      \/ \E j \in 1 .. Len(t) : (s \o t)[i] = t[j]
  BY SentStream
<1> QED
  BY <1>1 DEF Known

LEMMA RequestJoin == RequestsJoin
<1> SUFFICES ASSUME NEW s \in Seq(Item), NEW t \in Seq(Item),
                    RequestStream(s), RequestStream(t), ~BodyNext(t),
                    \A i \in 1 .. Len(s), j \in 1 .. Len(t) :
                       s[i].call = t[j].call => s[i].call = NoCall
             PROVE  RequestStream(s \o t)
  BY DEF RequestsJoin
<1>1. Paired(s \o t) /\ Known(s \o t)
  BY SentPaired, KnownJoin DEF RequestStream
<1> DEFINE u == s \o t
<1>2. \A i \in 1 .. Len(u) :
         \/ i \in 1 .. Len(s) /\ u[i] = s[i] /\ (Followed(u, i) <=> Followed(s, i))
         \/ \E j \in 1 .. Len(t) : /\ i = Len(s) + j /\ u[i] = t[j]
                                   /\ Followed(u, i) <=> Followed(t, j)
  BY SentStream
<1> HIDE DEF u
<1>3. ASSUME NEW i \in 1 .. Len(u), NEW j \in 1 .. Len(u),
             u[i].what = "header", u[j].what = "header",
             u[i].call = u[j].call, u[i].call # NoCall
      PROVE  i = j
  <2>1. CASE i \in 1 .. Len(s) /\ u[i] = s[i] /\ j \in 1 .. Len(s) /\ u[j] = s[j]
    BY <1>3, <2>1 DEF RequestStream
  <2>2. ASSUME NEW k \in 1 .. Len(t), NEW l \in 1 .. Len(t), u[i] = t[k], u[j] = t[l],
               i = Len(s) + k, j = Len(s) + l
        PROVE  i = j
    BY <1>3, <2>2 DEF RequestStream
  <2>3. ASSUME NEW a \in 1 .. Len(s), NEW k \in 1 .. Len(t),
               {u[i], u[j]} = {s[a], t[k]}
        PROVE  FALSE
    BY <1>3, <2>3
  <2> QED
    BY <1>2, <2>1, <2>2, <2>3
<1>4. ASSUME NEW i \in 1 .. Len(u), u[i].what = "header"
      PROVE  \/ Followed(u, i) <=> ~IsPing(u[i].call)
             \/ u[i].call # NoCall /\ Misleading(u[i].call)
  BY <1>2, <1>4 DEF RequestStream
<1> QED
  BY <1>1, <1>3, <1>4 DEF RequestStream, u

LEMMA RequestJoinNext == RequestsJoin'
BY RequestJoin, PTL

\* What a client writes is a stream of requests.
NewRequests ==
  /\ RequestStream(<<Request(NoCall)>>)
  /\ \A r \in 1 .. made : IsPing(r) \/ Misleading(r) => RequestStream(<<Request(r)>>)
  /\ \A r \in 1 .. made : ~IsPing(r) \/ Misleading(r) => RequestStream(<<Request(r), Body(r)>>)

LEMMA RequestNew == TypeOK => NewRequests
<1> SUFFICES ASSUME TypeOK PROVE NewRequests
  OBVIOUS
<1>0. 1 .. made \subseteq Calls /\ NoCall \notin Calls
  BY Numbers, WireAssumption DEF Calls
<1>1. ASSUME NEW r \in Calls \cup {NoCall}, r = NoCall \/ r \in 1 .. made,
             IsPing(r) \/ (r # NoCall /\ Misleading(r))
      PROVE  RequestStream(<<Request(r)>>)
  <2> DEFINE s == <<Request(r)>>
  <2>1. Request(r) \in Item /\ Request(r).what = "header" /\ Request(r).call = r
    BY ItemTypes DEF Request
  <2>2. Len(s) = 1 /\ s[1] = Request(r) /\ Paired(s) /\ ~Followed(s, 1)
    BY <2>1, HeaderStream
  <2> HIDE DEF s
  <2>3. \A i \in 1 .. Len(s) : i = 1
    BY <2>2
  <2>4. Known(s)
    BY <1>1, <2>1, <2>2, <2>3 DEF Known
  <2> QED
    BY <1>1, <2>1, <2>2, <2>3, <2>4 DEF RequestStream, s
<1>2. ASSUME NEW r \in 1 .. made, ~IsPing(r) \/ Misleading(r)
      PROVE  RequestStream(<<Request(r), Body(r)>>)
  <2> DEFINE s == <<Request(r), Body(r)>>
  <2>1. /\ Request(r) \in Item /\ Request(r).what = "header" /\ Request(r).call = r
        /\ Body(r) \in Item /\ Body(r).what = "body" /\ Body(r).call = r
    BY <1>0, ItemTypes DEF Request, Body
  <2>2. /\ Len(s) = 2 /\ s[1] = Request(r) /\ s[2] = Body(r)
        /\ Paired(s) /\ Followed(s, 1) /\ ~Followed(s, 2)
    BY <2>1, MessageStream
  <2> HIDE DEF s
  <2>3. \A i \in 1 .. Len(s) : i = 1 \/ i = 2
    BY <2>2
  <2>4. Known(s)
    BY <1>2, <2>1, <2>2, <2>3 DEF Known
  <2>5. \A i \in 1 .. Len(s) : s[i].what = "header" => i = 1
    BY <2>1, <2>2, <2>3
  <2>6. r # NoCall
    BY <1>0
  <2> QED
    BY <1>2, <2>1, <2>2, <2>4, <2>5, <2>6 DEF RequestStream, s
<1>3. IsPing(NoCall)
  BY DEF IsPing
<1> QED
  BY <1>0, <1>1, <1>2, <1>3 DEF NewRequests

LEMMA RequestNewNext == TypeOK' => NewRequests'
BY RequestNew, PTL
\* What the writer of the client adds to the stream.
Written ==
  \E t \in Seq(Item) :
     /\ toServer' = toServer \o t /\ open
     /\ t # <<>> /\ ~BodyNext(t) /\ RequestStream(t)'
     /\ \A j \in 1 .. Len(t) :
           t[j].call = NoCall \/ (t[j].call = made + 1 /\ made' = made + 1)

LEMMA WriterSends ==
  ASSUME TypeOK, TypeOK', CallInv,
         (\E k \in Kinds : WriteRequest(k) \/ WriteFails(k)) \/ KeepAlive
  PROVE  toServer' = toServer \/ Written
<1>0. NewRequests'
  BY RequestNewNext
<1>1. CASE KeepAlive
  <2>1. toServer' = toServer \/ (open /\ toServer' = toServer \o <<Request(NoCall)>>)
    BY <1>1 DEF KeepAlive, Sends
  <2>2. Request(NoCall) \in Item /\ Request(NoCall).what = "header"
        /\ Request(NoCall).call = NoCall
    BY ItemTypes DEF Request
  <2> DEFINE t == <<Request(NoCall)>>
  <2>3. /\ t \in Seq(Item) /\ ~BodyNext(t) /\ t # <<>>
        /\ \A j \in 1 .. Len(t) : t[j].call = NoCall
    BY <2>2, HeaderStream
  <2>4. RequestStream(t)'
    BY <1>0 DEF NewRequests
  <2> QED
    BY <2>1, <2>3, <2>4 DEF Written
<1>2. ASSUME NEW k \in Kinds, WriteRequest(k) \/ WriteFails(k)
      PROVE  toServer' = toServer \/ Written
  <2>1. PICK r : r = made + 1
    OBVIOUS
  <2>2. /\ made < NCalls /\ made' = r
        /\ kind' = [kind EXCEPT ![r] = k]
        /\ \/ toServer' = toServer
           \/ /\ open /\ toServer' = toServer \o <<Request(r)>>
              /\ ~k.args \/ reported'[r] = "write"
           \/ /\ open /\ toServer' = toServer \o <<Request(r), Body(r)>> /\ k.args
    <3>1. CASE WriteRequest(k)
      BY <2>1, <3>1 DEF WriteRequest, Sends
    <3>2. CASE WriteFails(k)
      <4>1. PICK first \in 1 .. r :
               LET failed == {q \in pending : q >= first} \cup {r}
               IN  reported' = [q \in Calls |-> IF q \in failed THEN "write" ELSE reported[q]]
        BY <2>1, <3>2 DEF WriteFails
      <4>2. r \in Calls
        BY <2>1, <3>2, NextCall DEF WriteFails
      <4>3. reported'[r] = "write"
        BY <4>1, <4>2
      <4> QED
        BY <2>1, <3>2, <4>3 DEF WriteFails, Sends
    <3> QED
      BY <1>2, <3>1, <3>2
  <2>3. r \in Calls /\ r \in 1 .. made' /\ r # NoCall
    BY <2>1, <2>2, NextCall, WireAssumption DEF Calls
  <2>4. kind'[r] = k /\ k # NoCall /\ k.args \in BOOLEAN
    BY <2>2, <2>3, WireAssumption DEF TypeOK
  <2>5. /\ IsPing(r)' <=> k.name = PingName
        /\ Misleading(r)' <=> (k.args = (k.name = PingName) \/ reported'[r] = "write")
    BY <2>3, <2>4 DEF IsPing, Misleading
  <2>6. /\ Request(r) \in Item /\ Request(r).what = "header" /\ Request(r).call = r
        /\ Body(r) \in Item /\ Body(r).what = "body" /\ Body(r).call = r
    BY <2>3, ItemTypes DEF Request, Body
  <2>7. ASSUME NEW t \in Seq(Item), toServer' = toServer \o t, open, RequestStream(t)',
               ~BodyNext(t), t # <<>>, \A j \in 1 .. Len(t) : t[j].call = r
        PROVE  Written
    BY <2>1, <2>2, <2>7 DEF Written
  <2>8. CASE toServer' = toServer \o <<Request(r)>> /\ open /\ (~k.args \/ reported'[r] = "write")
    <3> DEFINE t == <<Request(r)>>
    <3>1. IsPing(r)' \/ Misleading(r)'
      BY <2>4, <2>5, <2>8
    <3>2. RequestStream(t)'
      BY <1>0, <2>3, <3>1 DEF NewRequests
    <3>3. /\ t \in Seq(Item) /\ t # <<>> /\ ~BodyNext(t)
          /\ \A j \in 1 .. Len(t) : t[j].call = r
      BY <2>6, HeaderStream
    <3> QED
      BY <2>7, <2>8, <3>2, <3>3
  <2>9. CASE toServer' = toServer \o <<Request(r), Body(r)>> /\ open /\ k.args
    <3> DEFINE t == <<Request(r), Body(r)>>
    <3>1. ~IsPing(r)' \/ Misleading(r)'
      BY <2>4, <2>5, <2>9
    <3>2. RequestStream(t)'
      BY <1>0, <2>3, <3>1 DEF NewRequests
    <3>3. /\ t \in Seq(Item) /\ ~BodyNext(t) /\ Len(t) = 2 /\ t[1] = Request(r) /\ t[2] = Body(r)
      BY <2>6, MessageStream
    <3>4. t # <<>> /\ \A j \in 1 .. Len(t) : t[j].call = r
      BY <2>6, <3>3
    <3> QED
      BY <2>7, <2>9, <3>2, <3>3, <3>4
  <2> QED
    BY <2>2, <2>8, <2>9
<1> QED
  BY <1>1, <1>2

LEMMA RequestSent ==
  ASSUME TypeOK, CallInv, StartedInv, Grows, RequestStream(toServer), Written
  PROVE  RequestStream(toServer)'
<1>0. PICK t \in Seq(Item) :
         /\ toServer' = toServer \o t /\ ~BodyNext(t) /\ RequestStream(t)'
         /\ \A j \in 1 .. Len(t) :
               t[j].call = NoCall \/ (t[j].call = made + 1 /\ made' = made + 1)
  BY DEF Written
<1>1. PICK s \in Seq(Item) : s = toServer
  BY DEF TypeOK
<1>2. RequestStream(s)
  BY <1>1
<1>3. RequestStream(s)'
  BY <1>2, RequestKept
<1>4. \A i \in 1 .. Len(s), j \in 1 .. Len(t) : s[i].call = t[j].call => s[i].call = NoCall
  BY <1>0, <1>2, ItemCalls, Numbers DEF RequestStream
<1>5. RequestStream(s \o t)'
  BY <1>0, <1>3, <1>4, RequestJoinNext DEF RequestsJoin
<1>6. toServer' = s \o t
  BY <1>0, <1>1
<1> QED
  BY <1>5, <1>6 DEF RequestStream, Known, IsPing, Misleading

LEMMA RequestRead ==
  ASSUME TypeOK, CallInv, StartedInv, Grows, RequestStream(toServer),
         toServer # <<>>, toServer' = Tail(toServer)
  PROVE  RequestStream(toServer)'
<1>1. PICK s \in Seq(Item) : s = Tail(toServer)
  BY TailStream DEF TypeOK
<1>2. RequestStream(s)
  BY <1>1, RequestTail DEF TypeOK
<1>3. RequestStream(s)'
  BY <1>2, RequestKept
<1>4. toServer' = s
  BY <1>1
<1> QED
  BY <1>3, <1>4 DEF RequestStream, Known, IsPing, Misleading

LEMMA RequestSame ==
  ASSUME TypeOK, CallInv, StartedInv, Grows, RequestStream(toServer),
         toServer' = toServer \/ toServer' = <<>>
  PROVE  RequestStream(toServer)'
<1>1. CASE toServer' = toServer
  <2>1. PICK s \in Seq(Item) : s = toServer
    BY DEF TypeOK
  <2>2. RequestStream(s)'
    BY <2>1, RequestKept
  <2>3. toServer' = s
    BY <1>1, <2>1
  <2> QED
    BY <2>2, <2>3 DEF RequestStream, Known, IsPing, Misleading
<1>2. CASE toServer' = <<>>
  <2>1. 1 .. Len(<<>>) = {}
    OBVIOUS
  <2> QED
    BY <1>2, <2>1 DEF RequestStream, Known, Paired
<1> QED
  BY <1>1, <1>2
-----------------------------------------------------------------------------
(* The server in the stream of requests.                                   *)

\* What a step does to the stream.
LEMMA Input ==
  ASSUME TypeOK, TypeOK', CallInv, [Next]_vars
  PROVE  \/ toServer' = toServer
         \/ toServer' = <<>> /\ ~open'
         \/ toServer # <<>> /\ toServer' = Tail(toServer) /\ ServerReader
         \/ /\ (\E k \in Kinds : WriteRequest(k) \/ WriteFails(k)) \/ KeepAlive
            /\ Written
<1> USE DEF clientVars, serverVars
<1>1. CASE (\E k \in Kinds : WriteRequest(k) \/ WriteFails(k)) \/ KeepAlive
  BY <1>1, WriterSends
<1>2. CASE ClientReader
  BY <1>2 DEF ClientReader, ReadNoResponse, ReadResponseHeader, ReadReply, ReadReplyFails,
              SkipReply, ReadEnd
<1>3. CASE Server
  BY <1>3 DEF Server, ServerReader, NoHeader, ReadNoHeader, ReadPing, ReadRequestHeader, ReadArgs,
              ReadArgsFails, SkipBody, NoBody, ServerReads, MethodReturns, EncodeFails,
              MethodPanics
<1>4. CASE Registers \/ NetBreak \/ UNCHANGED vars
  BY <1>4 DEF Registers, NetBreak, vars
<1> QED
  BY <1>1, <1>2, <1>3, <1>4 DEF Next, Client

LEMMA RequestStep ==
  ASSUME TypeOK, TypeOK', CallInv, StartedInv, RequestStream(toServer), [Next]_vars
  PROVE  RequestStream(toServer)'
<1>1. Grows
  BY GrowsStep
<1>2. CASE toServer' = toServer \/ toServer' = <<>>
  BY <1>1, <1>2, RequestSame
<1>3. CASE toServer # <<>> /\ toServer' = Tail(toServer)
  BY <1>1, <1>3, RequestRead
<1>4. CASE Written
  BY <1>1, <1>4, RequestSent
<1> QED
  BY <1>2, <1>3, <1>4, Input
\* A step that leaves the read loop where it is, and takes nothing from the stream.
LEMMA PlaceKept ==
  ASSUME TypeOK, CallInv, StartedInv, ServerPlaceInv, Grows,
         serverAt' = serverAt, serverCall' = serverCall,
         "server" \in derailed' => "server" \in derailed,
         \/ toServer' = toServer \/ (toServer' = <<>> /\ ~open') \/ Written
  PROVE  ServerPlaceInv'
<1>1. /\ serverCall \in 1 .. made => serverCall \in 1 .. made' /\ (IsPing(serverCall)' <=> IsPing(serverCall))
      /\ serverCall \in 1 .. made /\ Misleading(serverCall) => Misleading(serverCall)'
  <2>1. PICK r : r = serverCall
    OBVIOUS
  <2>2. serverCall' = r
    BY <2>1
  <2>3. /\ r \in 1 .. made => r \in 1 .. made' /\ (IsPing(r)' <=> IsPing(r))
        /\ r \in 1 .. made /\ Misleading(r) => Misleading(r)'
    BY GrowsKeeps, Numbers DEF Grows
  <2> QED
    BY <2>1, <2>2, <2>3 DEF IsPing, Misleading
<1>2. Misled => Misled'
  BY GrowsKeeps
<1>3. /\ BodyNext(toServer') => BodyNext(toServer) /\ Head(toServer') = Head(toServer)
      /\ (open' \/ toServer' # <<>>) => (open \/ toServer # <<>>)
      /\ (open' \/ toServer' # <<>>) /\ BodyNext(toServer) => BodyNext(toServer')
  <2>1. CASE toServer' = toServer
    BY <2>1 DEF Grows
  <2>2. CASE toServer' = <<>> /\ ~open'
    BY <2>2 DEF BodyNext
  <2>3. CASE Written
    <3>1. PICK t \in Seq(Item) : toServer' = toServer \o t /\ open /\ ~BodyNext(t)
      BY <2>3 DEF Written
    <3>2. /\ BodyNext(toServer \o t) => BodyNext(toServer)
          /\ toServer # <<>> => toServer \o t # <<>> /\ Head(toServer \o t) = Head(toServer)
      BY <3>1, SentStream DEF TypeOK
    <3> QED
      BY <3>1, <3>2 DEF BodyNext
  <2> QED
    BY <2>1, <2>2, <2>3
<1> QED
  BY <1>1, <1>2, <1>3 DEF ServerPlaceInv

\* The call of the header that is read, if it belongs to a call.
LEMMA HeadHeader ==
  ASSUME TypeOK, RequestStream(toServer), toServer # <<>>, Head(toServer).what = "header"
  PROVE  /\ \/ Head(toServer).call \in 1 .. made
            \/ Head(toServer).call = NoCall /\ IsPing(Head(toServer).call)
         /\ \/ BodyNext(Tail(toServer)) <=> ~IsPing(Head(toServer).call)
            \/ Head(toServer).call # NoCall /\ Misleading(Head(toServer).call)
         /\ BodyNext(Tail(toServer)) => Head(Tail(toServer)).call = Head(toServer).call
         /\ Head(toServer).call # NoCall => ~HasHeader(Tail(toServer), Head(toServer).call)
<1>1. /\ Head(toServer) = toServer[1] /\ 1 \in 1 .. Len(toServer)
      /\ BodyNext(Tail(toServer)) <=> Followed(toServer, 1)
      /\ \A i \in 1 .. Len(Tail(toServer)) : /\ i + 1 \in 1 .. Len(toServer)
                                             /\ Tail(toServer)[i] = toServer[i + 1]
  BY TailStream DEF TypeOK
<1>2. \/ Head(toServer).call \in 1 .. made
      \/ Head(toServer).call = NoCall /\ IsPing(Head(toServer).call)
  BY <1>1, ItemCalls DEF RequestStream, TypeOK, IsPing
<1>3. \/ BodyNext(Tail(toServer)) <=> ~IsPing(Head(toServer).call)
      \/ Head(toServer).call # NoCall /\ Misleading(Head(toServer).call)
  BY <1>1 DEF RequestStream
<1>4. BodyNext(Tail(toServer)) => Head(Tail(toServer)).call = Head(toServer).call
  BY TailPaired DEF TypeOK, RequestStream
<1>5. ASSUME Head(toServer).call # NoCall, HasHeader(Tail(toServer), Head(toServer).call)
      PROVE  FALSE
  <2>1. PICK i \in 1 .. Len(Tail(toServer)) :
           /\ Tail(toServer)[i].what = "header"
           /\ Tail(toServer)[i].call = Head(toServer).call
    BY <1>5 DEF HasHeader
  <2>2. i + 1 \in 1 .. Len(toServer) /\ Tail(toServer)[i] = toServer[i + 1] /\ i + 1 # 1
    BY <1>1
  <2>3. toServer[i + 1].what = "header" /\ toServer[1].what = "header"
        /\ toServer[i + 1].call = toServer[1].call /\ toServer[1].call # NoCall
    BY <1>1, <1>5, <2>1, <2>2
  <2>4. i + 1 = 1
    BY <1>1, <2>2, <2>3 DEF RequestStream
  <2> QED
    BY <2>2, <2>4
<1> QED
  BY <1>2, <1>3, <1>4, <1>5

\* A misleading call that was made is one that has misled.
LEMMA MisledBy ==
  ASSUME TypeOK, NEW r \in 1 .. made, Misleading(r)
  PROVE  Misled
BY Numbers DEF Misled

\* After a body the next item is a header.
LEMMA AfterBody ==
  ASSUME TypeOK, RequestStream(toServer), BodyNext(toServer)
  PROVE  ~BodyNext(Tail(toServer))
<1>1. Paired(toServer) /\ toServer # <<>> /\ Head(toServer).what = "body"
  BY DEF RequestStream, BodyNext
<1> QED
  BY <1>1, TailPaired DEF TypeOK

LEMMA ReaderPlace ==
  ASSUME TypeOK, CallInv, StartedInv, RequestStream(toServer), ServerPlaceInv, ServerReader
  PROVE  ServerPlaceInv'
<1> USE DEF clientVars, serverVars, ServerGoes
<1>1. Grows /\ made' = made /\ kind' = kind /\ reported' = reported
  <2>1. Server
    BY DEF Server
  <2> QED
    BY <2>1, ServerGrows DEF ServerReader, ReadNoHeader, ReadPing, ReadRequestHeader, ReadArgs,
                ReadArgsFails, SkipBody, NoBody
<1>2. Misled => Misled'
  BY <1>1, GrowsKeeps
<1>3. CASE ReadNoHeader
  <2>1. Misled
    BY <1>3 DEF ReadNoHeader, ServerReads, ServerPlaceInv, BodyNext
  <2> QED
    BY <1>2, <1>3, <2>1 DEF ReadNoHeader, ServerCloses, ServerPlaceInv
<1>4. CASE ReadPing
  <2>1. /\ toServer # <<>> /\ Head(toServer).what = "header" /\ toServer' = Tail(toServer)
        /\ serverAt = "header" /\ IsPing(Head(toServer).call)
    BY <1>4 DEF ReadPing, ServerReads
  <2>2. BodyNext(toServer') => Misled
    BY <2>1, HeadHeader, MisledBy
  <2> QED
    BY <1>2, <1>4, <2>1, <2>2 DEF ReadPing, ServerPlaceInv
<1>5. CASE ReadRequestHeader
  <2>1. PICK r : r = Head(toServer).call
    OBVIOUS
  <2>2. /\ toServer # <<>> /\ Head(toServer).what = "header" /\ toServer' = Tail(toServer)
        /\ ~IsPing(r) /\ serverCall' = r /\ serverAt' \in {"body", "skip"}
    BY <1>5, <2>1 DEF ReadRequestHeader, ServerReads
  <2>3. r \in 1 .. made
    BY <2>1, <2>2, HeadHeader
  <2>4. BodyNext(toServer') \/ Misleading(r)
    BY <2>1, <2>2, HeadHeader
  <2>5. BodyNext(toServer') => Head(toServer').call = r
    BY <2>1, <2>2, HeadHeader
  <2>6. IsPing(serverCall)' <=> IsPing(r)
    BY <1>1, <2>2 DEF IsPing
  <2>7. Misleading(serverCall)' <=> Misleading(r)
    BY <1>1, <2>2 DEF Misleading
  <2>8. derailed' = derailed
    BY <1>5 DEF ReadRequestHeader
  <2> QED
    BY <1>1, <1>2, <2>2, <2>3, <2>4, <2>5, <2>6, <2>7, <2>8 DEF ServerPlaceInv
<1>6. CASE ReadArgs \/ ReadArgsFails \/ SkipBody
  <2>1. /\ serverAt \in {"body", "skip"} /\ serverAt' = "header" /\ derailed' = derailed
        /\ toServer # <<>> /\ toServer' = Tail(toServer)
    BY <1>6 DEF ReadArgs, ReadArgsFails, SkipBody, ServerReads
  <2>2. BodyNext(toServer) \/ Misled
    BY <2>1, MisledBy DEF ServerPlaceInv
  <2>3. BodyNext(toServer') => Misled
    BY <2>1, <2>2, AfterBody
  <2> QED
    BY <1>2, <2>1, <2>3 DEF ServerPlaceInv
<1>7. CASE NoBody
  BY <1>2, <1>7 DEF NoBody, BodyNext, ServerPlaceInv
<1> QED
  BY <1>3, <1>4, <1>5, <1>6, <1>7 DEF ServerReader

LEMMA ServerPlaceStep ==
  ASSUME TypeOK, TypeOK', CallInv, StartedInv, RequestStream(toServer), ServerPlaceInv,
         [Next]_vars
  PROVE  ServerPlaceInv'
<1> USE DEF clientVars, serverVars
<1>0. Grows
  BY GrowsStep
<1>1. CASE ServerReader
  BY <1>1, ReaderPlace
<1>2. CASE NoHeader
  BY <1>2, <1>0, GrowsKeeps DEF NoHeader, ServerCloses, ServerGoes, ServerPlaceInv
<1>3. CASE ~ServerReader /\ ~NoHeader
  <2>1. \/ toServer' = toServer \/ (toServer' = <<>> /\ ~open') \/ Written
    BY <1>3, Input
  <2>2. /\ serverAt' = serverAt /\ serverCall' = serverCall
        /\ "server" \in derailed' => "server" \in derailed
    <3>1. CASE \E k \in Kinds : WriteRequest(k) \/ WriteFails(k)
      BY <3>1 DEF WriteRequest, WriteFails
    <3>2. CASE ClientReader
      BY <3>2 DEF ClientReader, ReadNoResponse, ReadResponseHeader, ReadReply, ReadReplyFails,
                  SkipReply, ReadEnd
    <3>3. CASE Server
      BY <1>3, <3>3 DEF Server, MethodReturns, EncodeFails, MethodPanics
    <3>4. CASE KeepAlive \/ Registers \/ NetBreak \/ UNCHANGED vars
      BY <3>4 DEF KeepAlive, Registers, NetBreak, vars
    <3> QED
      BY <3>1, <3>2, <3>3, <3>4 DEF Next, Client
  <2> QED
    BY <1>0, <2>1, <2>2, PlaceKept
<1> QED
  BY <1>1, <1>2, <1>3
-----------------------------------------------------------------------------
(* Started methods.                                                        *)

\* No header of a call that was made is added.
LEMMA HeadersKept ==
  ASSUME TypeOK, TypeOK', CallInv, [Next]_vars, NEW r \in 1 .. made, HasHeader(toServer', r)
  PROVE  HasHeader(toServer, r)
<1>0. r # NoCall /\ r # made + 1
  BY Numbers, WireAssumption DEF Calls
<1>1. CASE toServer' = toServer \/ toServer' = <<>>
  <2>1. ~HasHeader(<<>>, r)
    BY DEF HasHeader
  <2> QED
    BY <1>1, <2>1
<1>2. CASE toServer # <<>> /\ toServer' = Tail(toServer)
  <2>1. \A i \in 1 .. Len(Tail(toServer)) : /\ i + 1 \in 1 .. Len(toServer)
                                            /\ Tail(toServer)[i] = toServer[i + 1]
    BY <1>2, TailStream DEF TypeOK
  <2> QED
    BY <1>2, <2>1 DEF HasHeader
<1>3. CASE Written
  <2>1. PICK t \in Seq(Item) :
           /\ toServer' = toServer \o t /\ ~BodyNext(t)
           /\ \A j \in 1 .. Len(t) : t[j].call = NoCall \/ t[j].call = made + 1
    BY <1>3 DEF Written
  <2>2. \A i \in 1 .. Len(toServer \o t) :
           \/ i \in 1 .. Len(toServer) /\ (toServer \o t)[i] = toServer[i]
           \/ \E j \in 1 .. Len(t) : (toServer \o t)[i] = t[j]
    BY <2>1, SentStream DEF TypeOK
  <2> QED
    BY <1>0, <2>1, <2>2 DEF HasHeader
<1> QED
  BY <1>1, <1>2, <1>3, Input

\* A step that starts no method.
LEMMA StartedKept ==
  ASSUME TypeOK, CallInv, StartedInv, Grows, started' = started,
         \A r \in 1 .. made : Ahead(r)' => Ahead(r),
         serverAt' = "body" => ~HasHeader(toServer', serverCall'),
         running' \subseteq running,
         \A r \in running' : returned'[r] = returned[r],
         \A r \in Calls : returned'[r] # "no" => returned[r] # "no" \/ r \in running
  PROVE  StartedInv'
<1>1. ASSUME NEW x \in started
      PROVE  x.args = x.call /\ ~Ahead(x.call)' /\ ~IsPing(x.call)'
  <2>1. x \in [call : Calls, args : Calls] /\ x.args = x.call /\ ~Ahead(x.call) /\ ~IsPing(x.call)
    BY DEF StartedInv, TypeOK
  <2>2. x.call \in 1 .. made
    BY <2>1, Numbers DEF Ahead, Calls
  <2>3. ~Ahead(x.call)'
    BY <2>1, <2>2
  <2>4. ~IsPing(x.call)'
    BY <2>1, <2>2, GrowsKeeps
  <2> QED
    BY <2>1, <2>3, <2>4
<1> QED
  BY <1>1 DEF StartedInv

LEMMA ReaderStarted ==
  ASSUME TypeOK, TypeOK', CallInv, StartedInv, RequestStream(toServer), ServerPlaceInv,
         ServerReader \/ NoHeader
  PROVE  StartedInv'
<1> USE DEF clientVars, serverVars, ServerGoes
<1>0. [Next]_vars /\ Server
  BY DEF Next, Server
<1>1. Grows
  BY <1>0, ServerGrows
<1>2. \A r \in 1 .. made : HasHeader(toServer', r) => HasHeader(toServer, r)
  BY <1>0, HeadersKept
<1>3. CASE ReadArgs
  <2>1. PICK c : c = serverCall
    OBVIOUS
  <2>2. /\ serverAt = "body" /\ serverAt' = "header" /\ BodyNext(toServer)
        /\ Head(toServer).call = c /\ c \in 1 .. made /\ ~IsPing(c)
        /\ ~HasHeader(toServer, c)
    BY <1>3, <2>1 DEF ReadArgs, ServerReads, ServerPlaceInv, BodyNext, StartedInv
  <2>3. /\ started' = started \cup {[call |-> c, args |-> c]}
        /\ running' = running \cup {c} /\ returned' = returned
        /\ made' = made /\ kind' = kind
    BY <1>3, <2>1, <2>2 DEF ReadArgs
  <2>4. ~HasHeader(toServer', c)
    BY <1>2, <2>2
  <2>5. ~Ahead(c)' /\ ~IsPing(c)'
    BY <2>2, <2>3, <2>4, Numbers DEF Ahead, IsPing
  <2>6. c \in Calls /\ returned[c] = "no"
    <3>1. Ahead(c) /\ c \in Calls
      BY <2>1, <2>2, Numbers DEF Ahead
    <3>2. ~\E x \in started : x.call = c
      BY <3>1 DEF StartedInv
    <3> QED
      BY <3>1, <3>2 DEF StartedInv
  <2>7. ASSUME NEW x \in started
        PROVE  x.args = x.call /\ ~Ahead(x.call)' /\ ~IsPing(x.call)'
    <3>1. x \in [call : Calls, args : Calls] /\ x.args = x.call /\ ~Ahead(x.call)
          /\ ~IsPing(x.call)
      BY DEF StartedInv, TypeOK
    <3>2. x.call \in 1 .. made
      BY <3>1, Numbers DEF Ahead, Calls
    <3>3. ~Ahead(x.call)'
      BY <1>2, <2>2, <2>3, <3>1, <3>2 DEF Ahead
    <3>4. ~IsPing(x.call)'
      BY <2>3, <3>1 DEF IsPing
    <3> QED
      BY <3>1, <3>3, <3>4
  <2>8. \A x \in started' : x.args = x.call /\ ~Ahead(x.call)' /\ ~IsPing(x.call)'
    <3>1. [call |-> c, args |-> c].call = c /\ [call |-> c, args |-> c].args = c
      OBVIOUS
    <3> QED
      BY <2>3, <2>5, <2>7, <3>1
  <2>9. \E x \in started' : x.call = c
    <3>1. [call |-> c, args |-> c] \in started' /\ [call |-> c, args |-> c].call = c
      BY <2>3
    <3> QED
      BY <3>1
  <2> QED
    BY <2>2, <2>3, <2>6, <2>8, <2>9 DEF StartedInv
<1>4. CASE ReadRequestHeader
  <2>1. PICK c : c = Head(toServer).call
    OBVIOUS
  <2>2. /\ toServer # <<>> /\ Head(toServer).what = "header" /\ toServer' = Tail(toServer)
        /\ ~IsPing(c) /\ serverCall' = c /\ made' = made
        /\ UNCHANGED <<started, running, returned>>
    BY <1>4, <2>1 DEF ReadRequestHeader, ServerReads
  <2>3. c \in 1 .. made /\ c # NoCall /\ ~HasHeader(toServer', c)
    BY <2>1, <2>2, HeadHeader DEF IsPing
  <2>4. HasHeader(toServer, c)
    <3>1. Head(toServer) = toServer[1] /\ 1 \in 1 .. Len(toServer)
      BY <2>2, TailStream DEF TypeOK
    <3> QED
      BY <2>1, <2>2, <3>1 DEF HasHeader
  <2>5. \A r \in 1 .. made : Ahead(r)' => Ahead(r)
    BY <1>2, <2>2, <2>4, Numbers DEF Ahead
  <2> QED
    BY <1>1, <2>2, <2>3, <2>5, StartedKept
<1>5. CASE ReadNoHeader \/ ReadPing \/ ReadArgsFails \/ SkipBody \/ NoBody \/ NoHeader
  <2>1. serverAt' \in {"header", "end"} /\ made' = made
        /\ UNCHANGED <<started, running, returned>>
    BY <1>5 DEF ReadNoHeader, ReadPing, ReadArgsFails, SkipBody, NoBody, NoHeader, ServerCloses,
                ServerReads
  <2>2. \A r \in 1 .. made : Ahead(r)' => Ahead(r)
    BY <1>2, <2>1, Numbers DEF Ahead
  <2> QED
    BY <1>1, <2>1, <2>2, StartedKept
<1> QED
  BY <1>3, <1>4, <1>5 DEF ServerReader

LEMMA StartedStep ==
  ASSUME TypeOK, TypeOK', CallInv, StartedInv, RequestStream(toServer), ServerPlaceInv,
         [Next]_vars
  PROVE  StartedInv'
<1> USE DEF clientVars, serverVars
<1>0. Grows
  BY GrowsStep
<1>1. CASE ServerReader \/ NoHeader
  BY <1>1, ReaderStarted
<1>2. CASE ~ServerReader /\ ~NoHeader
  <2>1. /\ serverAt' = serverAt /\ serverCall' = serverCall /\ started' = started
        /\ running' \subseteq running
        /\ \A r \in running' : returned'[r] = returned[r]
        /\ \A r \in Calls : returned'[r] # "no" => returned[r] # "no" \/ r \in running
    <3>1. CASE \E k \in Kinds : WriteRequest(k) \/ WriteFails(k)
      BY <3>1 DEF WriteRequest, WriteFails
    <3>2. CASE ClientReader
      BY <3>2 DEF ClientReader, ReadNoResponse, ReadResponseHeader, ReadReply, ReadReplyFails,
                  SkipReply, ReadEnd
    <3>3. ASSUME NEW r \in Calls,
                 \/ \E ret \in {"nil", "error"} : MethodReturns(r, ret)
                 \/ EncodeFails(r) \/ MethodPanics(r)
          PROVE  /\ serverAt' = serverAt /\ serverCall' = serverCall /\ started' = started
                 /\ running' \subseteq running
                 /\ \A q \in running' : returned'[q] = returned[q]
                 /\ \A q \in Calls : returned'[q] # "no" => returned[q] # "no" \/ q \in running
      <4>1. /\ serverAt' = serverAt /\ serverCall' = serverCall /\ started' = started
            /\ running' = running \ {r} /\ r \in running
            /\ returned' = returned \/ \E ret : returned' = [returned EXCEPT ![r] = ret]
        <5>1. CASE \E ret \in {"nil", "error"} : MethodReturns(r, ret)
          BY <5>1 DEF MethodReturns
        <5>2. CASE EncodeFails(r)
          BY <5>2 DEF EncodeFails
        <5>3. CASE MethodPanics(r)
          BY <5>3 DEF MethodPanics
        <5> QED
          BY <3>3, <5>1, <5>2, <5>3
      <4> QED
        BY <4>1 DEF TypeOK
    <3>4. CASE KeepAlive \/ Registers \/ NetBreak \/ UNCHANGED vars
      BY <3>4 DEF KeepAlive, Registers, NetBreak, vars
    <3> QED
      BY <1>2, <3>1, <3>2, <3>3, <3>4 DEF Next, Client, Server
  <2>2. \A r \in 1 .. made : Ahead(r)' => Ahead(r)
    BY <1>0, <2>1, HeadersKept, Numbers DEF Ahead, Grows
  <2>3. serverAt' = "body" => ~HasHeader(toServer', serverCall')
    <3>1. ASSUME serverAt = "body" PROVE ~HasHeader(toServer', serverCall)
      <4>1. PICK c \in 1 .. made : c = serverCall
        BY <3>1 DEF ServerPlaceInv
      <4>2. ~HasHeader(toServer, c)
        BY <3>1, <4>1 DEF StartedInv
      <4> QED
        BY <4>1, <4>2, HeadersKept
    <3> QED
      BY <2>1, <3>1
  <2> QED
    BY <1>0, <2>1, <2>2, <2>3, StartedKept
<1> QED
  BY <1>1, <1>2
-----------------------------------------------------------------------------
(* Calls that were made, and what was reported of them.                    *)

LEMMA CallStep ==
  ASSUME TypeOK, TypeOK', CallInv, [Next]_vars
  PROVE  CallInv'
<1> USE DEF clientVars, serverVars
<1>1. ASSUME NEW k \in Kinds, WriteRequest(k) \/ WriteFails(k) PROVE CallInv'
  <2>1. /\ made < NCalls /\ made' = made + 1 /\ kind' = [kind EXCEPT ![made + 1] = k]
        /\ clientAt' = clientAt /\ clientCall' = clientCall
    BY <1>1 DEF WriteRequest, WriteFails
  <2>2. \A r \in Calls : r \notin pending /\ r # made + 1 => reported'[r] = reported[r]
    <3>1. CASE WriteRequest(k)
      BY <3>1 DEF WriteRequest
    <3>2. CASE WriteFails(k)
      <4>1. PICK first \in 1 .. (made + 1) :
               LET failed == {q \in pending : q >= first} \cup {made + 1}
               IN  reported' = [q \in Calls |-> IF q \in failed THEN "write" ELSE reported[q]]
        BY <3>2 DEF WriteFails
      <4> QED
        BY <4>1
    <3> QED
      BY <1>1, <3>1, <3>2
  <2>3. \A r \in Calls : IF r <= made' THEN kind'[r] \in Kinds
                                       ELSE kind'[r] = NoCall /\ reported'[r] = "no"
    <3> SUFFICES ASSUME NEW r \in Calls
                 PROVE  IF r <= made + 1 THEN kind'[r] \in Kinds
                                         ELSE kind'[r] = NoCall /\ reported'[r] = "no"
      BY <2>1
    <3>1. kind \in [Calls -> Kinds \cup {NoCall}] /\ made \in Nat /\ r \in Nat /\ r > 0
          /\ (r \in pending => r <= made)
      BY Numbers DEF TypeOK, Calls
    <3>2. IF r <= made THEN kind[r] \in Kinds ELSE kind[r] = NoCall /\ reported[r] = "no"
      BY DEF CallInv
    <3>3. CASE r = made + 1
      BY <2>1, <3>1, <3>3
    <3>4. CASE r # made + 1
      BY <2>1, <2>2, <3>1, <3>2, <3>4
    <3> QED
      BY <3>3, <3>4
  <2>4. ASSUME clientAt' = "body"
        PROVE  clientCall' \in 1 .. made' /\ reported'[clientCall'] = "no"
    <3>1. /\ clientCall \in 1 .. made /\ reported[clientCall] = "no"
          /\ clientCall \in Calls /\ clientCall \notin pending
      BY <2>1, <2>4 DEF CallInv, TypeOK
    <3>2. clientCall \in 1 .. (made + 1) /\ clientCall # made + 1
      BY <3>1, Numbers
    <3> QED
      BY <2>1, <2>2, <3>1, <3>2
  <2> QED
    BY <2>3, <2>4 DEF CallInv
<1>2. ASSUME NEW S, NEW e, NEW ended, Reports(S, e, ended), S \cap Calls \subseteq 1 .. made
      PROVE  CallInv'
  <2>1. /\ made' = made /\ kind' = kind /\ clientAt' # "body"
        /\ reported' = [r \in Calls |-> IF r \in S THEN e
                                        ELSE IF ended /\ r \in pending THEN "down"
                                        ELSE reported[r]]
    BY <1>2 DEF Reports
  <2>2. \A r \in Calls : ~(r <= made) => reported'[r] = reported[r]
    BY <1>2, <2>1, Numbers
  <2> QED
    BY <2>1, <2>2 DEF CallInv
<1>3. CASE ClientReader
  <2>1. CASE ReadNoResponse
    BY <1>2, <2>1 DEF ReadNoResponse
  <2>2. CASE ReadResponseHeader
    <3> DEFINE r == Head(toClient).call
    <3>1. CASE UNCHANGED clientVars
      BY <3>1 DEF CallInv
    <3>2. CASE \E e : r \in pending /\ Reports({r}, e, FALSE)
      BY <1>2, <3>2, Numbers
    <3>3. CASE /\ clientAt' = (IF r \in pending THEN "body" ELSE "skip") /\ clientCall' = r
               /\ UNCHANGED <<kind, made, writing, reported, gotReply, keepAlives>>
      BY <3>3, Numbers DEF CallInv, TypeOK
    <3> QED
      BY <2>2, <3>1, <3>2, <3>3 DEF ReadResponseHeader, CallOf
  <2>3. CASE ReadReply \/ ReadReplyFails
    BY <1>2, <2>3 DEF ReadReply, ReadReplyFails, ClientReads, CallInv
  <2>4. CASE SkipReply
    BY <2>4 DEF SkipReply, CallInv
  <2>5. CASE ReadEnd
    <3>1. (IF clientAt = "body" THEN {clientCall} ELSE {}) \cap Calls \subseteq 1 .. made
      BY DEF CallInv
    <3> QED
      BY <1>2, <2>5, <3>1 DEF ReadEnd
  <2> QED
    BY <1>3, <2>1, <2>2, <2>3, <2>4, <2>5 DEF ClientReader
<1>4. CASE KeepAlive \/ Server \/ Registers \/ NetBreak \/ UNCHANGED vars
  <2>1. UNCHANGED <<made, kind, reported, clientAt, clientCall>>
    <3>1. CASE Server
      BY <3>1 DEF Server, ServerReader, NoHeader, ReadNoHeader, ReadPing, ReadRequestHeader,
                  ReadArgs, ReadArgsFails, SkipBody, NoBody, MethodReturns, EncodeFails,
                  MethodPanics
    <3>2. CASE KeepAlive \/ Registers \/ NetBreak \/ UNCHANGED vars
      BY <3>2 DEF KeepAlive, Registers, NetBreak, vars
    <3> QED
      BY <1>4, <3>1, <3>2
  <2> QED
    BY <2>1 DEF CallInv
<1> QED
  BY <1>1, <1>3, <1>4 DEF Next, Client

-----------------------------------------------------------------------------
(* Streams of responses.                                                   *)

LEMMA ResponseKept ==
  ASSUME TypeOK, CallInv, StartedInv, Grows, NEW s \in Seq(Item), ResponseStream(s)
  PROVE  ResponseStream(s)'
<1>1. Known(s)'
  <2>1. 1 .. made \subseteq 1 .. made'
    BY Numbers DEF Grows
  <2> QED
    BY <2>1 DEF Known, ResponseStream
<1>2. ASSUME NEW i \in 1 .. Len(s), s[i].what = "header"
      PROVE  (IF s[i].noData
              THEN /\ s[i].err \/ IsPing(s[i].call)
                   /\ Followed(s, i) => SomeError
              ELSE /\ s[i].call # NoCall /\ Served(s[i].call)
                   /\ Followed(s, i) \/ (i = Len(s) /\ ~open))'
  <2>1. s[i].call \in 1 .. made \/ s[i].call = NoCall
    BY ItemCalls DEF ResponseStream
  <2>2. IF s[i].noData
        THEN /\ s[i].err \/ IsPing(s[i].call)
             /\ Followed(s, i) => SomeError
        ELSE /\ s[i].call # NoCall /\ Served(s[i].call)
             /\ Followed(s, i) \/ (i = Len(s) /\ ~open)
    BY <1>2 DEF ResponseStream
  <2>3. open' => open
    BY DEF Grows
  <2> QED
    BY <2>1, <2>2, <2>3, GrowsKeeps
<1> QED
  BY <1>1, <1>2 DEF ResponseStream

LEMMA ResponseTail ==
  ASSUME NEW s \in Seq(Item), s # <<>>, ResponseStream(s)
  PROVE  ResponseStream(Tail(s))
<1>1. Paired(Tail(s)) /\ Known(Tail(s))
  BY TailPaired, KnownTail DEF ResponseStream
<1>2. /\ Len(s) \in Nat /\ Len(Tail(s)) = Len(s) - 1
      /\ \A i \in 1 .. Len(Tail(s)) : /\ i + 1 \in 1 .. Len(s) /\ Tail(s)[i] = s[i + 1]
                                      /\ Followed(Tail(s), i) <=> Followed(s, i + 1)
  BY TailStream
<1>3. ASSUME NEW i \in 1 .. Len(Tail(s)), Tail(s)[i].what = "header"
      PROVE  IF Tail(s)[i].noData
             THEN /\ Tail(s)[i].err \/ IsPing(Tail(s)[i].call)
                  /\ Followed(Tail(s), i) => SomeError
             ELSE /\ Tail(s)[i].call # NoCall /\ Served(Tail(s)[i].call)
                  /\ Followed(Tail(s), i) \/ (i = Len(Tail(s)) /\ ~open)
  <2> DEFINE m == Len(s)
             n == Len(Tail(s))
  <2>1. m \in Nat /\ n = m - 1 /\ i \in 1 .. n
    BY <1>2
  <2> HIDE DEF m, n
  <2>2. i + 1 = m => i = n
    BY <2>1
  <2>3. i + 1 = Len(s) => i = Len(Tail(s))
    BY <2>2 DEF m, n
  <2> QED
    BY <1>2, <1>3, <2>3 DEF ResponseStream
<1> QED
  BY <1>1, <1>3 DEF ResponseStream

\* Two streams one after the other, if nothing is missing at the end of the first.
ResponsesJoin ==
  \A s, t \in Seq(Item) :
     /\ ResponseStream(s) /\ ResponseStream(t) /\ ~BodyNext(t)
     /\ \A i \in 1 .. Len(s) : s[i].what = "header" => s[i].noData \/ Followed(s, i)
     => ResponseStream(s \o t)

LEMMA ResponseJoin == ResponsesJoin
<1> SUFFICES ASSUME NEW s \in Seq(Item), NEW t \in Seq(Item),
                    ResponseStream(s), ResponseStream(t), ~BodyNext(t),
                    \A i \in 1 .. Len(s) : s[i].what = "header" => s[i].noData \/ Followed(s, i)
             PROVE  ResponseStream(s \o t)
  BY DEF ResponsesJoin
<1>1. Paired(s \o t) /\ Known(s \o t)
  BY SentPaired, KnownJoin DEF ResponseStream
<1> DEFINE u == s \o t
<1>2. /\ Len(u) = Len(s) + Len(t)
      /\ \A i \in 1 .. Len(u) :
            \/ i \in 1 .. Len(s) /\ u[i] = s[i] /\ (Followed(u, i) <=> Followed(s, i))
            \/ \E j \in 1 .. Len(t) : /\ i = Len(s) + j /\ u[i] = t[j]
                                      /\ Followed(u, i) <=> Followed(t, j)
  BY SentStream
<1> HIDE DEF u
<1>3. ASSUME NEW i \in 1 .. Len(u), u[i].what = "header"
      PROVE  IF u[i].noData
             THEN /\ u[i].err \/ IsPing(u[i].call)
                  /\ Followed(u, i) => SomeError
             ELSE /\ u[i].call # NoCall /\ Served(u[i].call)
                  /\ Followed(u, i) \/ (i = Len(u) /\ ~open)
  <2>1. CASE i \in 1 .. Len(s) /\ u[i] = s[i] /\ (Followed(u, i) <=> Followed(s, i))
    BY <1>3, <2>1 DEF ResponseStream
  <2>2. ASSUME NEW j \in 1 .. Len(t), i = Len(s) + j, u[i] = t[j],
               Followed(u, i) <=> Followed(t, j)
        PROVE  IF u[i].noData
               THEN /\ u[i].err \/ IsPing(u[i].call)
                    /\ Followed(u, i) => SomeError
               ELSE /\ u[i].call # NoCall /\ Served(u[i].call)
                    /\ Followed(u, i) \/ (i = Len(u) /\ ~open)
    <3>1. j = Len(t) => i = Len(u)
      BY <1>2, <2>2
    <3> QED
      BY <1>3, <2>2, <3>1 DEF ResponseStream
  <2> QED
    BY <1>2, <2>1, <2>2
<1> QED
  BY <1>1, <1>3 DEF ResponseStream, u

LEMMA ResponseJoinNext == ResponsesJoin'
BY ResponseJoin, PTL
\* What a server writes is a stream of responses.
NewResponses ==
  \A r \in (1 .. made) \cup {NoCall} :
     /\ \A e \in BOOLEAN : e \/ IsPing(r) => ResponseStream(<<Response(r, TRUE, e)>>)
     /\ r # NoCall /\ Served(r) => ResponseStream(<<Response(r, FALSE, FALSE), Body(r)>>)
     /\ r # NoCall /\ SomeError => ResponseStream(<<Response(r, TRUE, TRUE), Body(r)>>)
     /\ r # NoCall /\ Served(r) /\ ~open => ResponseStream(<<Response(r, FALSE, FALSE)>>)

LEMMA ResponseNew == TypeOK => NewResponses
<1> SUFFICES ASSUME TypeOK PROVE NewResponses
  OBVIOUS
<1>0. (1 .. made) \cup {NoCall} \subseteq Calls \cup {NoCall}
  BY Numbers
<1>1. ASSUME NEW r \in (1 .. made) \cup {NoCall}, NEW n \in BOOLEAN, NEW e \in BOOLEAN,
             IF n THEN e \/ IsPing(r) ELSE r # NoCall /\ Served(r) /\ ~open
      PROVE  ResponseStream(<<Response(r, n, e)>>)
  <2> DEFINE h == Response(r, n, e)
             s == <<h>>
  <2>1. h \in Item /\ h.what = "header" /\ h.call = r /\ h.noData = n /\ h.err = e
    BY <1>0, ItemTypes DEF Response
  <2> HIDE DEF h
  <2>2. Len(s) = 1 /\ s[1] = h /\ Paired(s) /\ ~Followed(s, 1)
    BY <2>1, HeaderStream
  <2> HIDE DEF s
  <2>3. \A i \in 1 .. Len(s) : i = 1
    BY <2>2
  <2>4. Known(s)
    BY <1>1, <2>1, <2>2, <2>3 DEF Known
  <2>5. ResponseStream(s)
    BY <1>1, <2>1, <2>2, <2>3, <2>4 DEF ResponseStream
  <2> QED
    BY <2>5 DEF s, h
<1>2. ASSUME NEW r \in (1 .. made) \cup {NoCall}, r # NoCall, NEW n \in BOOLEAN, NEW e \in BOOLEAN,
             IF n THEN e /\ SomeError ELSE Served(r)
      PROVE  ResponseStream(<<Response(r, n, e), Body(r)>>)
  <2> DEFINE h == Response(r, n, e)
             s == <<h, Body(r)>>
  <2>1. /\ h \in Item /\ h.what = "header" /\ h.call = r /\ h.noData = n /\ h.err = e
        /\ Body(r) \in Item /\ Body(r).what = "body" /\ Body(r).call = r
    BY <1>0, ItemTypes DEF Response, Body
  <2> HIDE DEF h
  <2>2. /\ Len(s) = 2 /\ s[1] = h /\ s[2] = Body(r)
        /\ Paired(s) /\ Followed(s, 1) /\ ~Followed(s, 2)
    BY <2>1, MessageStream
  <2> HIDE DEF s
  <2>3. \A i \in 1 .. Len(s) : i = 1 \/ i = 2
    BY <2>2
  <2>4. Known(s)
    BY <1>2, <2>1, <2>2, <2>3 DEF Known
  <2>5. \A i \in 1 .. Len(s) : s[i].what = "header" => i = 1
    BY <2>1, <2>2, <2>3
  <2>6. ResponseStream(s)
    BY <1>2, <2>1, <2>2, <2>4, <2>5 DEF ResponseStream
  <2> QED
    BY <2>6 DEF s, h
<1> QED
  BY <1>1, <1>2 DEF NewResponses

LEMMA ResponseNewNext == TypeOK' => NewResponses'
BY ResponseNew, PTL

Answered ==
  \E t \in Seq(Item) :
     /\ toClient' = toClient \o t /\ open
     /\ t # <<>> /\ ~BodyNext(t) /\ ResponseStream(t)'

LEMMA ErrorAnswers ==
  ASSUME TypeOK, TypeOK', made' = made, NEW r \in 1 .. made, SendError(r)
  PROVE  toClient' = toClient \/ Answered
<1> DEFINE t == <<Response(r, TRUE, TRUE)>>
<1>1. /\ Response(r, TRUE, TRUE) \in Item /\ Response(r, TRUE, TRUE).what = "header"
  BY Numbers, ItemTypes DEF Response
<1>2. t \in Seq(Item) /\ t # <<>> /\ ~BodyNext(t)
  BY <1>1, HeaderStream
<1>3. ResponseStream(t)'
  BY ResponseNewNext DEF NewResponses
<1> HIDE DEF t
<1>4. toClient \o <<>> = toClient
  BY DEF TypeOK
<1>5. toClient' = toClient \/ (open /\ toClient' = toClient \o t)
  BY <1>4 DEF SendError, Sends, t
<1> QED
  BY <1>2, <1>3, <1>5 DEF Answered

\* A method that was started belongs to a call that was made.
LEMMA StartedIsMade ==
  ASSUME TypeOK, StartedInv, NEW r \in Calls, NEW x \in started, x.call = r
  PROVE  r \in 1 .. made /\ r # NoCall /\ ~IsPing(r)
BY Numbers, WireAssumption DEF StartedInv, Ahead, Calls

LEMMA MethodAnswers ==
  ASSUME TypeOK, TypeOK', StartedInv, NEW r \in Calls,
         \/ \E ret \in {"nil", "error"} : MethodReturns(r, ret)
         \/ EncodeFails(r) \/ MethodPanics(r)
  PROVE  toClient' = toClient \/ Answered
<1> USE DEF clientVars, serverVars
<1>0. toClient \o <<>> = toClient
  BY DEF TypeOK
<1>1. CASE MethodPanics(r)
  BY <1>1 DEF MethodPanics
<1>2. CASE (\E ret \in {"nil", "error"} : MethodReturns(r, ret)) \/ EncodeFails(r)
  <2>1. r \in running /\ made' = made /\ started' = started
    BY <1>2 DEF MethodReturns, EncodeFails
  <2>2. PICK x \in started : x.call = r
    BY <2>1 DEF StartedInv
  <2>3. r \in 1 .. made /\ r # NoCall
    BY <2>2, StartedIsMade
  <2>4. /\ \A n, e \in BOOLEAN : /\ Response(r, n, e) \in Item
                                 /\ Response(r, n, e).what = "header" /\ Response(r, n, e).call = r
        /\ Body(r) \in Item /\ Body(r).what = "body" /\ Body(r).call = r
    BY ItemTypes DEF Response, Body
  <2>5. ASSUME returned'[r] = "nil" PROVE Served(r)'
    BY <2>1, <2>2, <2>5 DEF Served
  <2>6. ASSUME NEW ret \in {"nil", "error"}, MethodReturns(r, ret)
        PROVE  toClient' = toClient \/ Answered
    <3>1. returned'[r] = ret
      BY <2>6 DEF MethodReturns, TypeOK
    <3>2. CASE ret = "nil"
      <4> DEFINE t == <<Response(r, FALSE, FALSE), Body(r)>>
      <4>1. ResponseStream(t)'
        BY <2>1, <2>3, <2>5, <3>1, <3>2, ResponseNewNext DEF NewResponses
      <4>2. t \in Seq(Item) /\ t # <<>> /\ ~BodyNext(t)
        BY <2>4, MessageStream
      <4>3. MethodResponse(r, ret) = t
        BY <3>2 DEF MethodResponse
      <4> HIDE DEF t
      <4>4. toClient' = toClient \/ (open /\ toClient' = toClient \o t)
        BY <1>0, <2>6, <4>3 DEF MethodReturns, Sends
      <4> QED
        BY <4>1, <4>2, <4>4 DEF Answered
    <3>3. CASE ret = "error"
      <4> DEFINE t == <<Response(r, TRUE, TRUE), Body(r)>>
      <4>1. SomeError'
        BY <3>1, <3>3 DEF SomeError
      <4>2. ResponseStream(t)'
        BY <2>1, <2>3, <4>1, ResponseNewNext DEF NewResponses
      <4>3. t \in Seq(Item) /\ t # <<>> /\ ~BodyNext(t)
        BY <2>4, MessageStream
      <4>4. MethodResponse(r, ret) = t
        BY <3>3 DEF MethodResponse
      <4> HIDE DEF t
      <4>5. toClient' = toClient \/ (open /\ toClient' = toClient \o t)
        BY <1>0, <2>6, <4>4 DEF MethodReturns, Sends
      <4> QED
        BY <4>2, <4>3, <4>5 DEF Answered
    <3> QED
      BY <3>2, <3>3
  <2>7. ASSUME EncodeFails(r)
        PROVE  toClient' = toClient \/ Answered
    <3> DEFINE t == <<Response(r, FALSE, FALSE)>>
    <3>1. returned'[r] = "nil" /\ ~open'
      BY <2>7 DEF EncodeFails, TypeOK
    <3>2. ResponseStream(t)'
      BY <2>1, <2>3, <2>5, <3>1, ResponseNewNext DEF NewResponses
    <3>3. t \in Seq(Item) /\ t # <<>> /\ ~BodyNext(t)
      BY <2>4, HeaderStream
    <3>4. Append(toClient, Response(r, FALSE, FALSE)) = toClient \o t
      <4>1. \A s \in Seq(Item), h \in Item : Append(s, h) = s \o <<h>>
        OBVIOUS
      <4> QED
        BY <2>4, <4>1 DEF TypeOK
    <3> HIDE DEF t
    <3>5. toClient' = toClient \/ (open /\ toClient' = toClient \o t)
      BY <2>7, <3>4 DEF EncodeFails
    <3> QED
      BY <3>2, <3>3, <3>5 DEF Answered
  <2> QED
    BY <1>2, <2>6, <2>7
<1> QED
  BY <1>1, <1>2
LEMMA ReaderAnswers ==
  ASSUME TypeOK, TypeOK', CallInv, StartedInv, RequestStream(toServer), ServerPlaceInv,
         ServerReader \/ NoHeader
  PROVE  toClient' = toClient \/ (toClient' = <<>> /\ ~open') \/ Answered
<1> USE DEF clientVars, serverVars, ServerGoes
<1>0. /\ made' = made /\ kind' = kind /\ toClient \o <<>> = toClient
  BY DEF ServerReader, NoHeader, ReadNoHeader, ReadPing, ReadRequestHeader, ReadArgs,
         ReadArgsFails, SkipBody, NoBody, TypeOK
<1>1. CASE ReadNoHeader \/ NoHeader
  BY <1>1 DEF ReadNoHeader, NoHeader, ServerCloses
<1>2. CASE ReadPing
  <2>1. PICK r : r = Head(toServer).call
    OBVIOUS
  <2>2. /\ toServer # <<>> /\ Head(toServer).what = "header" /\ IsPing(r)
        /\ toClient' = toClient \/ (open /\ toClient' = toClient \o <<Response(r, TRUE, FALSE)>>)
    BY <1>2, <2>1 DEF ReadPing, ServerReads, Sends
  <2>3. r \in (1 .. made) \cup {NoCall} /\ IsPing(r)'
    BY <1>0, <2>1, <2>2, HeadHeader DEF IsPing
  <2> DEFINE t == <<Response(r, TRUE, FALSE)>>
  <2>4. Response(r, TRUE, FALSE) \in Item /\ Response(r, TRUE, FALSE).what = "header"
    BY <2>3, ItemTypes, Numbers DEF Response
  <2>5. t \in Seq(Item) /\ t # <<>> /\ ~BodyNext(t)
    BY <2>4, HeaderStream
  <2>6. ResponseStream(t)'
    BY <1>0, <2>3, ResponseNewNext DEF NewResponses
  <2> QED
    BY <2>2, <2>5, <2>6 DEF Answered
<1>3. CASE ReadRequestHeader
  BY <1>3 DEF ReadRequestHeader
<1>4. CASE ReadArgs
  <2>1. PICK r : r = serverCall
    OBVIOUS
  <2>2. r \in 1 .. made /\ r \in Calls /\ r # NoCall
    BY <1>4, <2>1, Numbers, WireAssumption DEF ReadArgs, ServerReads, ServerPlaceInv, Calls
  <2>3. CASE kind[r].reply
    BY <1>0, <1>4, <2>1, <2>3 DEF ReadArgs, Sends
  <2>4. CASE ~kind[r].reply
    <3> DEFINE t == <<Response(r, FALSE, FALSE), Body(r)>>
    <3>1. Served(r)'
      <4>1. \E x \in started' : x.call = r
        <5>1. \E a : [call |-> r, args |-> a] \in started'
          BY <1>4, <2>1 DEF ReadArgs
        <5> QED
          BY <5>1
      <4> QED
        BY <1>0, <2>4, <4>1 DEF Served
    <3>2. ResponseStream(t)'
      BY <1>0, <2>2, <3>1, ResponseNewNext DEF NewResponses
    <3>3. /\ Response(r, FALSE, FALSE) \in Item /\ Response(r, FALSE, FALSE).what = "header"
          /\ Response(r, FALSE, FALSE).call = r
          /\ Body(r) \in Item /\ Body(r).what = "body" /\ Body(r).call = r
      BY <2>2, ItemTypes DEF Response, Body
    <3>4. t \in Seq(Item) /\ t # <<>> /\ ~BodyNext(t)
      BY <3>3, MessageStream
    <3>5. toClient' = toClient \/ (open /\ toClient' = toClient \o t)
      BY <1>4, <2>1, <2>4 DEF ReadArgs, Sends
    <3> QED
      BY <3>2, <3>4, <3>5 DEF Answered
  <2> QED
    BY <2>3, <2>4
<1>5. CASE ReadArgsFails \/ SkipBody \/ NoBody
  <2>1. PICK r : r = serverCall
    OBVIOUS
  <2>2. r \in 1 .. made
    BY <1>5, <2>1 DEF ReadArgsFails, SkipBody, NoBody, ServerReads, ServerPlaceInv
  <2>3. SendError(r)
    BY <1>5, <2>1 DEF ReadArgsFails, SkipBody, NoBody, SendError, Sends
  <2> QED
    BY <1>0, <2>2, <2>3, ErrorAnswers
<1> QED
  BY <1>1, <1>2, <1>3, <1>4, <1>5 DEF ServerReader

\* What a step does to the stream of responses.
LEMMA Output ==
  ASSUME TypeOK, TypeOK', CallInv, StartedInv, RequestStream(toServer), ServerPlaceInv,
         [Next]_vars
  PROVE  \/ toClient' = toClient
         \/ toClient' = <<>> /\ ~open'
         \/ toClient # <<>> /\ toClient' = Tail(toClient) /\ ClientReader
         \/ Answered /\ Server
<1> USE DEF clientVars, serverVars
<1>1. CASE Server
  BY <1>1, ReaderAnswers, MethodAnswers DEF Server
<1>2. CASE ClientReader
  BY <1>2 DEF ClientReader, ClientReads, ReadNoResponse, ReadResponseHeader, ReadReply,
              ReadReplyFails, SkipReply, ReadEnd
<1>3. CASE \E k \in Kinds : WriteRequest(k) \/ WriteFails(k)
  BY <1>3 DEF WriteRequest, WriteFails
<1>4. CASE KeepAlive \/ Registers \/ NetBreak \/ UNCHANGED vars
  BY <1>4 DEF KeepAlive, Registers, NetBreak, vars
<1> QED
  BY <1>1, <1>2, <1>3, <1>4 DEF Next, Client

LEMMA ResponseStep ==
  ASSUME TypeOK, TypeOK', CallInv, StartedInv, RequestStream(toServer), ServerPlaceInv,
         ResponseStream(toClient), [Next]_vars
  PROVE  ResponseStream(toClient)'
<1> USE DEF Served, SomeError, IsPing
<1>0. Grows
  BY GrowsStep
<1>1. CASE toClient' = toClient
  <2>1. PICK s \in Seq(Item) : s = toClient
    BY DEF TypeOK
  <2>2. ResponseStream(s)'
    BY <1>0, <2>1, ResponseKept
  <2>3. toClient' = s
    BY <1>1, <2>1
  <2> QED
    BY <2>2, <2>3 DEF ResponseStream, Known
<1>2. CASE toClient' = <<>>
  <2>1. 1 .. Len(<<>>) = {}
    OBVIOUS
  <2> QED
    BY <1>2, <2>1 DEF ResponseStream, Known, Paired
<1>3. CASE toClient # <<>> /\ toClient' = Tail(toClient)
  <2>1. PICK s \in Seq(Item) : s = Tail(toClient)
    BY <1>3, TailStream DEF TypeOK
  <2>2. ResponseStream(s)
    BY <1>3, <2>1, ResponseTail DEF TypeOK
  <2>3. ResponseStream(s)'
    BY <1>0, <2>2, ResponseKept
  <2>4. toClient' = s
    BY <1>3, <2>1
  <2> QED
    BY <2>3, <2>4 DEF ResponseStream, Known
<1>4. CASE Answered
  <2>1. PICK t \in Seq(Item) : /\ toClient' = toClient \o t /\ open
                               /\ ~BodyNext(t) /\ ResponseStream(t)'
    BY <1>4 DEF Answered
  <2>2. PICK s \in Seq(Item) : s = toClient
    BY DEF TypeOK
  <2>3. ResponseStream(s)'
    BY <1>0, <2>2, ResponseKept
  <2>4. \A i \in 1 .. Len(s) : s[i].what = "header" => s[i].noData \/ Followed(s, i)
    BY <2>1, <2>2 DEF ResponseStream
  <2>5. ResponseStream(s \o t)'
    BY <2>1, <2>3, <2>4, ResponseJoinNext DEF ResponsesJoin
  <2>6. toClient' = s \o t
    BY <2>1, <2>2
  <2> QED
    BY <2>5, <2>6 DEF ResponseStream, Known
<1> QED
  BY <1>1, <1>2, <1>3, <1>4, Output
-----------------------------------------------------------------------------
(* The client in the stream of responses.                                  *)

\* A step that leaves the reader where it is, and takes nothing from the stream.
LEMMA ClientPlaceKept ==
  ASSUME TypeOK, CallInv, StartedInv, ClientPlaceInv, Grows,
         clientAt' = clientAt, clientCall' = clientCall,
         "client" \in derailed' => "client" \in derailed,
         toClient' = toClient \/ (toClient' = <<>> /\ ~open') \/ Answered
  PROVE  ClientPlaceInv'
<1>1. ASSUME clientAt = "body" PROVE Served(clientCall)'
  <2>1. PICK r \in 1 .. made : r = clientCall
    BY <1>1 DEF CallInv
  <2>2. Served(r)'
    BY <1>1, <2>1, GrowsKeeps DEF ClientPlaceInv
  <2> QED
    BY <2>1, <2>2 DEF Served
<1>2. SomeError => SomeError'
  BY GrowsKeeps
<1>3. open' => open
  BY DEF Grows
<1>4. CASE toClient' = toClient \/ (toClient' = <<>> /\ ~open')
  BY <1>1, <1>2, <1>3, <1>4 DEF ClientPlaceInv, BodyNext
<1>5. CASE Answered
  <2>1. PICK t \in Seq(Item) : toClient' = toClient \o t /\ open /\ ~BodyNext(t)
    BY <1>5 DEF Answered
  <2>2. /\ BodyNext(toClient \o t) => BodyNext(toClient)
        /\ toClient # <<>> => toClient \o t # <<>> /\ Head(toClient \o t) = Head(toClient)
    BY <2>1, SentStream DEF TypeOK
  <2> QED
    BY <1>1, <1>2, <2>1, <2>2 DEF ClientPlaceInv, BodyNext
<1> QED
  BY <1>4, <1>5

\* The header that is read.
LEMMA HeadResponseHeader ==
  ASSUME TypeOK, ResponseStream(toClient), toClient # <<>>, Head(toClient).what = "header"
  PROVE  /\ Head(toClient).call \in 1 .. made \/ Head(toClient).call = NoCall
         /\ BodyNext(Tail(toClient)) => Head(Tail(toClient)).call = Head(toClient).call
         /\ IF Head(toClient).noData
            THEN /\ Head(toClient).err \/ IsPing(Head(toClient).call)
                 /\ BodyNext(Tail(toClient)) => SomeError
            ELSE /\ Head(toClient).call \in 1 .. made /\ Served(Head(toClient).call)
                 /\ BodyNext(Tail(toClient)) \/ (Tail(toClient) = <<>> /\ ~open)
<1>1. /\ Head(toClient) = toClient[1] /\ 1 \in 1 .. Len(toClient)
      /\ BodyNext(Tail(toClient)) <=> Followed(toClient, 1)
      /\ Tail(toClient) \in Seq(Item) /\ Len(Tail(toClient)) = Len(toClient) - 1
      /\ Len(toClient) \in Nat
  BY TailStream DEF TypeOK
<1>2. 1 = Len(toClient) => Tail(toClient) = <<>>
  <2> DEFINE t == Tail(toClient)
  <2>1. t \in Seq(Item) /\ Len(t) = Len(toClient) - 1
    BY <1>1
  <2> HIDE DEF t
  <2>2. 1 = Len(toClient) => Len(t) = 0
    BY <2>1
  <2>3. t # <<>> => Len(t) > 0
    BY <2>1
  <2>4. 1 = Len(toClient) => t = <<>>
    BY <2>2, <2>3
  <2> QED
    BY <2>4 DEF t
<1>3. Head(toClient).call \in 1 .. made \/ Head(toClient).call = NoCall
  <2>1. toClient \in Seq(Item) /\ Known(toClient)
    BY DEF TypeOK, ResponseStream
  <2> QED
    BY <1>1, <2>1, ItemCalls
<1>4. BodyNext(Tail(toClient)) => Head(Tail(toClient)).call = Head(toClient).call
  BY TailPaired DEF ResponseStream, TypeOK
<1> QED
  BY <1>1, <1>2, <1>3, <1>4 DEF ResponseStream

\* A call that has its reply is not a ping.
LEMMA ServedIsNoPing ==
  ASSUME TypeOK, StartedInv, NEW r, Served(r)
  PROVE  ~IsPing(r)
BY DEF Served, StartedInv

LEMMA ReaderClientPlace ==
  ASSUME TypeOK, CallInv, StartedInv, ResponseStream(toClient), ClientPlaceInv, ClientReader
  PROVE  ClientPlaceInv'
<1> USE DEF clientVars, serverVars
<1>0. /\ open' = open /\ (SomeError => SomeError')
      /\ \A r : Served(r) => Served(r)'
  <2>1. open' = open /\ started' = started /\ returned' = returned /\ kind' = kind
    BY DEF ClientReader, ReadNoResponse, ReadResponseHeader, ReadReply, ReadReplyFails, SkipReply,
           ReadEnd, Reports
  <2> QED
    BY <2>1 DEF SomeError, Served
<1>1. CASE ReadNoResponse
  BY <1>0, <1>1 DEF ReadNoResponse, ClientReads, Reports, BodyNext, ClientPlaceInv
<1>2. CASE ReadResponseHeader
  <2>0. /\ clientAt = "header" /\ toClient # <<>> /\ Head(toClient).what = "header"
        /\ toClient' = Tail(toClient) /\ derailed' = derailed
    BY <1>2 DEF ReadResponseHeader, ClientReads
  <2>1. PICK r : r = Head(toClient).call
    OBVIOUS
  <2>2. CASE (IsPing(r) \/ Head(toClient).noData) /\ clientAt' = "header"
    <3>1. BodyNext(toClient') => SomeError
      BY <2>0, <2>1, <2>2, HeadResponseHeader, ServedIsNoPing
    <3> QED
      BY <1>0, <2>0, <2>2, <3>1 DEF ClientPlaceInv
  <2>3. CASE /\ ~Head(toClient).noData /\ clientAt' \in {"body", "skip"} /\ clientCall' = r
    <3>1. /\ Served(r) /\ (BodyNext(toClient') \/ (toClient' = <<>> /\ ~open))
          /\ BodyNext(toClient') => Head(toClient').call = r
      BY <2>0, <2>1, <2>3, HeadResponseHeader
    <3>2. Served(clientCall)'
      BY <1>0, <2>3, <3>1 DEF Served
    <3>3. "client" \in derailed' => SomeError'
      BY <1>0, <2>0 DEF ClientPlaceInv
    <3> QED
      BY <1>0, <2>3, <3>1, <3>2, <3>3 DEF ClientPlaceInv, BodyNext
  <2> QED
    BY <1>2, <2>0, <2>1, <2>2, <2>3 DEF ReadResponseHeader, CallOf, Reports
<1>3. CASE ReadReply \/ ReadReplyFails \/ SkipReply
  <2>1. /\ clientAt \in {"body", "skip"} /\ toClient # <<>> /\ toClient' = Tail(toClient)
        /\ clientAt' \in {"header", "end"} /\ derailed' = derailed
    BY <1>3 DEF ReadReply, ReadReplyFails, SkipReply, ClientReads, Reports
  <2>2. BodyNext(toClient)
    BY <2>1 DEF ClientPlaceInv
  <2>3. ~BodyNext(toClient')
    BY <2>1, <2>2, TailPaired DEF TypeOK, ResponseStream, BodyNext
  <2> QED
    BY <1>0, <2>1, <2>3 DEF ClientPlaceInv
<1>4. CASE ReadEnd
  BY <1>0, <1>4 DEF ReadEnd, Reports, ClientPlaceInv
<1> QED
  BY <1>1, <1>2, <1>3, <1>4 DEF ClientReader

\* The reader of the client is not touched by anybody else.
LEMMA ReaderAlone ==
  ASSUME [Next]_vars, ~ClientReader
  PROVE  /\ clientAt' = clientAt /\ clientCall' = clientCall /\ gotReply' = gotReply
         /\ "client" \in derailed' => "client" \in derailed
         /\ \A r \in Calls : reported'[r] = "nil" => reported[r] = "nil"
<1> USE DEF clientVars, serverVars
<1>1. CASE \E k \in Kinds : WriteRequest(k)
  BY <1>1 DEF WriteRequest
<1>2. CASE \E k \in Kinds : WriteFails(k)
  <2>1. PICK k \in Kinds, first \in 1 .. (made + 1) :
           /\ UNCHANGED <<clientAt, clientCall, gotReply, derailed>>
           /\ LET failed == {q \in pending : q >= first} \cup {made + 1}
              IN  reported' = [q \in Calls |-> IF q \in failed THEN "write" ELSE reported[q]]
    BY <1>2 DEF WriteFails
  <2> QED
    BY <2>1
<1>3. CASE Server
  BY <1>3 DEF Server, ServerReader, NoHeader, ReadNoHeader, ReadPing, ReadRequestHeader, ReadArgs,
              ReadArgsFails, SkipBody, NoBody, MethodReturns, EncodeFails, MethodPanics
<1>4. CASE KeepAlive \/ Registers \/ NetBreak \/ UNCHANGED vars
  BY <1>4 DEF KeepAlive, Registers, NetBreak, vars
<1> QED
  BY <1>1, <1>2, <1>3, <1>4 DEF Next, Client

LEMMA ClientPlaceStep ==
  ASSUME TypeOK, TypeOK', CallInv, StartedInv, RequestStream(toServer), ServerPlaceInv,
         ResponseStream(toClient), ClientPlaceInv, [Next]_vars
  PROVE  ClientPlaceInv'
<1>1. CASE ClientReader
  BY <1>1, ReaderClientPlace
<1>2. CASE ~ClientReader
  <2>1. toClient' = toClient \/ (toClient' = <<>> /\ ~open') \/ Answered
    BY <1>2, Output
  <2> QED
    BY <1>2, <2>1, GrowsStep, ReaderAlone, ClientPlaceKept
<1> QED
  BY <1>1, <1>2

\* What a caller is told, and what was returned for it.
LEMMA SuccessStep ==
  ASSUME TypeOK, TypeOK', CallInv, StartedInv, ResponseStream(toClient), ClientPlaceInv,
         SuccessIsReal, [Next]_vars
  PROVE  SuccessIsReal'
<1> USE DEF clientVars, serverVars
<1>0. Grows
  BY GrowsStep
<1>1. ASSUME NEW r \in Calls, reported[r] = "nil", gotReply'[r] = gotReply[r]
      PROVE  Served(r)' /\ (kind'[r].reply => gotReply'[r] = r)
  <2>1. /\ \E x \in started : x.call = r
        /\ kind[r].reply => gotReply[r] = r /\ returned[r] = "nil"
    BY <1>1 DEF SuccessIsReal
  <2>2. r \in 1 .. made
    BY <2>1, StartedIsMade
  <2>3. Served(r) /\ kind'[r] = kind[r]
    BY <1>0, <2>1, <2>2 DEF Served, Grows
  <2> QED
    BY <1>0, <1>1, <2>1, <2>2, <2>3, GrowsKeeps
<1>2. SUFFICES ASSUME NEW r \in Calls, reported'[r] = "nil"
               PROVE  Served(r)' /\ (kind'[r].reply => gotReply'[r] = r)
  BY DEF SuccessIsReal, Served
<1>3. CASE ~ClientReader
  BY <1>1, <1>2, <1>3, ReaderAlone
<1>4. ASSUME NEW S, NEW e, NEW ended, Reports(S, e, ended), e # "nil" \/ r \notin S
      PROVE  reported[r] = "nil"
  BY <1>2, <1>4 DEF Reports
<1>5. CASE ReadNoResponse \/ ReadReplyFails \/ ReadEnd
  BY <1>1, <1>2, <1>4, <1>5 DEF ReadNoResponse, ReadReplyFails, ReadEnd
<1>6. CASE SkipReply
  BY <1>1, <1>2, <1>6 DEF SkipReply
<1>7. CASE ReadResponseHeader
  <2>0. /\ toClient # <<>> /\ Head(toClient).what = "header"
    BY <1>7 DEF ReadResponseHeader, ClientReads
  <2> DEFINE h == Head(toClient)
  <2>1. CASE UNCHANGED <<reported, gotReply>>
    BY <1>1, <1>2, <2>1
  <2>2. CASE /\ ~IsPing(h.call) /\ h.noData /\ UNCHANGED gotReply
             /\ Reports({h.call}, IF h.err THEN "remote" ELSE "nil", FALSE)
    <3>1. h.err
      BY <2>0, <2>2, HeadResponseHeader
    <3> QED
      BY <1>1, <1>2, <1>4, <2>2, <3>1
  <2> QED
    BY <1>7, <2>1, <2>2 DEF ReadResponseHeader, CallOf
<1>8. CASE ReadReply
  <2>1. /\ clientAt = "body" /\ toClient # <<>> /\ clientCall \in Calls
        /\ gotReply' = [gotReply EXCEPT ![clientCall] = Head(toClient).call]
        /\ Reports({clientCall}, "nil", FALSE)
        /\ UNCHANGED <<started, returned, kind>>
    BY <1>8 DEF ReadReply, ClientReads, Reports, TypeOK
  <2>2. CASE r = clientCall
    <3>1. Served(r) /\ Head(toClient).call = r
      BY <2>1, <2>2 DEF ClientPlaceInv
    <3>2. gotReply'[r] = r
      BY <2>1, <2>2, <3>1 DEF TypeOK
    <3> QED
      BY <2>1, <3>1, <3>2 DEF Served
  <2>3. CASE r # clientCall
    <3>1. gotReply'[r] = gotReply[r] /\ reported[r] = "nil"
      BY <1>4, <2>1, <2>3 DEF TypeOK
    <3> QED
      BY <1>1, <3>1
  <2> QED
    BY <2>2, <2>3
<1> QED
  BY <1>3, <1>5, <1>6, <1>7, <1>8 DEF ClientReader

-----------------------------------------------------------------------------
(* The theorems.                                                           *)

LEMMA TypeStep == TypeOK /\ CallInv /\ ServerPlaceInv /\ RegistryInv /\ [Next]_vars => TypeOK'
<1> SUFFICES ASSUME TypeOK, CallInv, ServerPlaceInv, RegistryInv, [Next]_vars PROVE TypeOK'
  OBVIOUS
<1>1. CASE \E k \in Kinds : WriteRequest(k) \/ WriteFails(k)
  BY <1>1, WriterTypeOK
<1>2. CASE KeepAlive
  BY <1>2, KeepAliveTypeOK
<1>3. CASE ClientReader
  BY <1>3, ClientReaderTypeOK
<1>4. CASE Server
  BY <1>4, ServerReaderTypeOK, MethodTypeOK DEF Server
<1>5. CASE Registers
  <2>1. RegistryTypeOK'
    BY <1>5, RegistersStep DEF RegistryInv
  <2> QED
    BY <1>5, <2>1 DEF Registers, TypeOK, clientVars, serverVars
<1>6. CASE NetBreak
  BY <1>6, BreakTypeOK
<1>7. CASE UNCHANGED vars
  BY <1>7 DEF vars, clientVars, serverVars, TypeOK, RegistryTypeOK
<1> QED
  BY <1>1, <1>2, <1>3, <1>4, <1>5, <1>6, <1>7 DEF Next, Client

LEMMA InitIInv == Init => IInv
<1> SUFFICES ASSUME Init PROVE IInv
  OBVIOUS
<1>1. TypeOK
  BY InitTypeOK
<1>2. 1 .. Len(<<>>) = {} /\ ~BodyNext(<<>>) /\ made = 0
  BY DEF Init, BodyNext
<1>3. RegistryInv
  BY DEF Init, RegistryInit, RegistryInv, RegistryTypeOK
<1>4. CallInv
  BY <1>2 DEF Init, CallInv, Calls
<1>5. RequestStream(toServer) /\ ResponseStream(toClient)
  BY <1>2 DEF Init, RequestStream, ResponseStream, Paired, Known
<1>6. ServerPlaceInv /\ StartedInv /\ ClientPlaceInv /\ SuccessIsReal
  BY <1>2 DEF Init, ServerPlaceInv, StartedInv, ClientPlaceInv, SuccessIsReal
<1> QED
  BY <1>1, <1>3, <1>4, <1>5, <1>6 DEF IInv

LEMMA IInvStep == IInv /\ [Next]_vars => IInv'
<1> SUFFICES ASSUME IInv, [Next]_vars PROVE IInv'
  OBVIOUS
<1>1. TypeOK'
  BY TypeStep DEF IInv
<1>2. RegistryInv'
  BY RegistryStep DEF IInv
<1>3. CallInv'
  BY <1>1, CallStep DEF IInv
<1>4. RequestStream(toServer)'
  BY <1>1, RequestStep DEF IInv
<1>5. ServerPlaceInv'
  BY <1>1, ServerPlaceStep DEF IInv
<1>6. StartedInv'
  BY <1>1, StartedStep DEF IInv
<1>7. ResponseStream(toClient)'
  BY <1>1, ResponseStep DEF IInv
<1>8. ClientPlaceInv'
  BY <1>1, ClientPlaceStep DEF IInv
<1>9. SuccessIsReal'
  BY <1>1, SuccessStep DEF IInv
<1> QED
  BY <1>1, <1>2, <1>3, <1>4, <1>5, <1>6, <1>7, <1>8, <1>9 DEF IInv

\* Which items follow each other on the streams, where both ends are in them, and
\* what a registered service looks like, is invariant, whatever is encoded, decoded
\* and lost (codec.go, client_conn.go:208, server_conn.go:295).
THEOREM Inductive == Spec => []IInv
<1>1. Init => IInv
  BY InitIInv
<1>2. IInv /\ [Next]_vars => IInv'
  BY IInvStep
<1> QED
  BY <1>1, <1>2, PTL DEF Spec

\* The variables of Wire keep their types.
THEOREM TypeCorrect == Spec => []TypeOK
BY Inductive, PTL DEF IInv

\* A method is executed with the arguments of its own call (server_conn.go:312).
THEOREM OwnArgsHolds == Spec => []OwnArgs
<1>1. IInv => OwnArgs
  BY DEF IInv, StartedInv, OwnArgs
<1> QED
  BY <1>1, Inductive, PTL

\* A caller that sees no error has the reply of its own call (client_conn.go:211).
THEOREM SuccessIsRealHolds == Spec => []SuccessIsReal
BY Inductive, PTL DEF IInv

\* An end of the connection loses its place in the stream only for a reason
\* (server_conn.go:389, client_conn.go:302).
THEOREM OutOfStepForAReasonHolds == Spec => []OutOfStepForAReason
<1>1. IInv => OutOfStepForAReason
  BY DEF IInv, ServerPlaceInv, ClientPlaceInv, Misled, SomeError, OutOfStepForAReason
<1> QED
  BY <1>1, Inductive, PTL

\* A registered method can be called the way RoutineDoCall does, and is found by its
\* name (server.go:120, server_conn.go:319).
THEOREM RegisteredIsServableHolds == Spec => []RegisteredIsServable
<1>1. IInv => RegisteredIsServable
  BY RegistryIsServable DEF IInv
<1> QED
  BY <1>1, Inductive, PTL

\* What a lookup has found it finds again, while services are added (server.go:296).
THEOREM FoundIsFoundAgainHolds == Spec => FoundIsFoundAgain
<1>1. IInv /\ [Next]_vars =>
         [\A s \in services : \A m \in s.method :
             LET name == s.name \o <<m.name>>
             IN  getSeviceMethod(name) # {} =>
                    getSeviceMethod(name)' = getSeviceMethod(name)]_services
  BY FoundAgainStep DEF IInv
<1> QED
  BY <1>1, Inductive, PTL DEF Spec, FoundIsFoundAgain

=============================================================================
