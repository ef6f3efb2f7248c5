----------------------------- MODULE ServerProofs -----------------------------
(***************************************************************************)
(* Proofs about ConnectionLoop and about Records, neither of which uses    *)
(* the other.                                                              *)
(*                                                                         *)
(* ConnectionLoop, for any kinds of requests, any number of them and any   *)
(* channel capacity: it implements ReplyOrder, and a loop that wedges      *)
(* stays so.                                                               *)
(*                                                                         *)
(* Records, for any keys, codes, clients, periods and bounds: the tables   *)
(* of storage.rs, its quotas and audit log, the usage tables, the invites  *)
(* of the server and the file of pending invites.  A behaviour is about    *)
(* one of them (table), so each has an invariant of its own, which only    *)
(* says what that one needs.                                               *)
(***************************************************************************)
EXTENDS ConnectionLoop, Records, FiniteSetTheorems, FunctionTheorems,
        WellFoundedInduction, TLAPS

\* Messages for request r among the first i - 1 of s.
Before(s, i, r) == Cardinality({j \in 1..(i - 1) : s[j].req = r})

\* Replies to request r that the loop has put into the channel.
Replied(r) ==
    CASE r < handled \/ (r = handled /\ turn # "handle") -> sent[r].replies
      [] r = handled /\ turn = "handle" -> next - 1
      [] r > handled -> 0

(* Replies and streams stay within their requests. *)
Within ==
    /\ turn = "handle" => next <= sent[handled].replies + 1
    /\ \A r \in 1..MaxRequests :
          IF r <= handled THEN streamed[r] <= sent[r].stream ELSE streamed[r] = 0

(* What was put into the channel was written or is still in it. *)
Accounting ==
    turn # "ended" =>
        \A r \in 1..MaxRequests :
            Promise!Count(got, r) + Promise!Count(channel, r) = Replied(r) + streamed[r]

(* Every message in the channel will be due when those before it are written. *)
Due(i) ==
    LET m == channel[i] IN
    /\ m.req <= handled
    /\ m.part = Promise!Count(got, m.req) + Before(channel, i, m.req) + 1
    /\ m.part <= sent[m.req].replies + sent[m.req].stream
    /\ \A q \in 1..(m.req - 1) :
          Promise!Count(got, q) + Before(channel, i, q) >= sent[q].replies
Queue == \A i \in DOMAIN channel : Due(i)

IInv == TypeOK /\ Within /\ Accounting /\ Queue

-----------------------------------------------------------------------------
(* Counting messages: finite, one message at a time.                       *)

(* How many messages answer r grows by one at each that does. *)
LEMMA BeforeStep ==
    ASSUME NEW s, NEW i \in Nat \ {0}, NEW r
    PROVE  /\ Before(s, i, r) \in Nat
           /\ Before(s, 1, r) = 0
           /\ Before(s, i + 1, r) =
                 Before(s, i, r) + (IF s[i].req = r THEN 1 ELSE 0)
<1> DEFINE T == {j \in 1..(i - 1) : s[j].req = r}
<1>1. IsFiniteSet(T) /\ Cardinality(T) \in Nat
  <2>1. IsFiniteSet(1..(i - 1))
    BY FS_Interval
  <2> QED BY <2>1, FS_Subset, FS_CardinalityType
<1>2. {j \in 1..((i + 1) - 1) : s[j].req = r} = IF s[i].req = r THEN T \cup {i} ELSE T
  OBVIOUS
<1>3. {j \in 1..(1 - 1) : s[j].req = r} = {}
  OBVIOUS
<1>4. i \notin T
  OBVIOUS
<1>5. Cardinality(T \cup {i}) = Cardinality(T) + 1
  <2> HIDE DEF T
  <2> QED BY <1>1, <1>4, FS_AddElement
<1>6. /\ Before(s, i, r) = Cardinality(T)
      /\ Before(s, i + 1, r) = Cardinality(IF s[i].req = r THEN T \cup {i} ELSE T)
      /\ Before(s, 1, r) = Cardinality({})
  BY <1>2, <1>3, Zenon DEF Before
<1> HIDE DEF T
<1> QED BY <1>1, <1>5, <1>6, FS_EmptySet

(* Only the messages before place i are counted. *)
LEMMA BeforeSame ==
    ASSUME NEW s, NEW t, NEW i \in Nat \ {0}, NEW r,
           \A j \in 1..(i - 1) : s[j] = t[j]
    PROVE  Before(s, i, r) = Before(t, i, r)
<1>1. {j \in 1..(i - 1) : s[j].req = r} = {j \in 1..(i - 1) : t[j].req = r}
  OBVIOUS
<1> QED BY <1>1 DEF Before

(* The count of the specification is the count before the end. *)
LEMMA CountBefore ==
    ASSUME NEW s \in Seq(Message), NEW r
    PROVE  /\ Promise!Count(s, r) = Before(s, Len(s) + 1, r)
           /\ Promise!Count(s, r) \in Nat
<1>1. DOMAIN s = 1..((Len(s) + 1) - 1) /\ Len(s) \in Nat
  OBVIOUS
<1>2. Promise!Count(s, r) = Before(s, Len(s) + 1, r)
  <2>1. {i \in DOMAIN s : s[i].req = r} = {i \in 1..((Len(s) + 1) - 1) : s[i].req = r}
    BY <1>1
  <2>2. \A S : Promise!Cardinality(S) = Cardinality(S)
    BY Zenon DEF Promise!Cardinality, Cardinality
  <2> QED BY <2>1, <2>2, Zenon DEF Promise!Count, Before
<1> QED BY <1>1, <1>2, BeforeStep

(* Appending a message changes the count of its request, and nothing before it. *)
LEMMA CountAppend ==
    ASSUME NEW s \in Seq(Message), NEW m \in Message, NEW r
    PROVE  /\ Append(s, m) \in Seq(Message)
           /\ DOMAIN Append(s, m) = 1..(Len(s) + 1)
           /\ Append(s, m)[Len(s) + 1] = m
           /\ \A i \in 1..Len(s) : Append(s, m)[i] = s[i]
           /\ \A i \in 1..(Len(s) + 1) : Before(Append(s, m), i, r) = Before(s, i, r)
           /\ Promise!Count(Append(s, m), r) =
                 Promise!Count(s, r) + (IF m.req = r THEN 1 ELSE 0)
<1> DEFINE t == Append(s, m)
<1>1. /\ t \in Seq(Message) /\ Len(t) = Len(s) + 1 /\ DOMAIN t = 1..(Len(s) + 1)
      /\ t[Len(s) + 1] = m /\ Len(s) \in Nat
  OBVIOUS
<1>2. \A i \in 1..Len(s) : t[i] = s[i]
  OBVIOUS
<1> HIDE DEF t
<1>3. ASSUME NEW i \in 1..(Len(s) + 1) PROVE Before(t, i, r) = Before(s, i, r)
  BY <1>1, <1>2, BeforeSame
<1>4. Before(t, (Len(s) + 1) + 1, r) =
        Before(t, Len(s) + 1, r) + (IF m.req = r THEN 1 ELSE 0)
  BY <1>1, BeforeStep
<1>5. Promise!Count(t, r) = Before(t, (Len(s) + 1) + 1, r)
  BY <1>1, CountBefore
<1>6. Promise!Count(s, r) = Before(s, Len(s) + 1, r)
  BY CountBefore
<1>7. Before(t, Len(s) + 1, r) = Before(s, Len(s) + 1, r)
  BY <1>1, <1>3
<1>8. Promise!Count(t, r) = Promise!Count(s, r) + (IF m.req = r THEN 1 ELSE 0)
  BY <1>4, <1>5, <1>6, <1>7
<1> QED BY <1>1, <1>2, <1>3, <1>8 DEF t

(* Taking the head away takes it out of every count. *)
LEMMA BeforeTail ==
    ASSUME NEW s \in Seq(Message), s # <<>>, NEW i \in 1..Len(s), NEW r
    PROVE  Before(s, i + 1, r) =
             (IF Head(s).req = r THEN 1 ELSE 0) + Before(Tail(s), i, r)
<1> DEFINE T == {j \in 1..(i - 1) : Tail(s)[j].req = r}
           U == {j \in 2..i : s[j].req = r}
           f == [j \in T |-> j + 1]
<1>1. \A j \in 1..(i - 1) : Tail(s)[j] = s[j + 1]
  OBVIOUS
<1>2. Head(s) = s[1] /\ i \in Nat \ {0}
  OBVIOUS
<1>3. IsFiniteSet(T)
  <2>1. IsFiniteSet(1..(i - 1))
    BY FS_Interval
  <2> QED BY <2>1, FS_Subset
<1>4. f \in Bijection(T, U)
  <2>1. f \in [T -> U]
    BY <1>1
  <2>2. \A a, b \in T : f[a] = f[b] => a = b
    OBVIOUS
  <2>3. ASSUME NEW u \in U PROVE \E a \in T : f[a] = u
    <3>1. u - 1 \in 1..(i - 1) /\ Tail(s)[u - 1] = s[u] /\ (u - 1) + 1 = u
      BY <1>1
    <3>2. u - 1 \in T
      BY <3>1
    <3> QED BY <3>1, <3>2
  <2> QED BY <2>1, <2>2, <2>3, Fun_IsBij
<1>5. IsFiniteSet(U) /\ Cardinality(U) = Cardinality(T)
  <2>1. ExistsBijection(T, U)
    BY <1>4, Zenon DEF ExistsBijection
  <2> HIDE DEF T, U
  <2> QED BY <1>3, <2>1, FS_Bijection
<1>6. {j \in 1..((i + 1) - 1) : s[j].req = r} = IF s[1].req = r THEN U \cup {1} ELSE U
  BY <1>2
<1>7. 1 \notin U
  OBVIOUS
<1>8. Cardinality(T) \in Nat
  BY <1>3, FS_CardinalityType
<1>9. Cardinality(U \cup {1}) = Cardinality(U) + 1
  <2> HIDE DEF U
  <2> QED BY <1>5, <1>7, FS_AddElement
<1>10. /\ Before(Tail(s), i, r) = Cardinality(T)
       /\ Before(s, i + 1, r) = Cardinality(IF s[1].req = r THEN U \cup {1} ELSE U)
  BY <1>6, Zenon DEF Before
<1> HIDE DEF T, U
<1> QED BY <1>2, <1>5, <1>8, <1>9, <1>10

-----------------------------------------------------------------------------
(* The inductive invariant.                                                *)

(* A request the loop has begun to handle is of a known kind. *)
LEMMA HandledKind ==
    ASSUME TypeOK
    PROVE  /\ handled \in Nat /\ arrived \in Nat /\ Len(sent) \in Nat
           /\ handled <= arrived /\ arrived <= Len(sent) /\ Len(sent) <= MaxRequests
           /\ \A r \in 1..Len(sent) :
                 /\ sent[r] \in Kinds
                 /\ sent[r].replies \in Nat /\ sent[r].stream \in Nat
                 /\ sent[r].fails \in BOOLEAN
                 /\ sent[r].replies = 0 \/ sent[r].stream = 0
                 /\ sent[r].fails => sent[r].replies = 0 /\ sent[r].stream = 0
<1>1. /\ Len(sent) \in Nat /\ Len(sent) <= MaxRequests
      /\ arrived \in 0..Len(sent) /\ handled \in 0..arrived
  BY DEF TypeOK
<1>2. \A r \in 1..Len(sent) : sent[r] \in Kinds
  BY DEF TypeOK
<1> QED BY <1>1, <1>2, KindsAssumption

(* What is in the channel answers a request. *)
LEMMA InChannel ==
    ASSUME TypeOK, NEW i \in DOMAIN channel
    PROVE  /\ channel[i] \in Message
           /\ channel[i].req \in 1..MaxRequests /\ channel[i].req \in Nat \ {0}
           /\ channel[i].part \in Nat
<1>1. channel[i] \in Message
  BY DEF TypeOK
<1> QED BY <1>1, BoundsAssumption DEF Message

(* At first nothing was asked, sent or counted. *)
LEMMA InitStep == Init => IInv
<1> SUFFICES ASSUME Init PROVE IInv
  OBVIOUS
<1> USE BoundsAssumption DEF Init
<1>1. TypeOK
  <2>1. /\ sent \in Seq(Kinds) /\ channel \in Seq(Message) /\ got \in Seq(Message)
        /\ Len(sent) = 0 /\ Len(channel) = 0
    OBVIOUS
  <2>2. streamed \in [1..MaxRequests -> Nat]
    OBVIOUS
  <2>3. /\ Len(sent) <= MaxRequests /\ Len(channel) <= Cap
        /\ arrived \in 0..Len(sent) /\ handled \in 0..arrived
    BY <2>1
  <2>4. gone \in BOOLEAN
    BY Zenon
  <2>5. turn = "select" /\ next \in Nat \ {0}
    OBVIOUS
  <2> HIDE DEF Init
  <2> QED BY <2>1, <2>2, <2>3, <2>4, <2>5 DEF TypeOK
<1>2. Within
  BY DEF Within
<1>3. ASSUME NEW r \in 1..MaxRequests
      PROVE  Promise!Count(got, r) + Promise!Count(channel, r) = Replied(r) + streamed[r]
  <2>1. <<>> \in Seq(Message) /\ Len(<<>>) = 0
    OBVIOUS
  <2>2. Promise!Count(<<>>, r) = Before(<<>>, Len(<<>>) + 1, r)
    BY <2>1, CountBefore
  <2>3. Before(<<>>, Len(<<>>) + 1, r) = 0
    <3>1. Len(<<>>) + 1 = 1
      BY <2>1
    <3>2. Before(<<>>, 1, r) = 0
      BY BeforeStep
    <3> QED BY <3>1, <3>2
  <2>4. Replied(r) = 0 /\ streamed[r] = 0
    BY DEF Replied
  <2> QED BY <2>2, <2>3, <2>4
<1>4. Accounting
  BY <1>3 DEF Accounting
<1>5. Queue
  BY DEF Queue
<1> QED BY <1>1, <1>2, <1>4, <1>5 DEF IInv

(* A new request changes nothing for those already handled. *)
LEMMA AskStep ==
    ASSUME IInv, NEW k \in Kinds, Ask(k)
    PROVE  IInv'
<1> USE DEF Ask, IInv
<1>1. /\ sent' \in Seq(Kinds) /\ Len(sent') = Len(sent) + 1
      /\ \A r \in 1..Len(sent) : sent'[r] = sent[r]
  BY DEF TypeOK
<1>2. TypeOK'
  BY <1>1, HandledKind, BoundsAssumption DEF TypeOK
<1>3. \A r \in 1..handled : sent'[r] = sent[r]
  BY <1>1, HandledKind
<1>4. Within'
  BY <1>3, HandledKind DEF Within, TypeOK
<1>5. \A r \in 1..MaxRequests : Replied(r)' = Replied(r)
  BY <1>3, HandledKind DEF Replied
<1>6. Accounting'
  BY <1>5 DEF Accounting
<1>7. ASSUME NEW i \in DOMAIN channel PROVE Due(i)'
  <2>1. channel[i].req \in Nat \ {0} /\ channel[i].req <= handled
    BY InChannel DEF Queue, Due
  <2>2. sent'[channel[i].req] = sent[channel[i].req]
    BY <1>3, <2>1, HandledKind
  <2>3. \A q \in 1..(channel[i].req - 1) : sent'[q] = sent[q]
    BY <1>3, <2>1, HandledKind
  <2> QED BY <2>2, <2>3 DEF Queue, Due
<1> QED BY <1>2, <1>4, <1>6, <1>7 DEF Queue

(* Closing the stream changes nothing else. *)
LEMMA HangUpStep == IInv /\ HangUp => IInv'
BY DEF IInv, TypeOK, Within, Accounting, Queue, Due, Replied, HangUp

(* Reading requests puts none of them into the handler's hands. *)
LEMMA ReadStep == IInv /\ Read => IInv'
<1> SUFFICES ASSUME IInv, Read PROVE IInv'
  OBVIOUS
<1> USE DEF Read, IInv
<1>1. TypeOK'
  BY HandledKind DEF TypeOK
<1>2. \A r \in 1..MaxRequests : Replied(r)' = Replied(r)
  BY DEF Replied
<1>3. Within' /\ Accounting'
  BY <1>2 DEF Within, Accounting
<1>4. Queue'
  BY DEF Queue, Due
<1> QED BY <1>1, <1>3, <1>4

(* A request given to the handler has no reply and no stream yet; the one
   before it has all its replies. *)
LEMMA DecodeStep == IInv /\ Decode => IInv'
<1> SUFFICES ASSUME IInv, Decode PROVE IInv'
  OBVIOUS
<1> USE DEF Decode, IInv
<1>1. TypeOK'
  BY HandledKind DEF TypeOK
<1>2. Within'
  BY HandledKind DEF Within, TypeOK
<1>3. \A r \in 1..MaxRequests : Replied(r)' = Replied(r)
  BY HandledKind DEF Replied, TypeOK
<1>4. Accounting'
  BY <1>3 DEF Accounting
<1>5. ASSUME NEW i \in DOMAIN channel PROVE Due(i)'
  <2>1. channel[i].req \in Nat
    BY InChannel
  <2> QED BY <2>1, HandledKind DEF Queue, Due
<1> QED BY <1>1, <1>2, <1>4, <1>5 DEF Queue

(* What is appended to the channel keeps the queue in order if it comes when
   what was asked before is answered, as the next part of its request. *)
LEMMA AppendDue ==
    ASSUME IInv, NEW m \in Message, m.req <= handled,
           m.part = Promise!Count(got, m.req) + Promise!Count(channel, m.req) + 1,
           m.part <= sent[m.req].replies + sent[m.req].stream,
           \A q \in 1..(m.req - 1) :
              Promise!Count(got, q) + Promise!Count(channel, q) >= sent[q].replies,
           channel' = Append(channel, m), UNCHANGED <<sent, handled, got>>
    PROVE  Queue'
<1>1. channel \in Seq(Message) /\ Len(channel) \in Nat
  BY DEF IInv, TypeOK
<1>2. /\ DOMAIN channel' = 1..(Len(channel) + 1)
      /\ channel'[Len(channel) + 1] = m
      /\ \A i \in 1..Len(channel) : channel'[i] = channel[i]
      /\ \A r : \A i \in 1..(Len(channel) + 1) : Before(channel', i, r) = Before(channel, i, r)
  BY <1>1, CountAppend
<1>3. \A r : Promise!Count(channel, r) = Before(channel, Len(channel) + 1, r)
  BY <1>1, CountBefore
<1>4. ASSUME NEW i \in 1..Len(channel) PROVE Due(i)'
  <2>1. Due(i)
    BY <1>1 DEF IInv, Queue
  <2>2. channel'[i] = channel[i] /\ \A r : Before(channel', i, r) = Before(channel, i, r)
    BY <1>1, <1>2
  <2> QED BY <2>1, <2>2 DEF Due
<1>5. ASSUME NEW i, i = Len(channel) + 1 PROVE Due(i)'
  <2>1. \A r : Before(channel', i, r) = Promise!Count(channel, r)
    BY <1>1, <1>2, <1>3, <1>5
  <2>2. channel'[i] = m
    BY <1>2, <1>5
  <2> QED BY <2>1, <2>2 DEF Due
<1>6. \A i \in DOMAIN channel' : i \in 1..Len(channel) \/ i = Len(channel) + 1
  BY <1>1, <1>2
<1> QED BY <1>4, <1>5, <1>6 DEF Queue

(* A reply of the handler is the next part of its request, and every earlier
   request has its replies. *)
LEMMA ReplyStep == IInv /\ Reply => IInv'
<1> SUFFICES ASSUME IInv, Reply PROVE IInv'
  OBVIOUS
<1> USE DEF Reply, Room, IInv
<1> DEFINE m == [req |-> handled, part |-> next]
<1>1. /\ handled \in 1..Len(sent) /\ handled \in 1..MaxRequests
      /\ next \in Nat \ {0} /\ next <= sent[handled].replies
      /\ sent[handled].replies \in Nat /\ sent[handled].stream = 0
  BY SMTT(30), HandledKind, BoundsAssumption DEF TypeOK
<1>2. m \in Message
  BY <1>1 DEF Message
<1>3. channel \in Seq(Message) /\ Len(channel) \in Nat
  BY DEF TypeOK
<1>4. channel' \in Seq(Message) /\ Len(channel') = Len(channel) + 1
  BY <1>2, <1>3
<1>5. TypeOK'
  BY SMTT(30), <1>4, HandledKind, BoundsAssumption DEF TypeOK
<1>6. Within'
  BY <1>1 DEF Within
<1>7. \A r \in 1..MaxRequests :
         /\ Promise!Count(channel', r) =
               Promise!Count(channel, r) + (IF r = handled THEN 1 ELSE 0)
         /\ Promise!Count(channel, r) \in Nat /\ Promise!Count(got, r) \in Nat
  BY <1>2, <1>3, CountAppend, CountBefore DEF TypeOK
<1>8. \A r \in 1..MaxRequests :
         /\ Replied(r)' = Replied(r) + (IF r = handled THEN 1 ELSE 0)
         /\ r < handled => Replied(r) = sent[r].replies /\ Replied(r) \in Nat
         /\ r > handled => Replied(r) = 0
         /\ r = handled => Replied(r) = next - 1
  BY SMTT(30), <1>1, HandledKind DEF Replied
<1>9. \A r \in 1..MaxRequests : streamed[r] \in Nat
  BY DEF TypeOK
<1>10. Accounting'
  <2>1. ASSUME NEW r \in 1..MaxRequests
        PROVE  Promise!Count(got, r) + Promise!Count(channel', r) = Replied(r)' + streamed[r]
    <3>1. Promise!Count(got, r) + Promise!Count(channel, r) = Replied(r) + streamed[r]
      BY DEF Accounting
    <3>2. Replied(r) \in Int
      BY <1>1, <1>8, HandledKind
    <3> HIDE DEF IInv, Reply
    <3> QED BY <3>1, <3>2, <1>7, <1>8, <1>9
  <2> QED BY <2>1 DEF Accounting
<1>11. next = Promise!Count(got, handled) + Promise!Count(channel, handled) + 1
  <2>1. streamed[handled] = 0
    BY <1>1, <1>9 DEF Within
  <2>2. Promise!Count(got, handled) + Promise!Count(channel, handled)
          = Replied(handled) + streamed[handled]
    BY <1>1 DEF Accounting
  <2>3. Replied(handled) = next - 1
    BY <1>1, <1>8
  <2> QED BY <1>1, <1>7, <2>1, <2>2, <2>3
<1>12. ASSUME NEW q \in 1..(handled - 1)
       PROVE  Promise!Count(got, q) + Promise!Count(channel, q) >= sent[q].replies
  <2>1. q \in 1..MaxRequests /\ q < handled
    BY <1>1, HandledKind, BoundsAssumption
  <2>2. Promise!Count(got, q) + Promise!Count(channel, q) = Replied(q) + streamed[q]
    BY <2>1 DEF Accounting
  <2> QED BY <2>1, <2>2, <1>8, <1>9
<1>13. Queue'
  <2>1. m.req = handled /\ m.part = next
    OBVIOUS
  <2> HIDE DEF m
  <2>2. channel' = Append(channel, m) /\ UNCHANGED <<sent, handled, got>>
    BY DEF m
  <2>3. m.part <= sent[m.req].replies + sent[m.req].stream
    BY <2>1, <1>1
  <2>4. m.req <= handled
    BY <2>1, <1>1
  <2> QED BY <2>1, <2>2, <2>3, <2>4, <1>2, <1>11, <1>12, AppendDue
<1> QED BY <1>5, <1>6, <1>10, <1>13

(* A handler returns when its replies are all sent. *)
LEMMA ReturnStep == IInv /\ Return => IInv'
<1> SUFFICES ASSUME IInv, Return PROVE IInv'
  OBVIOUS
<1> USE DEF Return, IInv
<1>1. TypeOK' /\ Within' /\ Queue'
  BY DEF TypeOK, Within, Queue, Due
<1>2. next - 1 = sent[handled].replies
  BY HandledKind DEF TypeOK, Within
<1>3. \A r \in 1..MaxRequests : Replied(r)' = Replied(r)
  BY <1>2, HandledKind DEF Replied
<1>4. Accounting'
  BY <1>3 DEF Accounting
<1> QED BY <1>1, <1>4

(* When the connection ends, what the channel holds is dropped with it. *)
LEMMA EndStep == IInv /\ (Fail \/ Close) => IInv'
<1> SUFFICES ASSUME IInv, End PROVE IInv'
  BY DEF Fail, Close
<1> USE DEF End, IInv
<1>1. channel' \in Seq(Message) /\ Len(channel') = 0 /\ DOMAIN channel' = {}
  OBVIOUS
<1>2. TypeOK'
  BY <1>1, BoundsAssumption DEF TypeOK
<1>3. Within' /\ Accounting' /\ Queue'
  BY <1>1 DEF Within, Accounting, Queue
<1> QED BY <1>2, <1>3

(* The next message of a stream is the next part of its prompt: a request with
   a stream has no replies. *)
LEMMA RelayStep ==
    ASSUME IInv, NEW r \in 1..MaxRequests, Relay(r)
    PROVE  IInv'
<1> USE DEF Relay, Streaming, Room, IInv
<1> DEFINE m == [req |-> r, part |-> streamed[r] + 1]
<1>1. /\ r \in 1..Len(sent) /\ r <= handled
      /\ streamed[r] \in Nat /\ streamed[r] < sent[r].stream
      /\ sent[r].stream \in Nat /\ sent[r].replies = 0
  BY HandledKind, BoundsAssumption DEF TypeOK
<1>2. m \in Message
  BY <1>1 DEF Message
<1>3. channel \in Seq(Message) /\ Len(channel) \in Nat
  BY DEF TypeOK
<1>4. /\ streamed' \in [1..MaxRequests -> Nat]
      /\ \A q \in 1..MaxRequests : streamed'[q] = streamed[q] + (IF q = r THEN 1 ELSE 0)
  <2>1. streamed \in [1..MaxRequests -> Nat]
    BY DEF TypeOK
  <2>2. streamed' = [streamed EXCEPT ![r] = @ + 1]
    OBVIOUS
  <2> HIDE DEF m, Relay, IInv
  <2> QED BY <2>1, <2>2, SMTT(20)
<1>5. Within'
  BY <1>1, <1>4, HandledKind DEF Within, TypeOK
<1>6. \A q \in 1..MaxRequests : Replied(q)' = Replied(q)
  BY DEF Replied
<1>7. CASE turn = "ended"
  <2>1. TypeOK'
    BY <1>4, <1>7 DEF TypeOK
  <2> QED BY <2>1, <1>5, <1>7 DEF Accounting, Queue, Due
<1>8. CASE turn # "ended"
  <2>1. channel' = Append(channel, m)
    BY <1>8
  <2>2. channel' \in Seq(Message) /\ Len(channel') = Len(channel) + 1
    BY <1>2, <1>3, <2>1
  <2>3. TypeOK'
    BY <2>2, <1>4, <1>8, BoundsAssumption DEF TypeOK
  <2>4. \A q \in 1..MaxRequests :
           /\ Promise!Count(channel', q) =
                 Promise!Count(channel, q) + (IF q = r THEN 1 ELSE 0)
           /\ Promise!Count(channel, q) \in Nat /\ Promise!Count(got, q) \in Nat
           /\ Replied(q) \in Int
    <3>1. m.req = r
      OBVIOUS
    <3> HIDE DEF m
    <3>2. ASSUME NEW q \in 1..MaxRequests
          PROVE  Promise!Count(channel', q) =
                   Promise!Count(channel, q) + (IF q = r THEN 1 ELSE 0)
      BY <3>1, <1>2, <1>3, <2>1, CountAppend
    <3>3. \A q \in 1..MaxRequests :
             Promise!Count(channel, q) \in Nat /\ Promise!Count(got, q) \in Nat
      BY <1>3, CountBefore DEF TypeOK
    <3>4. \A q \in 1..MaxRequests : Replied(q) \in Int
      BY SMTT(30), HandledKind DEF Replied, TypeOK
    <3> QED BY <3>2, <3>3, <3>4
  <2>5. Accounting'
    <3>1. ASSUME NEW q \in 1..MaxRequests
          PROVE  Promise!Count(got, q) + Promise!Count(channel', q)
                   = Replied(q)' + streamed'[q]
      <4>1. Promise!Count(got, q) + Promise!Count(channel, q) = Replied(q) + streamed[q]
        BY <1>8 DEF Accounting
      <4>2. streamed[q] \in Nat
        BY DEF TypeOK
      <4> HIDE DEF IInv, Relay
      <4>3. streamed'[q] = streamed[q] + (IF q = r THEN 1 ELSE 0) /\ Replied(q)' = Replied(q)
        BY <1>4, <1>6
      <4> QED BY <4>1, <4>2, <4>3, <2>4
    <3> QED BY <3>1 DEF Accounting
  <2>6. Replied(r) = 0
    BY SMTT(30), <1>1, HandledKind DEF Replied, Within, TypeOK
  <2>7. streamed[r] + 1 = Promise!Count(got, r) + Promise!Count(channel, r) + 1
    BY <1>1, <1>8, <2>4, <2>6 DEF Accounting
  <2>8. ASSUME NEW q \in 1..(r - 1)
        PROVE  Promise!Count(got, q) + Promise!Count(channel, q) >= sent[q].replies
    <3>1. q \in 1..MaxRequests /\ q < handled /\ q \in 1..Len(sent)
      BY <1>1, HandledKind, BoundsAssumption
    <3>2. Replied(q) = sent[q].replies /\ Replied(q) \in Nat
      BY <3>1, HandledKind DEF Replied
    <3>3. Promise!Count(got, q) + Promise!Count(channel, q) = Replied(q) + streamed[q]
      BY <3>1, <1>8 DEF Accounting
    <3>4. streamed[q] \in Nat
      BY <3>1 DEF TypeOK
    <3> QED BY <3>2, <3>3, <3>4
  <2>9. Queue'
    <3>1. m.req = r /\ m.part = streamed[r] + 1
      OBVIOUS
    <3> HIDE DEF m
    <3>2. UNCHANGED <<sent, handled, got>>
      OBVIOUS
    <3>3. m.part <= sent[m.req].replies + sent[m.req].stream /\ m.req <= handled
      BY <3>1, <1>1
    <3> QED BY <3>1, <3>2, <3>3, <1>2, <2>1, <2>7, <2>8, AppendDue
  <2> QED BY <2>3, <2>5, <2>9, <1>5
<1> QED BY <1>7, <1>8

(* The message at the head of the channel is the one due next. *)
LEMMA HeadDue ==
    ASSUME IInv, channel # <<>>
    PROVE  /\ Head(channel) = channel[1] /\ Head(channel) \in Message
           /\ Head(channel).req \in 1..Len(sent)
           /\ Head(channel).part = Promise!Count(got, Head(channel).req) + 1
           /\ Head(channel).part
                 <= sent[Head(channel).req].replies + sent[Head(channel).req].stream
           /\ \A q \in 1..(Head(channel).req - 1) :
                 Promise!Count(got, q) >= sent[q].replies
<1>1. 1 \in DOMAIN channel /\ Head(channel) = channel[1]
  BY DEF IInv, TypeOK
<1>2. Due(1) /\ channel[1] \in Message /\ channel[1].req \in Nat \ {0}
  BY <1>1, InChannel DEF IInv, Queue
<1>3. \A r : Before(channel, 1, r) = 0 /\ Promise!Count(got, r) \in Nat
  BY BeforeStep, CountBefore DEF IInv, TypeOK
<1>4. channel[1].req \in 1..Len(sent)
  BY <1>2, HandledKind DEF IInv, Due
<1>5. channel[1].part = Promise!Count(got, channel[1].req) + 1
  BY <1>2, <1>3 DEF Due
<1>6. \A q \in 1..(channel[1].req - 1) : Promise!Count(got, q) >= sent[q].replies
  BY <1>2, <1>3 DEF Due
<1>7. channel[1].part <= sent[channel[1].req].replies + sent[channel[1].req].stream
  BY <1>2 DEF Due
<1> QED BY <1>1, <1>2, <1>4, <1>5, <1>6, <1>7

(* Writing the head moves it from one count to the other. *)
LEMMA WriteStep == IInv /\ Write => IInv'
<1> SUFFICES ASSUME IInv, Write PROVE IInv'
  OBVIOUS
<1> USE DEF Write
<1> DEFINE one(r) == IF Head(channel).req = r THEN 1 ELSE 0
<1>1. /\ channel \in Seq(Message) /\ Len(channel) \in Nat \ {0}
      /\ channel' \in Seq(Message) /\ Len(channel') = Len(channel) - 1
      /\ got \in Seq(Message) /\ Head(channel) \in Message
      /\ DOMAIN channel' = 1..(Len(channel) - 1)
      /\ \A i \in 1..(Len(channel) - 1) : channel'[i] = channel[i + 1]
  BY DEF IInv, TypeOK
<1>2. got' \in Seq(Message)
  BY <1>1
<1>3. TypeOK'
  BY <1>1, <1>2, BoundsAssumption DEF IInv, TypeOK
<1>4. Within'
  BY DEF IInv, Within
<1>5. \A r : /\ Promise!Count(got', r) = Promise!Count(got, r) + one(r)
             /\ Promise!Count(got, r) \in Nat
  BY <1>1, CountAppend, CountBefore
<1>6. \A r : \A i \in 1..Len(channel) :
         Before(channel, i + 1, r) = one(r) + Before(channel', i, r)
  BY SMTT(30), <1>1, BeforeTail
<1>7. ASSUME NEW r, NEW i \in 1..Len(channel) PROVE Before(channel', i, r) \in Nat
  <2>1. i \in Nat \ {0}
    BY <1>1
  <2> QED BY <2>1, BeforeStep
<1>8. \A r : one(r) \in {0, 1}
  OBVIOUS
<1> HIDE DEF one
<1>9. \A r : Promise!Count(channel, r) = one(r) + Promise!Count(channel', r)
  <2>1. \A r : Promise!Count(channel, r) = Before(channel, Len(channel) + 1, r)
    BY <1>1, CountBefore
  <2>2. \A r : Promise!Count(channel', r) = Before(channel', Len(channel), r)
    <3>1. Len(channel') + 1 = Len(channel)
      BY <1>1
    <3> QED BY <1>1, <3>1, CountBefore
  <2> QED BY <1>1, <1>6, <2>1, <2>2
<1>10. Accounting'
  <2>1. \A r : Replied(r)' = Replied(r)
    BY DEF Replied
  <2>2. \A r : Promise!Count(channel', r) \in Nat
    BY <1>1, CountBefore
  <2>3. ASSUME NEW r \in 1..MaxRequests
        PROVE  Promise!Count(got', r) + Promise!Count(channel', r)
                 = Promise!Count(got, r) + Promise!Count(channel, r)
    BY <1>5, <1>8, <1>9, <2>2
  <2> QED BY <2>1, <2>3 DEF IInv, Accounting
<1>11. ASSUME NEW i \in 1..(Len(channel) - 1) PROVE Due(i)'
  <2>1. i + 1 \in DOMAIN channel /\ i \in 1..Len(channel)
    BY <1>1
  <2>2. Due(i + 1) /\ channel'[i] = channel[i + 1]
    BY <1>1, <2>1 DEF IInv, Queue
  <2>3. ASSUME NEW r
        PROVE  /\ Promise!Count(got', r) + Before(channel', i, r)
                    = Promise!Count(got, r) + Before(channel, i + 1, r)
    BY <1>5, <1>6, <1>7, <1>8, <2>1
  <2> QED BY <2>2, <2>3 DEF Due
<1>12. Queue'
  BY <1>1, <1>11 DEF Queue
<1> QED BY <1>3, <1>4, <1>10, <1>12 DEF IInv

(* Every step keeps the invariant. *)
LEMMA NextStep == IInv /\ [Next]_vars => IInv'
<1> SUFFICES ASSUME IInv, [Next]_vars PROVE IInv'
  OBVIOUS
<1>1. CASE UNCHANGED vars
  BY <1>1 DEF IInv, TypeOK, Within, Accounting, Replied, Queue, Due, vars
<1>2. CASE \E k \in Kinds : Ask(k)
  BY <1>2, AskStep
<1>3. CASE HangUp
  BY <1>3, HangUpStep
<1>4. CASE Loop
  BY <1>4, ReadStep, DecodeStep, ReplyStep, ReturnStep, EndStep, WriteStep DEF Loop
<1>5. CASE \E r \in 1..MaxRequests : Relay(r)
  BY <1>5, RelayStep
<1> QED BY <1>1, <1>2, <1>3, <1>4, <1>5 DEF Next

(* The invariant holds in every reachable state, for any kinds of requests and
   any capacity of the channel (handle_connection and its relays). *)
THEOREM Invariance == Spec => []IInv
BY InitStep, NextStep, PTL DEF Spec

(* Every variable keeps its type, the channel its capacity, and the loop stays
   behind the client. *)
THEOREM TypeCorrect == Spec => []TypeOK
<1>1. IInv => TypeOK
  BY DEF IInv
<1> QED BY <1>1, Invariance, PTL

-----------------------------------------------------------------------------
(* The refinement.                                                         *)

(* Every step of the connection is a request, the next message that ReplyOrder
   allows, or nothing the client sees. *)
LEMMA StepRefines == IInv /\ [Next]_vars => [Promise!Next]_(Promise!vars)
<1> SUFFICES ASSUME IInv, [Next]_vars PROVE [Promise!Next]_(Promise!vars)
  OBVIOUS
<1>1. ASSUME NEW k \in Kinds, Ask(k) PROVE Promise!Next
  BY <1>1 DEF Ask, Promise!Next, Promise!Ask
<1>2. CASE Write
  <2> DEFINE r == Head(channel).req
  <2>1. /\ r \in DOMAIN sent
        /\ Head(channel).part = Promise!Count(got, r) + 1
        /\ Head(channel).part <= sent[r].replies + sent[r].stream
        /\ \A q \in 1..(r - 1) : Promise!Count(got, q) >= sent[q].replies
        /\ Head(channel) \in Message
    BY <1>2, HeadDue DEF Write, IInv, TypeOK
  <2>2. Head(channel) = [req |-> r, part |-> Promise!Count(got, r) + 1]
    BY <2>1 DEF Message
  <2>3. Promise!Count(got, r) < sent[r].replies + sent[r].stream
    <3>1. Promise!Count(got, r) \in Nat
      BY CountBefore DEF IInv, TypeOK
    <3>2. sent[r].replies \in Nat /\ sent[r].stream \in Nat
      BY <2>1, HandledKind DEF IInv, TypeOK
    <3> HIDE DEF r
    <3> QED BY <2>1, <3>1, <3>2
  <2>4. got' = Append(got, [req |-> r, part |-> Promise!Count(got, r) + 1])
    BY <1>2, <2>2 DEF Write
  <2>5. UNCHANGED sent
    BY <1>2 DEF Write
  <2> HIDE DEF r
  <2>6. Promise!Answer(r)
    BY <2>1, <2>3, <2>4, <2>5 DEF Promise!Answer
  <2> QED BY <2>1, <2>6 DEF Promise!Next
<1>3. CASE UNCHANGED <<sent, got>>
  BY <1>3 DEF Promise!vars
<1>4. HangUp \/ (Loop /\ ~Write) \/ (\E r \in 1..MaxRequests : Relay(r)) => UNCHANGED <<sent, got>>
  BY DEF HangUp, Loop, Read, Decode, Reply, Return, Fail, Close, End, Relay
<1> QED BY <1>1, <1>2, <1>3, <1>4 DEF Next, vars, Loop

(* The connection implements ReplyOrder: what a client has received is at every
   moment a sequence of answers in the order of its requests, none lost in
   between, none repeated (InOrder). *)
THEOREM RepliesInOrder == Spec => InOrder
<1>1. Init => Promise!Init
  BY DEF Init, Promise!Init
<1> QED BY <1>1, StepRefines, Invariance, PTL DEF Spec, InOrder, Promise!Spec

(* A loop that waits for a place in the channel while it is the one to make it
   waits for ever: no request, relay or hang-up frees it. *)
THEOREM WedgedForever == Spec => [][Wedged => Wedged']_vars
<1>1. ASSUME IInv, Next, Wedged PROVE Wedged'
  <2>1. /\ turn = "handle" /\ ~(Len(channel) < Cap)
        /\ next \in Nat \ {0} /\ next <= sent[handled].replies
        /\ handled \in 1..Len(sent) /\ sent[handled].replies \in Nat
    BY <1>1, HandledKind DEF Wedged, Room, IInv, TypeOK
  <2>2. ~sent[handled].fails
    BY <2>1, <1>1, HandledKind DEF IInv
  <2>3. ASSUME NEW k \in Kinds, Ask(k) PROVE Wedged'
    <3>1. sent'[handled] = sent[handled]
      BY <2>1, <2>3, <1>1 DEF Ask, IInv, TypeOK
    <3> QED BY <2>1, <2>3, <3>1 DEF Ask, Wedged, Room
  <2>4. HangUp => Wedged'
    BY <2>1 DEF HangUp, Wedged, Room
  <2>5. ~Loop
    BY <2>1, <2>2
       DEF Loop, Read, Decode, Reply, Return, Fail, Close, Write, Room
  <2>6. \A r \in 1..MaxRequests : ~Relay(r)
    BY <2>1 DEF Relay, Room
  <2> QED BY <1>1, <2>3, <2>4, <2>5, <2>6 DEF Next
<1> QED BY <1>1, Invariance, PTL DEF Spec

-----------------------------------------------------------------------------
(***************************************************************************)
(* Quotas.  No figure holds a request from before the period its reset     *)
(* ends, and no reset is further away than a period: so whatever is added  *)
(* now is not too old either.  This has to hold of rows that were read and *)
(* are to be written back as well.                                         *)
(***************************************************************************)
Sound(q, t) ==
    /\ q \in [DOMAIN Period -> [reset : Int, oldest : Int]]
    /\ \A f \in DOMAIN Period :
          q[f].reset - Period[f] <= q[f].oldest /\ q[f].reset <= t + Period[f]

Got(x, t) == x = Idle \/ (x.pc = "got" /\ Sound(x.quota, t))

QuotaInv ==
    /\ now \in 0..MaxTime
    /\ table # "quotas" => quota = [i \in Ids |-> None]
    /\ table = "quotas" =>
          /\ quota \in [Ids -> {quota[i] : i \in Ids}]
          /\ task \in [Clients -> {task[k] : k \in Clients}]
          /\ \A i \in Ids : quota[i] # None => Sound(quota[i], now)
          /\ \A k \in Clients : Got(task[k], now)

LEMMA Periods == DOMAIN Period = {"daily", "monthly"} /\ \A f \in DOMAIN Period : Period[f] \in Nat
  BY RecordsAssumption DEF Period

\* What is added is as recent as can be.
LEMMA AddedSound ==
    ASSUME NEW q, Sound(q, now), now \in Int PROVE Sound(Added(q), now)
<1> USE Periods
<1>1. ASSUME NEW f \in DOMAIN Period
      PROVE  /\ Added(q)[f] \in [reset : Int, oldest : Int]
             /\ Added(q)[f].reset - Period[f] <= Added(q)[f].oldest
             /\ Added(q)[f].reset <= now + Period[f]
  <2> DEFINE g == q[f]
             n == Least(g.oldest, now)
  <2>1. /\ g \in [reset : Int, oldest : Int] /\ Period[f] \in Int
        /\ g.reset - Period[f] <= g.oldest /\ g.reset <= now + Period[f]
    BY DEF Sound
  <2>2. n \in Int /\ (n = g.oldest \/ n = now)
    BY <2>1 DEF Least
  <2>3. Added(q)[f] = [g EXCEPT !.oldest = n]
    BY DEF Added
  <2> HIDE DEF g, n
  <2> QED BY <2>1, <2>2, <2>3
<1>2. Added(q) \in [DOMAIN Period -> [reset : Int, oldest : Int]]
  BY <1>1 DEF Added
<1> QED BY <1>1, <1>2 DEF Sound

LEMMA QuotasKept ==
    ASSUME QuotaInv, table = "quotas", Quotas
    PROVE  QuotaInv'
<1> USE DEF QuotaInv
<1>0. /\ UNCHANGED <<table, now>> /\ now \in Int /\ MaxTime \in Nat /\ now <= MaxTime
      /\ Forever \in Int /\ now <= Forever
  BY RecordsAssumption DEF Quotas, Forever
<1>3. ASSUME NEW i \in Ids, IncrementQuota(i), UNCHANGED task PROVE QuotaInv'
  <2>1. quota' = [quota EXCEPT ![i] = IF quota[i] = None THEN NewQuota ELSE Added(quota[i])]
    BY <1>3 DEF IncrementQuota
  <2>2. Sound(NewQuota, now)
    BY <1>0, Periods DEF Sound, Figure, NewQuota
  <2>3. quota[i] # None => Sound(Added(quota[i]), now)
    BY <1>0, AddedSound
  <2> QED BY <1>0, <1>3, <2>1, <2>2, <2>3
<1>4. ASSUME NEW f \in DOMAIN Period, ResetQuotas(f), UNCHANGED task PROVE QuotaInv'
  <2>1. ASSUME NEW i \in Ids, quota'[i] # None PROVE Sound(quota'[i], now)
    <3>1. CASE quota[i] # None /\ quota[i][f].reset <= now
      <4>1. quota'[i] = [quota[i] EXCEPT ![f] = Figure(f, Forever)]
        BY <1>4, <3>1 DEF ResetQuotas
      <4>2. /\ Figure(f, Forever) \in [reset : Int, oldest : Int]
            /\ Figure(f, Forever).reset - Period[f] <= Figure(f, Forever).oldest
            /\ Figure(f, Forever).reset <= now + Period[f]
        BY <1>0, Periods DEF Figure
      <4>3. Sound(quota[i], now)
        BY <3>1
      <4> HIDE DEF QuotaInv
      <4> QED BY <4>1, <4>2, <4>3 DEF Sound
    <3>2. CASE ~(quota[i] # None /\ quota[i][f].reset <= now)
      <4>1. quota'[i] = quota[i]
        BY <1>4, <3>2 DEF ResetQuotas
      <4> QED BY <2>1, <4>1
    <3> QED BY <3>1, <3>2
  <2>2. quota' \in [Ids -> {quota'[i] : i \in Ids}]
    BY <1>4 DEF ResetQuotas
  <2> QED BY <1>0, <1>4, <2>1, <2>2
<1>5. ASSUME NEW k \in Clients, NEW i \in Ids, GetQuota(k, i), UNCHANGED quota PROVE QuotaInv'
  BY <1>0, <1>5 DEF GetQuota, Got
<1>6. ASSUME NEW k \in Clients, SaveQuota(k) PROVE QuotaInv'
  <2>1. Sound(task[k].quota, now)
    BY <1>6 DEF SaveQuota, Got, Idle
  <2> QED BY <1>0, <1>6, <2>1 DEF SaveQuota, Got
<1> QED BY <1>3, <1>4, <1>5, <1>6 DEF Quotas

LEMMA QuotaInductive == QuotaInv /\ [RecordsNext]_recordsVars => QuotaInv'
<1> SUFFICES ASSUME QuotaInv, [RecordsNext]_recordsVars PROVE QuotaInv'
  OBVIOUS
<1>1. CASE table = "quotas" /\ Quotas
  BY <1>1, QuotasKept
<1>2. CASE Tick
  <2>1. ASSUME NEW q, Sound(q, now) PROVE Sound(q, now + 1)
    BY <2>1, Periods DEF Sound, QuotaInv
  <2>2. \A x : Got(x, now) => Got(x, now + 1)
    BY <2>1 DEF Got
  <2>3. now + 1 \in 0..MaxTime
    BY <1>2, RecordsAssumption DEF Tick, QuotaInv
  <2> QED BY <1>2, <2>1, <2>2, <2>3 DEF Tick, store, QuotaInv
<1>3. CASE Store
  BY <1>3 DEF Store, Sessions, ApiKeyTable, Cache, Webhooks, QuotaInv
<1>4. CASE AuditLog
  BY <1>4 DEF AuditLog, store, QuotaInv
<1>5. CASE Usage
  BY <1>5 DEF Usage, store, QuotaInv
<1>6. CASE Invites
  BY <1>6 DEF Invites, store, QuotaInv
<1>7. CASE Pending
  BY <1>7 DEF Pending, store, QuotaInv
<1>8. CASE Crash
  BY <1>8 DEF Crash, store, QuotaInv, Got
<1>9. CASE UNCHANGED recordsVars
  BY <1>9 DEF recordsVars, store, QuotaInv
<1> QED BY <1>1, <1>2, <1>3, <1>4, <1>5, <1>6, <1>7, <1>8, <1>9 DEF RecordsNext, Quotas

(* Until its reset is due no figure of a quota counts a request older than *)
(* its period, whichever rows are incremented or written back when.        *)
THEOREM QuotasFresh == RecordsSpec => []QuotaFresh
<1>1. RecordsInit => QuotaInv
  BY RecordsAssumption DEF RecordsInit, QuotaInv, Got
<1>2. QuotaInv => QuotaFresh
  <2> SUFFICES ASSUME QuotaInv, NEW i \in Ids, quota[i] # None,
                      NEW f \in DOMAIN Period, now < quota[i][f].reset
               PROVE  quota[i][f].oldest > now - Period[f]
    BY DEF QuotaFresh
  <2>1. now \in Int /\ Sound(quota[i], now)
    BY DEF QuotaInv
  <2>2. /\ quota[i][f].reset \in Int /\ quota[i][f].oldest \in Int /\ Period[f] \in Int
        /\ quota[i][f].reset - Period[f] <= quota[i][f].oldest
    BY <2>1, Periods DEF Sound
  <2> QED BY <2>1, <2>2
<1> QED BY <1>1, <1>2, QuotaInductive, PTL DEF RecordsSpec

-----------------------------------------------------------------------------
(* Invites.  What is redeemed is kept in the invite for as long as there   *)
(* is one; afterwards it stays what it was.                                *)

Invite == [max : Nat, uses : Nat, until : Moments]
InviteInv ==
    /\ invites \in [Codes -> Invite \cup {None}]
    /\ redeemed \in [Codes -> [max : Nat, uses : Nat]]
    /\ \A c \in Codes :
          /\ redeemed[c].uses <= redeemed[c].max
          /\ invites[c] # None => /\ invites[c] \in Invite
                                  /\ invites[c].max = redeemed[c].max
                                  /\ invites[c].uses = redeemed[c].uses

LEMMA InvitesKept == ASSUME InviteInv, Invites PROVE InviteInv'
<1> USE DEF InviteInv
\* Invites that are removed.
<1>1. ASSUME UNCHANGED redeemed, invites' \in [Codes -> Invite \cup {None}],
             \A c \in Codes : invites'[c] = invites[c] \/ invites'[c] = None
      PROVE  InviteInv'
  <2>1. ASSUME NEW c \in Codes
        PROVE  /\ redeemed'[c].uses <= redeemed'[c].max
               /\ invites'[c] # None => /\ invites'[c] \in Invite
                                        /\ invites'[c].max = redeemed'[c].max
                                        /\ invites'[c].uses = redeemed'[c].uses
    BY <1>1, <2>1
  <2> QED BY <1>1, <2>1
<1>2. CASE CleanupInvites
  BY <1>1, <1>2 DEF CleanupInvites
<1>3. ASSUME NEW c \in Codes, RevokeInvite(c) PROVE InviteInv'
  BY <1>1, <1>3 DEF RevokeInvite
<1>4. ASSUME NEW k \in Clients, RemoveUsedUp(k) PROVE InviteInv'
  BY <1>1, <1>4 DEF RemoveUsedUp
<1>5. ASSUME NEW c \in Codes, GenerateInvite(c) PROVE InviteInv'
  <2>1. PICK max \in 1..MaxUses, until \in Moments :
           /\ invites' = [invites EXCEPT ![c] = [max |-> max, uses |-> 0, until |-> until]]
           /\ redeemed' = [redeemed EXCEPT ![c].max = max]
    BY <1>5 DEF GenerateInvite
  <2>2. redeemed[c].uses = 0 /\ max \in Nat
    BY <1>5, RecordsAssumption DEF GenerateInvite, Fresh
  <2> QED BY <2>1, <2>2 DEF Invite
<1>6. ASSUME NEW c \in Codes, NEW k \in Clients, UseInvite(k, c) PROVE InviteInv'
  <2>1. /\ invites[c] \in Invite /\ invites[c].uses < invites[c].max
        /\ invites[c].max = redeemed[c].max /\ invites[c].uses = redeemed[c].uses
    BY <1>6 DEF UseInvite, Valid
  <2> DEFINE n == redeemed[c].uses + 1
  <2>2. n \in Nat /\ n <= redeemed[c].max
    BY <2>1 DEF Invite
  <2>3. /\ invites' = [invites EXCEPT ![c].uses = n]
        /\ redeemed' = [redeemed EXCEPT ![c].uses = n]
    BY <1>6, <2>1 DEF UseInvite, Redeem
  <2> HIDE DEF n
  <2> QED BY <2>1, <2>2, <2>3 DEF Invite
<1> QED BY <1>2, <1>3, <1>4, <1>5, <1>6 DEF Invites

(* However its uses and its removal interleave, no code is redeemed more   *)
(* often than it was made for.                                             *)
THEOREM UsesLimited == RecordsSpec => []RedeemedWithinLimit
<1>1. RecordsInit => InviteInv
  BY DEF RecordsInit, InviteInv
<1>2. InviteInv /\ [RecordsNext]_recordsVars => InviteInv'
  <2> SUFFICES ASSUME InviteInv, [RecordsNext]_recordsVars PROVE InviteInv'
    OBVIOUS
  <2>1. CASE UNCHANGED codes
    BY <2>1 DEF codes, InviteInv
  <2>2. CASE Invites
    BY <2>2, InvitesKept
  <2>3. CASE Crash
    BY <2>3 DEF Crash, InviteInv
  <2> QED BY <2>1, <2>2, <2>3 DEF RecordsNext, Tick, Store, Quotas, AuditLog, Usage, Pending, recordsVars
<1>3. InviteInv => RedeemedWithinLimit
  BY DEF InviteInv, RedeemedWithinLimit
<1> QED BY <1>1, <1>2, <1>3, PTL DEF RecordsSpec

-----------------------------------------------------------------------------
(***************************************************************************)
(* The file of pending invites.  A process underway holds what it read and *)
(* its own code.  That no code gets lost needs: what the file has all of   *)
(* them hold (FileHeld), what one holds the others do (SameHeld) or, if    *)
(* the file can be read, it has (HeldInFile), and a torn file that nobody  *)
(* is writing leaves no code but those not yet read for (TornEmpty) --     *)
(* always but for the excused ones.                                        *)
(***************************************************************************)
Active == {k \in Clients : task[k].pc \in {"read", "writing"}}
Kept == printed \ excused
InFile == IF file \in {None, Torn} THEN {} ELSE file
Waiting == {c \in Codes : \E k \in Clients : task[k].pc = "printed" /\ task[k].code = c}

PendingTask ==
    {Idle} \cup [pc : {"printed", "read", "writing"}, code : Codes, codes : SUBSET Codes]

FileHeld == \A k \in Active : \A c \in Kept : c \in InFile => c \in task[k].codes
SameHeld ==
    \A k, j \in Active : \A c \in Kept : c \in task[k].codes => c \in task[j].codes
HeldInFile ==
    file # Torn => \A k \in Active : \A c \in Kept :
        c \in task[k].codes => c = task[k].code \/ c \in InFile
TornEmpty ==
    (file = Torn /\ \A k \in Clients : task[k].pc # "writing") => Kept \subseteq Waiting
Somewhere == \A c \in Kept :
    c \in InFile \/ c \in Waiting \/ \E k \in Active : c \in task[k].codes

PendingShape ==
    /\ file \in {None, Torn} \cup SUBSET Codes
    /\ printed \subseteq Codes /\ excused \subseteq printed
    /\ task \in [Clients -> PendingTask]
    /\ \A k \in Clients : task[k] # Idle => task[k].code \in printed
    /\ \A k \in Active : task[k].code \in task[k].codes /\ task[k].codes \subseteq printed
    /\ InFile \subseteq printed

PendingInv ==
    IF table = "pending"
    THEN PendingShape /\ FileHeld /\ SameHeld /\ HeldInFile /\ TornEmpty /\ Somewhere
    ELSE printed = {}

LEMMA ActiveTask ==
    ASSUME PendingShape, NEW k \in Clients
    PROVE  /\ task[k] = Idle \/ /\ task[k].pc \in {"printed", "read", "writing"}
                                /\ task[k].code \in Codes /\ task[k].codes \in SUBSET Codes
           /\ task[k] = Idle <=> task[k].pc = "idle"
  BY DEF PendingShape, PendingTask, Idle

\* What a step of k to t does to those underway and those waiting.
LEMMA OneTask ==
    ASSUME PendingShape, NEW k \in Clients, NEW t \in PendingTask, task' = [task EXCEPT ![k] = t]
    PROVE  /\ task' \in [Clients -> PendingTask] /\ task'[k] = t
           /\ \A j \in Clients : j # k => task'[j] = task[j]
           /\ Active' = {j \in Active : j # k}
                        \cup (IF t.pc \in {"read", "writing"} THEN {k} ELSE {})
           /\ \A c \in Waiting' : c \in Waiting \/ (t.pc = "printed" /\ t.code = c)
           /\ \A c \in Waiting : c \in Waiting' \/ (task[k].pc = "printed" /\ task[k].code = c)
           /\ t.pc = "printed" => t.code \in Waiting'
<1>1. /\ task' \in [Clients -> PendingTask] /\ task'[k] = t
      /\ \A j \in Clients : j # k => task'[j] = task[j]
  BY DEF PendingShape
<1>2. Active' = {j \in Active : j # k} \cup (IF t.pc \in {"read", "writing"} THEN {k} ELSE {})
  BY <1>1 DEF Active
<1>3. \A c \in Waiting' : c \in Waiting \/ (t.pc = "printed" /\ t.code = c)
  BY <1>1 DEF Waiting
<1>4. \A c \in Waiting : c \in Waiting' \/ (task[k].pc = "printed" /\ task[k].code = c)
  BY <1>1 DEF Waiting
<1>5. t.pc = "printed" => t.code \in Waiting'
  BY <1>1 DEF Waiting, PendingTask, Idle
<1> QED BY <1>1, <1>2, <1>3, <1>4, <1>5

\* Nobody holds a code that is not on a screen yet.
LEMMA PrintKept ==
    ASSUME PendingInv, table = "pending", UNCHANGED table,
           NEW k \in Clients, NEW c \in Codes, PrintInvite(k, c)
    PROVE  PendingInv'
<1> DEFINE t == [pc |-> "printed", code |-> c, codes |-> {}]
<1>1. /\ task' = [task EXCEPT ![k] = t] /\ task[k] = Idle /\ t \in PendingTask
      /\ c \notin printed /\ printed' = printed \cup {c} /\ UNCHANGED <<file, excused>>
  BY DEF PrintInvite, PendingTask
<1>2. t.pc = "printed" /\ t.code = c /\ t # Idle
  BY DEF Idle
<1> HIDE DEF t
<1>3. PendingShape
  BY DEF PendingInv
<1>4. /\ Active' = Active /\ k \notin Active /\ task'[k] = t
      /\ \A j \in Clients : j # k => task'[j] = task[j]
      /\ Waiting \subseteq Waiting' /\ c \in Waiting'
  <2>1. k \notin Active /\ task[k].pc # "printed"
    BY <1>1 DEF Active, Idle
  <2>2. Active' = {j \in Active : j # k} /\ \A x \in Waiting : x \in Waiting'
    BY <1>1, <1>2, <1>3, <2>1, OneTask
  <2>3. /\ task'[k] = t /\ c \in Waiting' /\ \A j \in Clients : j # k => task'[j] = task[j]
    BY <1>1, <1>2, <1>3, OneTask
  <2> QED BY <2>1, <2>2, <2>3
<1>5. \A j \in Active : j \in Clients /\ task'[j] = task[j] /\ c \notin task[j].codes
  BY <1>1, <1>3, <1>4 DEF Active, PendingShape
<1>6. Kept' \subseteq Kept \cup {c} /\ InFile' = InFile /\ c \notin InFile
  BY <1>1, <1>3 DEF Kept, InFile, PendingShape
<1>7. PendingShape'
  BY <1>1, <1>2, <1>3, <1>4, <1>5, <1>6, OneTask DEF PendingShape
<1>8. FileHeld' /\ SameHeld' /\ HeldInFile'
  BY <1>1, <1>4, <1>5, <1>6 DEF PendingInv, FileHeld, SameHeld, HeldInFile
<1>9. TornEmpty'
  <2>1. \A j \in Clients : task[j].pc = "writing" => task'[j].pc = "writing"
    BY <1>1, <1>4 DEF Idle
  <2> QED BY <1>1, <1>4, <1>6, <2>1 DEF PendingInv, TornEmpty
<1>10. Somewhere'
  BY <1>4, <1>5, <1>6 DEF PendingInv, Somewhere
<1> QED BY <1>7, <1>8, <1>9, <1>10 DEF PendingInv

\* Two that are underway at once are both excused; what the file has both have.
LEMMA ReadKept ==
    ASSUME PendingInv, table = "pending", UNCHANGED table, NEW k \in Clients, ReadPending(k)
    PROVE  PendingInv'
<1> DEFINE own == task[k].code
           t == [task[k] EXCEPT !.pc = "read", !.codes = InFile \cup {own}]
<1>1. /\ task' = [task EXCEPT ![k] = t] /\ task[k].pc = "printed"
      /\ UNCHANGED <<file, printed>> /\ excused \subseteq excused'
      /\ file = Torn => printed \subseteq excused'
      /\ file # Torn /\ Underway # {} => Underway \cup {own} \subseteq excused'
      /\ excused' \subseteq printed \cup Underway \cup {own} \cup excused
  BY DEF ReadPending, InFile
<1>2. PendingShape
  BY DEF PendingInv
<1>3. /\ own \in Codes /\ own \in printed /\ own \in Waiting /\ k \notin Active
      /\ task[k] \in PendingTask /\ task[k] # Idle
  BY <1>1, <1>2, ActiveTask DEF PendingShape, Active, Waiting, Idle
<1>4. /\ t \in PendingTask /\ t.pc = "read" /\ t.code = own /\ t.codes = InFile \cup {own}
      /\ t # Idle
  <2>1. task[k] \in [pc : {"printed", "read", "writing"}, code : Codes, codes : SUBSET Codes]
    BY <1>3 DEF PendingTask
  <2>2. InFile \cup {own} \in SUBSET Codes
    BY <1>2, <1>3 DEF PendingShape
  <2> DEFINE s == InFile \cup {own}
  <2> HIDE DEF s
  <2>3. s \in SUBSET Codes
    BY <2>2 DEF s
  <2>4. LET u == [task[k] EXCEPT !.pc = "read", !.codes = s]
        IN  u \in PendingTask /\ u.pc = "read" /\ u.code = own /\ u.codes = s
    BY <2>1, <2>3 DEF PendingTask
  <2> QED BY <2>4 DEF s, Idle
<1> HIDE DEF t
<1>5. Underway = {task[j].code : j \in Active}
  BY DEF Underway, Active
<1>6. /\ Active' = Active \cup {k} /\ task'[k] = t
      /\ \A j \in Clients : j # k => task'[j] = task[j]
      /\ \A c \in Waiting : c \in Waiting' \/ c = own
      /\ \A c \in Waiting' : c \in Waiting
  <2>1. /\ Active' = {j \in Active : j # k} \cup {k} /\ task'[k] = t
        /\ \A j \in Clients : j # k => task'[j] = task[j]
    BY <1>1, <1>2, <1>4, OneTask
  <2>2. (\A c \in Waiting : c \in Waiting' \/ c = own) /\ \A c \in Waiting' : c \in Waiting
    BY <1>1, <1>2, <1>4, OneTask
  <2> QED BY <1>3, <2>1, <2>2
<1>7. \A j \in Active : j # k /\ j \in Clients /\ task'[j] = task[j]
  BY <1>3, <1>6 DEF Active
<1>8. Kept' \subseteq Kept /\ InFile' = InFile /\ (file = Torn => Kept' = {})
  BY <1>1 DEF Kept, InFile
<1>9. file # Torn /\ Active # {} => own \notin Kept' /\ \A j \in Active : task[j].code \notin Kept'
  BY <1>1, <1>5 DEF Kept
<1>10. PendingShape'
  <2>1. task' \in [Clients -> PendingTask]
    BY <1>1, <1>2, <1>4, OneTask
  <2>2. excused' \subseteq printed
    BY <1>1, <1>2, <1>3, <1>5 DEF PendingShape, Active, Idle
  <2>3. \A j \in Clients : task'[j] # Idle => task'[j].code \in printed
    BY <1>2, <1>3, <1>4, <1>6 DEF PendingShape
  <2>4. \A j \in Active' : task'[j].code \in task'[j].codes /\ task'[j].codes \subseteq printed
    BY <1>2, <1>3, <1>4, <1>6, <1>7 DEF PendingShape
  <2> QED BY <1>1, <1>2, <1>8, <2>1, <2>2, <2>3, <2>4 DEF PendingShape
<1>11. FileHeld'
  BY <1>4, <1>6, <1>7, <1>8 DEF PendingInv, FileHeld
<1>12. SameHeld'
  <2>1. ASSUME NEW j \in Active, NEW c \in Kept' PROVE c \in t.codes <=> c \in task[j].codes
    <3>1. file # Torn /\ c \in Kept /\ c # own /\ c # task[j].code
      BY <1>8, <1>9, <2>1
    <3> QED BY <1>4, <3>1 DEF PendingInv, FileHeld, HeldInFile
  <2> QED BY <1>6, <1>7, <1>8, <2>1 DEF PendingInv, SameHeld
<1>13. HeldInFile'
  BY <1>1, <1>4, <1>6, <1>7, <1>8 DEF PendingInv, HeldInFile
<1>14. TornEmpty'
  BY <1>1, <1>8 DEF TornEmpty
<1>15. Somewhere'
  BY <1>4, <1>6, <1>7, <1>8 DEF PendingInv, Somewhere
<1> QED BY <1>10, <1>11, <1>12, <1>13, <1>14, <1>15 DEF PendingInv

\* What the file had, the one that empties it holds.
LEMMA OpenKept ==
    ASSUME PendingInv, table = "pending", UNCHANGED table, NEW k \in Clients, OpenPending(k)
    PROVE  PendingInv'
<1> DEFINE t == [task[k] EXCEPT !.pc = "writing"]
<1>1. /\ task' = [task EXCEPT ![k] = t] /\ task[k].pc = "read"
      /\ file' = Torn /\ UNCHANGED <<printed, excused>>
  BY DEF OpenPending
<1>2. PendingShape
  BY DEF PendingInv
<1>3. /\ k \in Active /\ task[k] \in PendingTask /\ task[k] # Idle
  BY <1>1, <1>2 DEF PendingShape, Active, Idle
<1>4. /\ t \in PendingTask /\ t.pc = "writing" /\ t.code = task[k].code
      /\ t.codes = task[k].codes /\ t # Idle
  BY <1>3 DEF PendingTask, Idle
<1> HIDE DEF t
<1>5. /\ Active' = Active /\ task'[k] = t
      /\ \A j \in Clients : j # k => task'[j] = task[j]
      /\ \A c \in Waiting : c \in Waiting'
  <2>1. /\ Active' = {j \in Active : j # k} \cup {k} /\ task'[k] = t
        /\ \A j \in Clients : j # k => task'[j] = task[j]
    BY <1>1, <1>2, <1>4, OneTask
  <2>2. \A c \in Waiting : c \in Waiting'
    BY <1>1, <1>2, <1>4, OneTask
  <2> QED BY <1>3, <2>1, <2>2
<1>6. \A j \in Active : j \in Clients /\ task'[j].codes = task[j].codes /\ task'[j].code = task[j].code
  BY <1>4, <1>5 DEF Active
<1>7. Kept' = Kept /\ InFile' = {}
  BY <1>1 DEF Kept, InFile
<1>8. PendingShape'
  <2>1. task' \in [Clients -> PendingTask]
    BY <1>1, <1>2, <1>4, OneTask
  <2>2. \A j \in Clients : task'[j] # Idle => task'[j].code \in printed
    BY <1>2, <1>3, <1>4, <1>5 DEF PendingShape
  <2>3. \A j \in Active' : task'[j].code \in task'[j].codes /\ task'[j].codes \subseteq printed
    BY <1>2, <1>5, <1>6 DEF PendingShape
  <2>4. /\ printed' \subseteq Codes /\ excused' \subseteq printed' /\ InFile' \subseteq printed'
        /\ file' \in {None, Torn} \cup SUBSET Codes
    BY <1>1, <1>2, <1>7 DEF PendingShape
  <2> QED BY <1>1, <2>1, <2>2, <2>3, <2>4 DEF PendingShape
<1>9. FileHeld' /\ SameHeld' /\ HeldInFile'
  BY <1>1, <1>5, <1>6, <1>7 DEF PendingInv, FileHeld, SameHeld, HeldInFile
<1>10. TornEmpty'
  BY <1>4, <1>5 DEF TornEmpty
<1>11. Somewhere'
  BY <1>3, <1>5, <1>6, <1>7 DEF PendingInv, Somewhere, FileHeld
<1> QED BY <1>8, <1>9, <1>10, <1>11 DEF PendingInv

\* What is written the others underway hold as well.
LEMMA WriteKept ==
    ASSUME PendingInv, table = "pending", UNCHANGED table, NEW k \in Clients, WritePending(k)
    PROVE  PendingInv'
<1>1. /\ task' = [task EXCEPT ![k] = Idle] /\ task[k].pc = "writing"
      /\ UNCHANGED <<printed, excused>>
      /\ \/ file' = task[k].codes
         \/ file' = Torn /\ \E j \in Clients \ {k} : task[j].pc = "writing"
  BY DEF WritePending
<1>2. PendingShape /\ Idle \in PendingTask /\ Idle.pc = "idle"
  BY DEF PendingInv, PendingTask, Idle
<1>3. k \in Active /\ task[k].codes \in SUBSET Codes
  BY <1>1, <1>2, ActiveTask DEF Active
<1>4. /\ Active' = Active \ {k} /\ task'[k] = Idle
      /\ \A j \in Clients : j # k => task'[j] = task[j]
      /\ \A c \in Waiting : c \in Waiting'
  <2>1. /\ Active' = {j \in Active : j # k} /\ task'[k] = Idle
        /\ \A j \in Clients : j # k => task'[j] = task[j]
    BY <1>1, <1>2, OneTask
  <2>2. \A c \in Waiting : c \in Waiting'
    BY <1>1, <1>2, OneTask
  <2> QED BY <2>1, <2>2
<1>5. \A j \in Active' : j \in Active /\ j \in Clients /\ task'[j] = task[j]
  BY <1>4 DEF Active
<1>6. Kept' = Kept
  BY <1>1 DEF Kept
<1>7. /\ file' = task[k].codes => InFile' = task[k].codes /\ file' # Torn
      /\ file' = Torn => InFile' = {}
  BY <1>3, RecordsAssumption DEF InFile
<1>8. PendingShape'
  <2>1. task' \in [Clients -> PendingTask]
    BY <1>1, <1>2, OneTask
  <2>2. \A j \in Clients : task'[j] # Idle => task'[j].code \in printed
    BY <1>2, <1>4 DEF PendingShape
  <2>3. InFile' \subseteq printed
    BY <1>1, <1>2, <1>3, <1>7 DEF PendingShape
  <2>4. file' \in {None, Torn} \cup SUBSET Codes
    <3>1. CASE file' = task[k].codes
      BY <1>3, <3>1
    <3>2. CASE file' = Torn
      BY <3>2
    <3> QED BY <1>1, <3>1, <3>2
  <2> QED BY <1>1, <1>2, <1>5, <2>1, <2>2, <2>3, <2>4 DEF PendingShape
<1>9. FileHeld' /\ SameHeld' /\ HeldInFile'
  BY <1>1, <1>3, <1>5, <1>6, <1>7 DEF PendingInv, FileHeld, SameHeld, HeldInFile
\* Of two that write at once, the other still holds it all.
<1>10. file' = Torn => \E j \in Active' : task'[j].pc = "writing" /\ task[j] = task'[j]
  BY <1>1, <1>3, <1>4, <1>7 DEF Active
<1>11. TornEmpty'
  BY <1>5, <1>10 DEF TornEmpty
<1>12. Somewhere'
  <2>1. ASSUME NEW c \in Kept, c \in InFile \/ c \in task[k].codes
        PROVE  c \in InFile' \/ \E j \in Active' : c \in task'[j].codes
    <3>1. c \in task[k].codes
      BY <1>3, <2>1 DEF PendingInv, FileHeld
    <3>2. \A j \in Active' : c \in task'[j].codes
      BY <1>3, <1>5, <3>1 DEF PendingInv, SameHeld
    <3> QED BY <1>1, <1>7, <1>10, <3>1, <3>2
  <2> QED BY <1>4, <1>6, <2>1 DEF PendingInv, Somewhere, Active
<1> QED BY <1>8, <1>9, <1>11, <1>12 DEF PendingInv

\* Who is killed while it writes may take all codes along, before only its own.
LEMMA KillKept ==
    ASSUME PendingInv, table = "pending", UNCHANGED table, NEW k \in Clients, Kill(k)
    PROVE  PendingInv'
<1> DEFINE own == task[k].code
<1>1. /\ task' = [task EXCEPT ![k] = Idle] /\ task[k] # Idle
      /\ UNCHANGED <<printed, file>>
      /\ excused' = excused \cup {own} \cup (IF task[k].pc = "writing" THEN printed ELSE {})
  BY DEF Kill
<1>2. PendingShape /\ Idle \in PendingTask /\ Idle.pc = "idle" /\ own \in printed
  BY <1>1 DEF PendingInv, PendingTask, Idle, PendingShape
<1>3. task[k].pc \in {"printed", "read", "writing"}
  BY <1>1, <1>2, ActiveTask
<1>4. /\ Active' = Active \ {k} /\ task'[k] = Idle
      /\ \A j \in Clients : j # k => task'[j] = task[j]
      /\ \A c \in Waiting : c \in Waiting' \/ c = own
  <2>1. /\ Active' = {j \in Active : j # k} /\ task'[k] = Idle
        /\ \A j \in Clients : j # k => task'[j] = task[j]
    BY <1>1, <1>2, OneTask
  <2>2. \A c \in Waiting : c \in Waiting' \/ c = own
    BY <1>1, <1>2, OneTask
  <2> QED BY <2>1, <2>2
<1>5. \A j \in Active' : j \in Active /\ j # k /\ j \in Clients /\ task'[j] = task[j]
  BY <1>4 DEF Active
<1>6. /\ Kept' \subseteq Kept /\ own \notin Kept' /\ InFile' = InFile
      /\ task[k].pc = "writing" => Kept' = {}
  BY <1>1 DEF Kept, InFile
<1>7. PendingShape'
  <2>1. task' \in [Clients -> PendingTask]
    BY <1>1, <1>2, OneTask
  <2>2. \A j \in Clients : task'[j] # Idle => task'[j].code \in printed
    BY <1>2, <1>4 DEF PendingShape
  <2> QED BY <1>1, <1>2, <1>5, <1>6, <2>1, <2>2 DEF PendingShape
<1>8. FileHeld' /\ SameHeld' /\ HeldInFile'
  BY <1>1, <1>5, <1>6 DEF PendingInv, FileHeld, SameHeld, HeldInFile
<1>9. TornEmpty'
  <2>1. ASSUME file = Torn, \A j \in Clients : task'[j].pc # "writing", NEW c \in Kept'
        PROVE  c \in Waiting'
    <3>1. \A j \in Clients : task[j].pc # "writing"
      BY <1>4, <1>6, <2>1
    <3> QED BY <1>4, <1>6, <2>1, <3>1 DEF PendingInv, TornEmpty
  <2> QED BY <1>1, <2>1 DEF TornEmpty
<1>10. Somewhere'
  <2> SUFFICES ASSUME NEW c \in Kept'
               PROVE  c \in InFile' \/ c \in Waiting' \/ \E j \in Active' : c \in task'[j].codes
    BY DEF Somewhere
  <2>1. c \in Kept /\ c # own /\ task[k].pc # "writing"
    BY <1>6
  <2>2. CASE c \in InFile \/ c \in Waiting
    BY <1>4, <1>6, <2>1, <2>2
  <2>3. ASSUME NEW j \in Active, j # k, c \in task[j].codes
        PROVE  \E i \in Active' : c \in task'[i].codes
    BY <1>4, <1>5, <2>3
  <2>4. CASE k \in Active /\ c \in task[k].codes
    <3>1. CASE file # Torn
      BY <1>6, <2>1, <2>4, <3>1 DEF PendingInv, HeldInFile
    <3>2. CASE file = Torn /\ \E j \in Clients : task[j].pc = "writing"
      <4>1. PICK j \in Active : task[j].pc = "writing"
        BY <3>2 DEF Active
      <4>2. j # k /\ c \in task[j].codes
        BY <2>1, <2>4, <4>1 DEF PendingInv, SameHeld
      <4> QED BY <2>3, <4>2
    <3>3. CASE file = Torn /\ \A j \in Clients : task[j].pc # "writing"
      BY <1>4, <2>1, <3>3 DEF PendingInv, TornEmpty
    <3> QED BY <3>1, <3>2, <3>3
  <2> QED BY <2>1, <2>2, <2>3, <2>4 DEF PendingInv, Somewhere
<1> QED BY <1>7, <1>8, <1>9, <1>10 DEF PendingInv

LEMMA PendingInductive == PendingInv /\ [RecordsNext]_recordsVars => PendingInv'
<1> SUFFICES ASSUME PendingInv, [RecordsNext]_recordsVars PROVE PendingInv'
  OBVIOUS
<1>1. CASE Pending
  BY <1>1, PrintKept, ReadKept, OpenKept, WriteKept, KillKept DEF Pending
<1>2. CASE UNCHANGED <<table, file, printed, excused, task>>
  BY <1>2 DEF PendingInv, PendingShape, FileHeld, SameHeld, HeldInFile, TornEmpty, Somewhere,
              Active, Kept, InFile, Waiting
<1>3. CASE table # "pending" /\ UNCHANGED <<table, printed>>
  BY <1>3 DEF PendingInv
<1> QED BY <1>1, <1>2, <1>3
        DEF RecordsNext, Tick, Store, Quotas, AuditLog, Usage, Invites, Crash, recordsVars, pending

(* A code somebody was shown is in the file or on its way into it, but for *)
(* those that a race, a kill or a torn file excuses: the exceptions named  *)
(* are all there are.                                                      *)
THEOREM CodesPending == RecordsSpec => []PrintedIsPending
<1>1. RecordsInit => PendingInv
  <2> SUFFICES ASSUME RecordsInit PROVE PendingInv
    OBVIOUS
  <2>1. /\ task = [k \in Clients |-> Idle] /\ file = None /\ printed = {} /\ excused = {}
        /\ Idle \in PendingTask /\ Idle.pc = "idle"
    BY DEF RecordsInit, PendingTask, Idle
  <2>2. \A k \in Clients : task[k] = Idle
    BY <2>1
  <2>3. Active = {} /\ InFile = {} /\ Kept = {}
    BY <2>1, <2>2 DEF Active, InFile, Kept
  <2>4. PendingShape
    BY <2>1, <2>2, <2>3 DEF PendingShape
  <2>5. FileHeld /\ SameHeld /\ HeldInFile /\ TornEmpty /\ Somewhere
    BY <2>1, <2>3 DEF FileHeld, SameHeld, HeldInFile, TornEmpty, Somewhere
  <2> QED BY <2>1, <2>4, <2>5 DEF PendingInv
<1>2. PendingInv => PrintedIsPending
  <2>1. CASE table = "pending"
    BY <2>1 DEF PendingInv, Somewhere, PrintedIsPending, Kept, InFile, Waiting, Active, Idle
  <2>2. CASE table # "pending"
    BY <2>2 DEF PendingInv, PrintedIsPending
  <2> QED BY <2>1, <2>2
<1> QED BY <1>1, <1>2, PendingInductive, PTL DEF RecordsSpec

-----------------------------------------------------------------------------
(***************************************************************************)
(* The usage tables.  What daily_stats lacks is kept count of by missing,  *)
(* so every step keeps the two books together by itself; the rows of a day *)
(* and tool are a finite set, which one insert enlarges by one and a       *)
(* clean-up makes smaller by what it counts.                               *)
(***************************************************************************)
UsageRow == [tool : Tools, at : Nat]
Figures == [requests : Int, limits : Int]

UsageInv ==
    /\ now \in Nat
    /\ usage \in [Places -> UsageRow \cup {None}]
    /\ daily \in [Sheets -> Figures]
    /\ missing \in [Sheets -> Int]
    /\ table = "usage" =>
          /\ task \in [Clients -> {task[k] : k \in Clients}]
          /\ \A k \in Clients : task[k].pc \in {"stamped", "inserted"} =>
                task[k].tool \in Tools /\ task[k].at \in Nat
    /\ DailyAgrees

LEMMA RowsFinite ==
    ASSUME NEW x
    PROVE  IsFiniteSet(RowsOf(x)) /\ Cardinality(RowsOf(x)) \in Nat
<1>1. IsFiniteSet(Places)
  <2>1. 1 \in Int /\ MaxRows \in Int
    BY RecordsAssumption
  <2> QED BY <2>1, FS_Interval DEF Places
<1>2. RowsOf(x) \in SUBSET Places
  BY DEF RowsOf
<1>3. IsFiniteSet(RowsOf(x))
  BY <1>1, <1>2, FS_Subset
<1> QED BY <1>3, FS_CardinalityType

LEMMA InsertKept ==
    ASSUME UsageInv, table = "usage", NEW k \in Clients, InsertUsage(k), UNCHANGED <<table, now>>
    PROVE  UsageInv'
<1> DEFINE r == [tool |-> task[k].tool, at |-> task[k].at]
           at == Sheet(task[k])
<1>1. PICK n \in Places : usage[n] = None /\ usage' = [usage EXCEPT ![n] = r]
  BY DEF InsertUsage
<1>2. /\ task[k].pc = "stamped" /\ daily' = daily
      /\ missing' = [missing EXCEPT ![at] = @ + 1]
      /\ task' = [task EXCEPT ![k].pc = "inserted"]
  BY DEF InsertUsage
<1>3. r \in UsageRow /\ task[k].tool \in Tools /\ task[k].at \in Nat
  BY <1>2 DEF UsageInv, UsageRow
<1>4. r # None
  BY <1>3, RecordsAssumption DEF UsageRow
<1>10. usage'[n] = r /\ \A m \in Places \ {n} : usage'[m] = usage[m]
  BY <1>1 DEF UsageInv
<1>11. r # None /\ Sheet(r) = at
  BY <1>4 DEF Sheet
<1>5. ASSUME NEW x \in Sheets
      PROVE  /\ missing'[x] \in Int
             /\ daily'[x].requests + missing'[x] = Cardinality(RowsOf(x)')
  <2>1. /\ daily[x].requests + missing[x] = Cardinality(RowsOf(x))
        /\ daily[x].requests \in Int /\ missing[x] \in Int
    BY DEF UsageInv, DailyAgrees, Figures
  <2>2. CASE x = at
    <3>1. RowsOf(x)' = RowsOf(x) \cup {n}
      BY <1>1, <1>10, <1>11, <2>2 DEF RowsOf
    <3>2. n \notin RowsOf(x)
      BY <1>1 DEF RowsOf
    <3>3. Cardinality(RowsOf(x)') = Cardinality(RowsOf(x)) + 1
      BY <3>1, <3>2, RowsFinite, FS_AddElement
    <3>4. missing'[x] = missing[x] + 1 /\ daily'[x] = daily[x]
      BY <1>2, <2>2 DEF UsageInv
    <3> QED BY <2>1, <3>3, <3>4, RowsFinite
  <2>3. CASE x # at
    <3>1. RowsOf(x)' = RowsOf(x)
      BY <1>1, <1>10, <1>11, <2>3 DEF RowsOf
    <3>2. missing'[x] = missing[x] /\ daily'[x] = daily[x]
      BY <1>2, <2>3 DEF UsageInv
    <3> QED BY <2>1, <3>1, <3>2
  <2> QED BY <2>2, <2>3
<1>6. usage' \in [Places -> UsageRow \cup {None}]
  BY <1>1, <1>3 DEF UsageInv
<1>7. missing' \in [Sheets -> Int]
  <2>0. PICK y : y = at
    OBVIOUS
  <2>1. missing \in [Sheets -> Int] /\ missing' = [missing EXCEPT ![y] = missing[y] + 1]
    BY <1>2, <2>0 DEF UsageInv
  <2>2. ASSUME y \in Sheets PROVE missing[y] + 1 \in Int
    BY <2>1, <2>2
  <2> QED BY <2>1, <2>2
<1>8. /\ task' \in [Clients -> {task'[j] : j \in Clients}]
      /\ \A j \in Clients : task'[j].pc \in {"stamped", "inserted"} =>
            task'[j].tool \in Tools /\ task'[j].at \in Nat
  BY <1>2, <1>3 DEF UsageInv
<1>9. DailyAgrees'
  BY <1>5 DEF DailyAgrees
<1> QED BY <1>2, <1>6, <1>7, <1>8, <1>9 DEF UsageInv

LEMMA DailyKept ==
    ASSUME UsageInv, table = "usage", NEW k \in Clients, InsertDaily(k), UNCHANGED <<table, now>>
    PROVE  UsageInv'
<1> DEFINE at == Sheet(task[k])
<1>1. /\ task[k].pc = "inserted" /\ usage' = usage
      /\ daily' = [daily EXCEPT ![at].requests = @ + 1]
      /\ missing' = [missing EXCEPT ![at] = @ - 1]
      /\ task' = [task EXCEPT ![k] = Idle]
  BY DEF InsertDaily, Counted
<1>2. daily' \in [Sheets -> Figures] /\ missing' \in [Sheets -> Int]
  <2>0. PICK y : y = at
    OBVIOUS
  <2>1. /\ daily \in [Sheets -> Figures] /\ daily' = [daily EXCEPT ![y].requests = @ + 1]
        /\ missing \in [Sheets -> Int] /\ missing' = [missing EXCEPT ![y] = missing[y] - 1]
    BY <1>1, <2>0 DEF UsageInv
  <2>5. ASSUME y \in Sheets PROVE missing[y] - 1 \in Int
    BY <2>1, <2>5
  <2>2. missing' \in [Sheets -> Int]
    BY <2>1, <2>5
  <2>3. \A f \in Figures : [f EXCEPT !.requests = @ + 1] \in Figures
    BY DEF Figures
  <2>4. daily' \in [Sheets -> Figures]
    BY <2>1, <2>3
  <2> QED BY <2>2, <2>4
<1>3. ASSUME NEW x \in Sheets
      PROVE  daily'[x].requests + missing'[x] = Cardinality(RowsOf(x)')
  <2>1. /\ daily[x].requests + missing[x] = Cardinality(RowsOf(x))
        /\ daily[x] \in Figures /\ missing[x] \in Int
    BY DEF UsageInv, DailyAgrees
  <2>2. RowsOf(x)' = RowsOf(x)
    BY <1>1 DEF RowsOf
  <2>3. CASE x = at
    <3>1. daily'[x] = [daily[x] EXCEPT !.requests = @ + 1] /\ missing'[x] = missing[x] - 1
      BY <1>1, <2>3 DEF UsageInv
    <3>2. daily'[x].requests = daily[x].requests + 1 /\ daily[x].requests \in Int
      BY <2>1, <3>1 DEF Figures
    <3> QED BY <2>1, <2>2, <3>1, <3>2
  <2>4. CASE x # at
    <3>1. daily'[x] = daily[x] /\ missing'[x] = missing[x]
      BY <1>1, <2>4 DEF UsageInv
    <3> QED BY <2>1, <2>2, <3>1
  <2> QED BY <2>3, <2>4
<1>4. /\ task' \in [Clients -> {task'[j] : j \in Clients}]
      /\ \A j \in Clients : task'[j].pc \in {"stamped", "inserted"} =>
            task'[j].tool \in Tools /\ task'[j].at \in Nat
  BY <1>1 DEF UsageInv, Idle
<1> QED BY <1>1, <1>2, <1>3, <1>4 DEF UsageInv, DailyAgrees

LEMMA CleanupKept ==
    ASSUME UsageInv, table = "usage", NEW days \in 0..1, CleanupOldRecords(days), UNCHANGED <<table, now>>
    PROVE  UsageInv'
<1> DEFINE old(n) == usage[n] # None /\ usage[n].at < now - days * Day
           lost(x) == {n \in RowsOf(x) : old(n)}
<1>1. /\ usage' = [n \in Places |-> IF old(n) THEN None ELSE usage[n]]
      /\ missing' = [x \in Sheets |-> missing[x] - Cardinality(lost(x))]
      /\ daily' = daily /\ task' = task
  BY DEF CleanupOldRecords
<1>2. ASSUME NEW x \in Sheets
      PROVE  /\ Cardinality(lost(x)) \in Nat
             /\ Cardinality(RowsOf(x)') = Cardinality(RowsOf(x)) - Cardinality(lost(x))
  <2> DEFINE R == RowsOf(x)
             L == lost(x)
             R2 == RowsOf(x)'
  <2>1. IsFiniteSet(R) /\ Cardinality(R) \in Nat
    BY RowsFinite
  <2>2. L \in SUBSET R
    OBVIOUS
  <2>3. R2 = R \ L
    BY <1>1 DEF RowsOf
  <2>4. R \cap L = L
    BY <2>2
  <2> HIDE DEF R, L, R2
  <2>5. IsFiniteSet(L)
    BY <2>1, <2>2, FS_Subset
  <2>6. Cardinality(L) \in Nat
    BY <2>5, FS_CardinalityType
  <2>7. Cardinality(R \ L) = Cardinality(R) - Cardinality(R \cap L)
    BY <2>1, FS_Difference
  <2>8. Cardinality(R2) = Cardinality(R) - Cardinality(L)
    BY <2>3, <2>4, <2>7
  <2> QED BY <2>6, <2>8 DEF R, L, R2
<1>3. ASSUME NEW x \in Sheets
      PROVE  missing'[x] = missing[x] - Cardinality(lost(x))
  BY <1>1
<1>4. missing' \in [Sheets -> Int]
  <2>1. ASSUME NEW x \in Sheets PROVE missing'[x] \in Int
    <3>1. missing[x] \in Int
      BY DEF UsageInv
    <3> HIDE DEF lost
    <3> QED BY <1>2, <1>3, <3>1
  <2>2. missing' = [x \in Sheets |-> missing'[x]]
    BY <1>1
  <2> QED BY <2>1, <2>2
<1>5. ASSUME NEW x \in Sheets
      PROVE  daily'[x].requests + missing'[x] = Cardinality(RowsOf(x)')
  <2>1. /\ daily[x].requests + missing[x] = Cardinality(RowsOf(x))
        /\ daily[x].requests \in Int /\ missing[x] \in Int
    BY DEF UsageInv, DailyAgrees, Figures
  <2>2. Cardinality(lost(x)) \in Nat /\ Cardinality(RowsOf(x)) \in Nat /\ daily' = daily
        /\ missing'[x] = missing[x] - Cardinality(lost(x))
        /\ Cardinality(RowsOf(x)') = Cardinality(RowsOf(x)) - Cardinality(lost(x))
    BY <1>1, <1>2, <1>3, RowsFinite
  <2> HIDE DEF lost
  <2> QED BY <2>1, <2>2
<1>6. usage' \in [Places -> UsageRow \cup {None}]
  BY <1>1 DEF UsageInv
<1> QED BY <1>1, <1>4, <1>5, <1>6 DEF UsageInv, DailyAgrees

(* The two books of the tracker agree, whenever a day ends, an insert      *)
(* fails, a clean-up runs or the server is killed.                         *)
THEOREM BooksAgree == RecordsSpec => []DailyAgrees
<1>1. RecordsInit => UsageInv
  <2> SUFFICES ASSUME RecordsInit PROVE UsageInv
    OBVIOUS
  <2>1. /\ now = 0 /\ usage = [n \in Places |-> None]
        /\ daily = [x \in Sheets |-> [requests |-> 0, limits |-> 0]]
        /\ missing = [x \in Sheets |-> 0]
        /\ task = [k \in Clients |-> Idle]
    BY DEF RecordsInit
  <2>2. daily \in [Sheets -> Figures] /\ missing \in [Sheets -> Int]
    BY <2>1 DEF Figures
  <2>3. ASSUME NEW x \in Sheets
        PROVE  daily[x].requests + missing[x] = Cardinality(RowsOf(x))
    <3>1. RowsOf(x) = {}
      BY <2>1 DEF RowsOf
    <3>2. daily[x].requests = 0 /\ missing[x] = 0
      BY <2>1
    <3> QED BY <3>1, <3>2, FS_EmptySet
  <2> QED BY <2>1, <2>2, <2>3 DEF UsageInv, DailyAgrees, Idle
<1>2. UsageInv /\ [RecordsNext]_recordsVars => UsageInv'
  <2> SUFFICES ASSUME UsageInv, [RecordsNext]_recordsVars PROVE UsageInv'
    OBVIOUS
  <2>1. CASE UNCHANGED <<table, now, usage, daily, missing, task>>
    BY <2>1 DEF UsageInv, DailyAgrees, RowsOf
  <2>2. CASE /\ UNCHANGED <<table, usage, daily, missing, task>> /\ now' = now + 1
    BY <2>2 DEF UsageInv, DailyAgrees, RowsOf
  <2>3. CASE table # "usage" /\ UNCHANGED <<table, now, usage, daily, missing>>
    BY <2>3 DEF UsageInv, DailyAgrees, RowsOf
  <2>4. CASE Crash
    BY <2>4 DEF Crash, stats, UsageInv, DailyAgrees, RowsOf, Idle
  <2>5. CASE Usage
    <3>1. table = "usage" /\ UNCHANGED <<table, now>>
      BY <2>5 DEF Usage
    <3>2. ASSUME NEW k \in Clients, Stamp(k) PROVE UsageInv'
      <4>1. PICK t \in Tools : task' = [task EXCEPT ![k] = [pc |-> "stamped", tool |-> t, at |-> now]]
        BY <3>2 DEF Stamp
      <4>2. UNCHANGED <<usage, daily, missing>>
        BY <3>2 DEF Stamp, stats
      <4> QED BY <3>1, <4>1, <4>2 DEF UsageInv, DailyAgrees, RowsOf
    <3>3. ASSUME NEW k \in Clients, InsertFails(k) PROVE UsageInv'
      BY <3>1, <3>3 DEF InsertFails, stats, UsageInv, DailyAgrees, RowsOf, Idle
    <3>4. ASSUME NEW t \in Tools, RecordRateLimit(t) PROVE UsageInv'
      <4>1. /\ daily' = [daily EXCEPT ![<<DayOf(now), t>>].limits = @ + 1]
            /\ UNCHANGED <<usage, missing, task>>
        BY <3>4 DEF RecordRateLimit
      <4> DEFINE at == <<DayOf(now), t>>
      <4>0. daily \in [Sheets -> Figures] /\ daily' = [daily EXCEPT ![at].limits = @ + 1]
        BY <4>1 DEF UsageInv
      <4> HIDE DEF at
      <4>2. /\ \A f \in Figures : [f EXCEPT !.limits = @ + 1] \in Figures
            /\ \A f \in Figures : [f EXCEPT !.limits = @ + 1].requests = f.requests
        BY DEF Figures
      <4>3. daily' \in [Sheets -> Figures]
        BY <4>0, <4>2
      <4>4. \A x \in Sheets : daily'[x].requests = daily[x].requests
        BY <4>0, <4>2
      <4>5. DailyAgrees'
        BY <4>1, <4>4 DEF UsageInv, DailyAgrees, RowsOf
      <4> QED BY <3>1, <4>1, <4>3, <4>5 DEF UsageInv
    <3> QED BY <2>5, <3>1, <3>2, <3>3, <3>4, InsertKept, DailyKept, CleanupKept DEF Usage
  <2> QED BY <2>1, <2>2, <2>3, <2>4, <2>5
          DEF RecordsNext, Tick, Store, Quotas, AuditLog, Invites, Pending, recordsVars, stats
<1>3. UsageInv => DailyAgrees
  BY DEF UsageInv
<1> QED BY <1>1, <1>2, <1>3, PTL DEF RecordsSpec

-----------------------------------------------------------------------------
(***************************************************************************)
(* The audit log.  The place of an entry in the answer is the number of    *)
(* those before it.  Entries are only added, so it only ever grows: one    *)
(* that an offset has passed was seen before it did.                       *)
(***************************************************************************)
Place == [i \in DOMAIN audit |-> Cardinality(Newer(i))]

PageInv ==
    /\ table # "audit_log" => reader = Idle
    /\ audit \in Seq({audit[i] : i \in DOMAIN audit})
    /\ reader.pc = "reading" =>
          /\ reader = [pc |-> "reading", offset |-> reader.offset, seen |-> reader.seen, due |-> reader.due]
          /\ reader.offset \in Nat /\ reader.due \subseteq DOMAIN audit
          /\ \A i \in reader.due : Place[i] < reader.offset => i \in reader.seen
    /\ PagesCover

LEMMA PlaceType ==
    ASSUME NEW n \in Nat, DOMAIN audit = 1..n, NEW i
    PROVE  /\ IsFiniteSet(Newer(i))
           /\ Cardinality(Newer(i)) \in Nat /\ Cardinality(Newer(i)) <= n
<1>1. IsFiniteSet(1..n) /\ Cardinality(1..n) = n
  <2>1. 1 \in Int /\ n \in Int /\ n >= 0
    OBVIOUS
  <2>2. IsFiniteSet(1..n) /\ Cardinality(1..n) = IF 1 > n THEN 0 ELSE n - 1 + 1
    BY <2>1, FS_Interval
  <2> QED BY <2>1, <2>2
<1>2. Newer(i) \in SUBSET (1..n)
  BY DEF Newer
<1>3. IsFiniteSet(Newer(i)) /\ Cardinality(Newer(i)) <= Cardinality(1..n)
  BY <1>1, <1>2, FS_Subset
<1> QED BY <1>1, <1>3, FS_CardinalityType

LEMMA LogKept ==
    ASSUME PageInv, NEW k \in Clients, LogAudit(k), UNCHANGED table
    PROVE  PageInv'
<1>1. audit' = Append(audit, task[k].at) /\ reader' = reader /\ table' = table
  BY DEF LogAudit
<1>2. audit \in Seq({audit[i] : i \in DOMAIN audit})
  BY DEF PageInv
<1>3. /\ Len(audit) \in Nat /\ DOMAIN audit = 1..Len(audit)
      /\ DOMAIN audit' = 1..(Len(audit) + 1) /\ Len(audit') = Len(audit) + 1
      /\ \A i \in DOMAIN audit : audit'[i] = audit[i]
  BY <1>1, <1>2
<1>4. audit' \in Seq({audit'[i] : i \in DOMAIN audit'})
  <2> DEFINE S == {audit'[i] : i \in DOMAIN audit'}
  <2>1. {audit[i] : i \in DOMAIN audit} \subseteq S
    BY <1>3
  <2>2. task[k].at \in S
    <3>1. audit'[Len(audit) + 1] = task[k].at
      BY <1>1, <1>2
    <3> QED BY <1>3, <3>1
  <2>3. audit \in Seq(S)
    <3>1. \A i \in 1..Len(audit) : audit[i] \in S
      BY <1>3, <2>1
    <3> HIDE DEF S
    <3> QED BY <1>2, <1>3, <3>1
  <2> HIDE DEF S
  <2>4. audit' \in Seq(S)
    BY <1>1, <2>2, <2>3
  <2> QED BY <2>4 DEF S
<1>5. ASSUME NEW i \in DOMAIN audit
      PROVE  Place[i] \in Nat /\ Place'[i] \in Nat /\ Place[i] <= Place'[i]
  <2> DEFINE B == {j \in DOMAIN audit' : audit'[j] > audit'[i] \/ (audit'[j] = audit'[i] /\ j > i)}
  <2>1. Place[i] = Cardinality(Newer(i)) /\ Place'[i] = Cardinality(B)
    <3>1. Place' = [x \in DOMAIN audit' |->
             Cardinality({j \in DOMAIN audit' : audit'[j] > audit'[x] \/ (audit'[j] = audit'[x] /\ j > x)})]
      BY Zenon DEF Place, Newer
    <3>2. i \in DOMAIN audit'
      BY <1>3
    <3>3. Place'[i] = Cardinality(B)
      BY <3>1, <3>2, Zenon
    <3>4. Place[i] = Cardinality(Newer(i))
      BY DEF Place
    <3> QED BY <3>3, <3>4
  <2>2. Newer(i) \in SUBSET B
    BY <1>3 DEF Newer
  <2>3. IsFiniteSet(B)
    <3>1. IsFiniteSet(1..(Len(audit) + 1))
      <4>1. 1 \in Int /\ Len(audit) + 1 \in Int
        BY <1>3
      <4> QED BY <4>1, FS_Interval
    <3>2. B \in SUBSET (1..(Len(audit) + 1))
      BY <1>3
    <3> HIDE DEF B
    <3> QED BY <3>1, <3>2, FS_Subset
  <2> HIDE DEF B
  <2>4. Cardinality(Newer(i)) <= Cardinality(B) /\ Cardinality(B) \in Nat
    BY <2>2, <2>3, FS_Subset, FS_CardinalityType
  <2>5. Cardinality(Newer(i)) \in Nat
    BY <1>3, PlaceType
  <2> QED BY <2>1, <2>4, <2>5
<1>6. ASSUME reader.pc = "reading", NEW i \in reader.due, Place'[i] < reader.offset
      PROVE  i \in reader.seen
  <2>1. i \in DOMAIN audit /\ reader.offset \in Nat
    BY <1>6 DEF PageInv
  <2>2. Place[i] < reader.offset
    BY <1>5, <1>6, <2>1
  <2> QED BY <1>6, <2>2 DEF PageInv
<1>7. reader.pc = "reading" => reader.due \subseteq DOMAIN audit'
  BY <1>3 DEF PageInv
<1> QED BY <1>1, <1>4, <1>6, <1>7 DEF PageInv, PagesCover

LEMMA PageKept ==
    ASSUME PageInv, GetAuditLogs, UNCHANGED table
    PROVE  PageInv'
<1>0. PICK off, last, page :
         off = reader.offset /\ last = (off + Limit > Len(audit)) /\ page = Page(off)
  OBVIOUS
<1>1. /\ reader.pc = "reading" /\ audit' = audit /\ table' = table
      /\ reader' = [reader EXCEPT !.seen = reader.seen \cup page, !.offset = off + Limit,
                                  !.pc = IF last THEN "read" ELSE "reading"]
  BY <1>0 DEF GetAuditLogs
<1>2. /\ reader = [pc |-> "reading", offset |-> off, seen |-> reader.seen, due |-> reader.due]
      /\ off \in Nat /\ Limit \in Nat /\ Len(audit) \in Nat
      /\ DOMAIN audit = 1..Len(audit) /\ reader.due \subseteq DOMAIN audit
  BY <1>0, <1>1, RecordsAssumption DEF PageInv
<1>3. /\ reader'.pc = IF last THEN "read" ELSE "reading"
      /\ reader'.offset = off + Limit /\ off + Limit \in Nat
      /\ reader'.seen = reader.seen \cup page /\ reader'.due = reader.due
      /\ reader' = [pc |-> reader'.pc, offset |-> reader'.offset, seen |-> reader'.seen,
                    due |-> reader'.due]
  <2>1. PICK pc : pc = IF last THEN "read" ELSE "reading"
    OBVIOUS
  <2>2. reader' = [reader EXCEPT !.seen = reader.seen \cup page, !.offset = off + Limit, !.pc = pc]
    BY <1>1, <2>1
  <2>3. reader' = [pc |-> pc, offset |-> off + Limit, seen |-> reader.seen \cup page, due |-> reader.due]
    BY <1>2, <2>2
  <2>4. off + Limit \in Nat
    BY <1>2
  <2> QED BY <2>1, <2>3, <2>4
<1>4. ASSUME NEW i \in reader.due, Place[i] < off + Limit
      PROVE  i \in reader.seen \cup page
  <2>1. i \in DOMAIN audit /\ Place[i] = Cardinality(Newer(i)) /\ Place[i] \in Nat
    BY <1>2, PlaceType DEF Place
  <2>2. CASE Place[i] < off
    BY <1>0, <1>1, <2>2 DEF PageInv
  <2>3. CASE ~(Place[i] < off)
    <3>1. Place[i] \in off..(off + Limit - 1)
      BY <1>2, <1>4, <2>1, <2>3
    <3> QED BY <1>0, <2>1, <3>1 DEF Page
  <2> QED BY <2>2, <2>3
<1>5. ASSUME last PROVE reader.due \subseteq reader.seen \cup page
  <2> SUFFICES ASSUME NEW i \in reader.due PROVE i \in reader.seen \cup page
    OBVIOUS
  <2>1. Place[i] = Cardinality(Newer(i)) /\ Place[i] \in Nat /\ Place[i] <= Len(audit)
    BY <1>2, PlaceType DEF Place
  <2>2. off + Limit > Len(audit)
    BY <1>0, <1>5, Zenon
  <2>3. Place[i] < off + Limit
    BY <1>2, <2>1, <2>2
  <2> QED BY <1>4, <2>3
<1>6. Place' = Place
  BY <1>1 DEF Place, Newer
<1>7. reader'.pc = "read" => reader'.due \subseteq reader'.seen
  BY <1>3, <1>5
<1>8. \A i \in reader'.due : Place'[i] < reader'.offset => i \in reader'.seen
  BY <1>3, <1>4, <1>6
<1>9. table # "audit_log" => FALSE
  BY <1>1 DEF PageInv, Idle
<1>10. PagesCover'
  BY <1>7 DEF PagesCover
<1>11. audit' \in Seq({audit'[i] : i \in DOMAIN audit'})
  BY <1>1 DEF PageInv
<1>12. reader'.offset \in Nat /\ reader'.due \subseteq DOMAIN audit'
  BY <1>1, <1>2, <1>3
<1>13. reader'.pc = "reading" => reader' = [pc |-> "reading", offset |-> reader'.offset,
                                           seen |-> reader'.seen, due |-> reader'.due]
  BY <1>3
<1> QED BY <1>1, <1>8, <1>9, <1>10, <1>11, <1>12, <1>13 DEF PageInv

(* A reader that has come to the end has seen every entry that was there   *)
(* when it began, for any size of a page and whatever comes in between.    *)
THEOREM AuditIsCovered == RecordsSpec => []PagesCover
<1>1. RecordsInit => PageInv
  <2> SUFFICES ASSUME RecordsInit PROVE PageInv
    OBVIOUS
  <2>1. audit = <<>> /\ reader = Idle
    BY DEF RecordsInit
  <2>2. <<>> \in Seq({audit[i] : i \in DOMAIN audit})
    OBVIOUS
  <2> QED BY <2>1, <2>2 DEF PageInv, PagesCover, Idle
<1>2. PageInv /\ [RecordsNext]_recordsVars => PageInv'
  <2> SUFFICES ASSUME PageInv, [RecordsNext]_recordsVars PROVE PageInv'
    OBVIOUS
  <2>1. CASE UNCHANGED <<table, log>>
    BY <2>1 DEF log, PageInv, PagesCover, Place, Newer
  <2>2. CASE Crash
    BY <2>2 DEF Crash, PageInv, PagesCover, Place, Newer, Idle
  <2>3. CASE AuditLog
    <3>1. table = "audit_log" /\ UNCHANGED table
      BY <2>3 DEF AuditLog
    <3>2. CASE StartReading
      <4>1. /\ reader' = [pc |-> "reading", offset |-> 0, seen |-> {}, due |-> DOMAIN audit]
            /\ audit' = audit
        BY <3>2 DEF StartReading
      <4>2. Place' = Place
        BY <4>1 DEF Place, Newer
      <4>3. \A i \in DOMAIN audit : Place[i] \in Nat
        <5>1. Len(audit) \in Nat /\ DOMAIN audit = 1..Len(audit)
          BY DEF PageInv
        <5> QED BY <5>1, PlaceType DEF Place
      <4> QED BY <3>1, <4>1, <4>2, <4>3 DEF PageInv, PagesCover
    <3>3. ASSUME NEW k \in Clients, MakeEntry(k) PROVE PageInv'
      BY <3>1, <3>3 DEF MakeEntry, log, PageInv, PagesCover, Place, Newer
    <3> QED BY <2>3, <3>1, <3>2, <3>3, LogKept, PageKept DEF AuditLog
  <2> QED BY <2>1, <2>2, <2>3
          DEF RecordsNext, Tick, Store, Quotas, Usage, Invites, Pending, recordsVars
<1>3. PageInv => PagesCover
  BY DEF PageInv
<1> QED BY <1>1, <1>2, <1>3, PTL DEF RecordsSpec

-----------------------------------------------------------------------------
LEMMA LeastExists ==
    ASSUME NEW T, T \subseteq Nat, T # {}
    PROVE  \E m \in T : \A n \in T : m <= n
<1>1. PICK m \in T : \A n \in T : ~(<<n, m>> \in OpToRel(<, Nat))
  <2>1. \E m \in T : \A n \in T : ~(<<n, m>> \in OpToRel(<, Nat))
    BY NatLessThanWellFounded, WFMin
  <2> QED BY <2>1
<1>2. \A n \in T : ~(n < m)
  <2> TAKE n \in T
  <2>1. n \in Nat /\ m \in Nat
    OBVIOUS
  <2>2. <<n, m>> \in Nat \X Nat
    BY <2>1
  <2> QED BY <1>1, <2>1, <2>2 DEF OpToRel
<1>3. \A n \in T : m <= n
  BY <1>2
<1> QED BY <1>3

(***************************************************************************)
(* The tables of storage.rs.  Each keeps, of what a save promised, what a  *)
(* lookup needs: a session the earlier of two expiries, a cached response  *)
(* the last one, a key its tool, a webhook the count of its failures.      *)
(***************************************************************************)
StoredRow == [value : Tools \cup {None}, until : Nat, made : Nat, active : BOOLEAN, count : Nat]
Debts == [until : Nat, value : Tools \cup {None}, failed : Nat]

StoreTypes ==
    /\ now \in 0..MaxTime
    /\ rows \in [Ids -> StoredRow \cup {None}] /\ owed \in [Ids -> Debts]
    /\ \A i \in Ids : rows[i] # None => rows[i].made <= now

SessionsDue ==
    \A i \in Ids : now < owed[i].until => rows[i] # None /\ owed[i].until <= rows[i].until
KeysDue ==
    \A i \in Ids : now < owed[i].until =>
        rows[i] # None /\ rows[i].active = TRUE /\ rows[i].value = owed[i].value
ResponsesDue ==
    \A i \in Ids : now < owed[i].until =>
        rows[i] # None /\ rows[i].until = owed[i].until /\ rows[i].value = owed[i].value
WebhooksDue ==
    \A i \in Ids :
        /\ rows[i] # None => rows[i].count = owed[i].failed
        /\ rows[i] = None => owed[i].failed = 0
        /\ now < owed[i].until => rows[i] # None /\ rows[i].active = TRUE

StoreInv ==
    /\ StoreTypes
    /\ table = "sessions" => SessionsDue
    /\ table = "api_keys" => KeysDue
    /\ table = "cache" => ResponsesDue
    /\ table = "webhooks" => WebhooksDue
    /\ table \notin Stored => \A i \in Ids : owed[i].until = 0

LEMMA MomentsType ==
    /\ MaxTime \in Nat /\ Forever \in Nat /\ MaxTime < Forever
    /\ \A t \in Moments : t \in Nat
    /\ None \notin StoredRow
  BY RecordsAssumption DEF Forever, Moments, StoredRow

LEMMA RowMade ==
    ASSUME now \in Nat, NEW value \in Tools \cup {None}, NEW until \in Nat, NEW active \in BOOLEAN
    PROVE  /\ Row(value, until, active) \in StoredRow /\ Row(value, until, active) # None
           /\ Row(value, until, active).value = value /\ Row(value, until, active).until = until
           /\ Row(value, until, active).made = now /\ Row(value, until, active).active = active
           /\ Row(value, until, active).count = 0
<1>1. Row(value, until, active) \in StoredRow
  BY DEF Row, StoredRow
<1> QED BY <1>1, MomentsType DEF Row

\* What writing one row comes to.
LEMMA PutTypes ==
    ASSUME StoreTypes, UNCHANGED now, NEW i \in Ids, NEW row, NEW debt, Put(i, row, debt),
           row \in StoredRow \cup {None}, debt \in Debts, row # None => row.made <= now
    PROVE  /\ StoreTypes'
           /\ rows'[i] = row /\ owed'[i] = debt
           /\ \A j \in Ids \ {i} : rows'[j] = rows[j] /\ owed'[j] = owed[j]
  BY DEF StoreTypes, Put

LEMMA DebtMade ==
    /\ NoDebt \in Debts /\ NoDebt.until = 0 /\ NoDebt.failed = 0
    /\ \A until \in Nat, value \in Tools \cup {None} :
          /\ Debt(until, value) \in Debts /\ Debt(until, value).until = until
          /\ Debt(until, value).value = value /\ Debt(until, value).failed = 0
  BY DEF NoDebt, Debt, Debts

LEMMA CleanupTypes ==
    ASSUME StoreTypes, UNCHANGED now, CleanupExpired
    PROVE  /\ StoreTypes' /\ owed' = owed
           /\ \A i \in Ids : rows'[i] = rows[i] \/ (rows'[i] = None /\ rows[i] # None /\ rows[i].until <= now)
<1>1. rows' = [i \in Ids |-> IF Expired(i) THEN None ELSE rows[i]] /\ owed' = owed
  BY DEF CleanupExpired
<1> QED BY <1>1 DEF StoreTypes, Expired

LEMMA SessionsKept ==
    ASSUME StoreTypes, SessionsDue, UNCHANGED now,
           CleanupExpired \/ \E i \in Ids : SaveSession(i) \/ DeleteSession(i)
    PROVE  StoreTypes' /\ SessionsDue'
<1>0. now \in Nat
  BY DEF StoreTypes
<1>1. CASE CleanupExpired
  <2>1. ASSUME NEW i \in Ids, now < owed[i].until PROVE rows'[i] = rows[i]
    <3>1. rows[i] # None /\ owed[i].until <= rows[i].until
      BY <2>1 DEF SessionsDue
    <3>2. rows[i] \in StoredRow /\ owed[i] \in Debts
      BY <3>1 DEF StoreTypes
    <3>3. rows[i].until \in Nat /\ owed[i].until \in Nat
      BY <3>2 DEF StoredRow, Debts
    <3> QED BY <1>0, <1>1, <2>1, <3>1, <3>3, CleanupTypes
  <2> QED BY <1>1, <2>1, CleanupTypes DEF SessionsDue
<1>2. ASSUME NEW i \in Ids, DeleteSession(i) PROVE StoreTypes' /\ SessionsDue'
  <2>1. Put(i, None, NoDebt)
    BY <1>2 DEF DeleteSession
  <2>2. /\ StoreTypes' /\ rows'[i] = None /\ owed'[i] = NoDebt
        /\ \A j \in Ids \ {i} : rows'[j] = rows[j] /\ owed'[j] = owed[j]
    BY <2>1, DebtMade, PutTypes
  <2>3. ~(now < owed'[i].until)
    BY <1>0, <2>2, DebtMade
  <2> QED BY <2>2, <2>3 DEF SessionsDue
<1>3. ASSUME NEW i \in Ids, SaveSession(i) PROVE StoreTypes' /\ SessionsDue'
  <2>1. PICK tool \in Tools, until \in Moments :
          IF rows[i] = None
          THEN Put(i, Row(tool, until, TRUE), Debt(until, tool))
          ELSE Put(i, [rows[i] EXCEPT !.value = tool], Debt(Least(until, rows[i].until), tool))
    BY <1>3 DEF SaveSession
  <2>0. until \in Nat
    BY MomentsType
  <2>2. PICK row, debt : /\ Put(i, row, debt) /\ row \in StoredRow /\ debt \in Debts
                         /\ debt.until <= row.until /\ row.made <= now
    <3>1. CASE rows[i] = None
      <4> DEFINE row == Row(tool, until, TRUE)
                 debt == Debt(until, tool)
      <4>1. row \in StoredRow /\ row.until = until /\ row.made = now
        BY <1>0, <2>0, RowMade
      <4>2. debt \in Debts /\ debt.until = until
        BY <2>0, DebtMade
      <4>3. Put(i, row, debt)
        BY <2>1, <3>1
      <4> HIDE DEF row, debt
      <4> QED BY <1>0, <2>0, <4>1, <4>2, <4>3
    <3>2. CASE rows[i] # None
      <4> DEFINE row == [rows[i] EXCEPT !.value = tool]
                 debt == Debt(Least(until, rows[i].until), tool)
      <4>1. rows[i] \in StoredRow /\ rows[i].made <= now
        BY <3>2 DEF StoreTypes
      <4>2. row \in StoredRow /\ row.until = rows[i].until /\ row.made = rows[i].made /\ rows[i].until \in Nat
        BY <4>1 DEF StoredRow
      <4>3. Least(until, rows[i].until) \in Nat /\ Least(until, rows[i].until) <= rows[i].until
        BY <2>0, <4>2 DEF Least
      <4>4. debt \in Debts /\ debt.until = Least(until, rows[i].until)
        BY <4>3, DebtMade
      <4>5. Put(i, row, debt)
        BY <2>1, <3>2
      <4> HIDE DEF row, debt
      <4> QED BY <4>1, <4>2, <4>3, <4>4, <4>5
    <3> QED BY <3>1, <3>2
  <2>3. /\ StoreTypes' /\ rows'[i] = row /\ owed'[i] = debt
        /\ \A j \in Ids \ {i} : rows'[j] = rows[j] /\ owed'[j] = owed[j]
    BY <2>2, PutTypes
  <2>4. row # None
    BY <2>2, MomentsType
  <2> QED BY <2>2, <2>3, <2>4 DEF SessionsDue
<1> QED BY <1>1, <1>2, <1>3

LEMMA KeysKept ==
    ASSUME StoreTypes, KeysDue, UNCHANGED now,
           \E i \in Ids : SaveApiKey(i) \/ DeactivateApiKey(i)
    PROVE  StoreTypes' /\ KeysDue'
<1>0. now \in Nat /\ Forever \in Nat
  BY MomentsType DEF StoreTypes
<1>1. ASSUME NEW i \in Ids, DeactivateApiKey(i) PROVE StoreTypes' /\ KeysDue'
  <2> DEFINE row == [rows[i] EXCEPT !.active = FALSE]
  <2>1. Put(i, row, NoDebt) /\ rows[i] # None
    BY <1>1 DEF DeactivateApiKey
  <2>2. rows[i] \in StoredRow /\ rows[i].made <= now
    BY <2>1 DEF StoreTypes
  <2>3. row \in StoredRow /\ row.made = rows[i].made
    BY <2>2 DEF StoredRow
  <2> HIDE DEF row
  <2>4. /\ StoreTypes' /\ rows'[i] = row /\ owed'[i] = NoDebt
        /\ \A j \in Ids \ {i} : rows'[j] = rows[j] /\ owed'[j] = owed[j]
    BY <2>1, <2>2, <2>3, DebtMade, PutTypes
  <2>5. ~(now < owed'[i].until)
    BY <1>0, <2>4, DebtMade
  <2> QED BY <2>4, <2>5 DEF KeysDue
<1>2. ASSUME NEW i \in Ids, SaveApiKey(i) PROVE StoreTypes' /\ KeysDue'
  <2>1. PICK tool \in Tools, active \in BOOLEAN :
          Put(i, IF rows[i] # None THEN [rows[i] EXCEPT !.active = active] ELSE Row(tool, Forever, active),
                 IF active /\ (rows[i] # None => rows[i].value = tool) THEN Debt(Forever, tool) ELSE NoDebt)
    BY <1>2 DEF SaveApiKey
  <2>2. PICK row, debt :
           /\ row = IF rows[i] # None THEN [rows[i] EXCEPT !.active = active] ELSE Row(tool, Forever, active)
           /\ debt = IF active /\ (rows[i] # None => rows[i].value = tool)
                     THEN Debt(Forever, tool) ELSE NoDebt
           /\ Put(i, row, debt)
    BY <2>1
  <2>3. /\ row \in StoredRow /\ row.made <= now /\ row.active = active
        /\ (rows[i] # None => rows[i].value = tool) => row.value = tool
    <3>1. CASE rows[i] = None
      <4>1. row = Row(tool, Forever, active)
        BY <2>2, <3>1
      <4> QED BY <1>0, <4>1, RowMade
    <3>2. CASE rows[i] # None
      <4>1. row = [rows[i] EXCEPT !.active = active]
        BY <2>2, <3>2
      <4>2. rows[i] \in StoredRow /\ rows[i].made <= now
        BY <3>2 DEF StoreTypes
      <4> QED BY <3>2, <4>1, <4>2 DEF StoredRow
    <3> QED BY <3>1, <3>2
  <2>4. /\ debt \in Debts
        /\ \/ debt.until = 0
           \/ active /\ (rows[i] # None => rows[i].value = tool) /\ debt.value = tool
    <3>1. CASE active /\ (rows[i] # None => rows[i].value = tool)
      <4>1. debt = Debt(Forever, tool)
        BY <2>2, <3>1
      <4> QED BY <1>0, <3>1, <4>1, DebtMade
    <3>2. CASE ~(active /\ (rows[i] # None => rows[i].value = tool))
      <4>1. debt = NoDebt
        BY <2>2, <3>2
      <4> QED BY <4>1, DebtMade
    <3> QED BY <3>1, <3>2
  <2>5. /\ StoreTypes' /\ rows'[i] = row /\ owed'[i] = debt
        /\ \A j \in Ids \ {i} : rows'[j] = rows[j] /\ owed'[j] = owed[j]
    BY <2>2, <2>3, <2>4, PutTypes
  <2>6. now < owed'[i].until =>
           rows'[i] # None /\ rows'[i].active = TRUE /\ rows'[i].value = owed'[i].value
    <3>1. row # None
      BY <2>3, MomentsType
    <3> QED BY <1>0, <2>3, <2>4, <2>5, <3>1
  <2> QED BY <2>5, <2>6 DEF KeysDue
<1> QED BY <1>1, <1>2

LEMMA ResponsesKept ==
    ASSUME StoreTypes, ResponsesDue, UNCHANGED now,
           CleanupExpired \/ \E i \in Ids : SaveCachedResponse(i) \/ GetCachedResponse(i)
    PROVE  StoreTypes' /\ ResponsesDue'
<1>0. now \in Nat
  BY DEF StoreTypes
<1>1. CASE CleanupExpired
  <2>1. ASSUME NEW i \in Ids, now < owed[i].until PROVE rows'[i] = rows[i]
    <3>1. rows[i] # None /\ owed[i].until = rows[i].until
      BY <2>1 DEF ResponsesDue
    <3>2. rows[i] \in StoredRow
      BY <3>1 DEF StoreTypes
    <3>3. rows[i].until \in Nat
      BY <3>2 DEF StoredRow
    <3> QED BY <1>0, <1>1, <2>1, <3>1, <3>3, CleanupTypes
  <2> QED BY <1>1, <2>1, CleanupTypes DEF ResponsesDue
<1>2. ASSUME NEW i \in Ids, GetCachedResponse(i) PROVE StoreTypes' /\ ResponsesDue'
  <2>1. /\ rows' = [rows EXCEPT ![i].count = @ + 1] /\ owed' = owed
        /\ rows[i] # None
    BY <1>2, Zenon DEF GetCachedResponse, Cached
  <2>2. rows[i] \in StoredRow /\ rows \in [Ids -> StoredRow \cup {None}]
    BY <2>1 DEF StoreTypes
  <2>3. PICK row : row = [rows[i] EXCEPT !.count = @ + 1]
    OBVIOUS
  <2>4. row \in StoredRow /\ row.until = rows[i].until /\ row.value = rows[i].value /\ row.made = rows[i].made
    BY <2>2, <2>3 DEF StoredRow
  <2>5. rows' = [rows EXCEPT ![i] = row]
    BY <2>1, <2>3
  <2>6. row # None
    BY <2>4, MomentsType
  <2> QED BY <2>1, <2>2, <2>4, <2>5, <2>6 DEF StoreTypes, ResponsesDue
<1>3. ASSUME NEW i \in Ids, SaveCachedResponse(i) PROVE StoreTypes' /\ ResponsesDue'
  <2>1. PICK response \in Tools, until \in Moments :
          Put(i, IF rows[i] = None THEN Row(response, until, TRUE)
                 ELSE [rows[i] EXCEPT !.value = response, !.until = until, !.count = 0],
              Debt(until, response))
    BY <1>3 DEF SaveCachedResponse
  <2>0. until \in Nat
    BY MomentsType
  <2>2. PICK row, debt :
           /\ row = IF rows[i] = None THEN Row(response, until, TRUE)
                    ELSE [rows[i] EXCEPT !.value = response, !.until = until, !.count = 0]
           /\ debt = Debt(until, response)
           /\ Put(i, row, debt)
    BY <2>1
  <2>3. row \in StoredRow /\ row.made <= now /\ row.until = until /\ row.value = response
    <3>1. CASE rows[i] = None
      <4>1. row = Row(response, until, TRUE)
        BY <2>2, <3>1
      <4>2. response \in Tools \cup {None} /\ TRUE \in BOOLEAN
        OBVIOUS
      <4>4. /\ Row(response, until, TRUE) \in StoredRow /\ Row(response, until, TRUE).made = now
            /\ Row(response, until, TRUE).until = until /\ Row(response, until, TRUE).value = response
        BY <1>0, <2>0, <4>2, RowMade
      <4>3. row \in StoredRow /\ row.made = now /\ row.until = until /\ row.value = response
        BY <4>1, <4>4, Zenon
      <4> QED BY <1>0, <4>3
    <3>2. CASE rows[i] # None
      <4>1. row = [rows[i] EXCEPT !.value = response, !.until = until, !.count = 0]
        BY <2>2, <3>2
      <4>2. rows[i] \in StoredRow /\ rows[i].made <= now
        BY <3>2 DEF StoreTypes
      <4> QED BY <2>0, <4>1, <4>2 DEF StoredRow
    <3> QED BY <3>1, <3>2
  <2>4. debt \in Debts /\ debt.until = until /\ debt.value = response
    BY <2>0, <2>2, DebtMade
  <2>7. Put(i, row, debt) /\ row \in StoredRow \cup {None} /\ (row # None => row.made <= now)
    BY <2>2, <2>3
  <2>5. /\ StoreTypes' /\ rows'[i] = row /\ owed'[i] = debt
        /\ \A j \in Ids \ {i} : rows'[j] = rows[j] /\ owed'[j] = owed[j]
    BY <2>4, <2>7, PutTypes
  <2>6. row # None
    BY <2>3, MomentsType
  <2> QED BY <2>3, <2>4, <2>5, <2>6 DEF ResponsesDue
<1> QED BY <1>1, <1>2, <1>3

LEMMA WebhooksKept ==
    ASSUME StoreTypes, WebhooksDue, UNCHANGED now,
           DisableFailingWebhooks \/ \E i \in Ids : SaveWebhook(i) \/ UpdateWebhookStatus(i)
    PROVE  StoreTypes' /\ WebhooksDue'
<1>0. now \in Nat /\ Forever \in Nat
  BY MomentsType DEF StoreTypes
<1>1. CASE DisableFailingWebhooks
  <2>1. /\ rows' = [i \in Ids |-> IF rows[i] # None /\ rows[i].count >= MaxFailures
                                  THEN [rows[i] EXCEPT !.active = FALSE] ELSE rows[i]]
        /\ owed' = [i \in Ids |-> IF owed[i].failed >= MaxFailures
                                  THEN [owed[i] EXCEPT !.until = 0] ELSE owed[i]]
    BY <1>1 DEF DisableFailingWebhooks
  <2>2. ASSUME NEW i \in Ids
        PROVE  /\ rows'[i] \in StoredRow \cup {None} /\ owed'[i] \in Debts
               /\ rows'[i] # None => rows'[i].made <= now /\ rows'[i].count = owed'[i].failed
               /\ rows'[i] = None => owed'[i].failed = 0
               /\ now < owed'[i].until => rows'[i] # None /\ rows'[i].active = TRUE
    <3>1. owed[i] \in Debts /\ [owed[i] EXCEPT !.until = 0] \in Debts
          /\ [owed[i] EXCEPT !.until = 0].failed = owed[i].failed
          /\ [owed[i] EXCEPT !.until = 0].until = 0
      BY DEF StoreTypes, Debts
    <3>2. owed'[i] \in Debts /\ owed'[i].failed = owed[i].failed
          /\ owed'[i].until = IF owed[i].failed >= MaxFailures THEN 0 ELSE owed[i].until
      BY <2>1, <3>1
    <3>3. CASE rows[i] = None
      <4>1. rows'[i] = None
        BY <2>1, <3>3
      <4>2. owed[i].failed = 0 /\ ~(now < owed[i].until)
        BY <3>3 DEF WebhooksDue
      <4> QED BY <1>0, <3>2, <4>1, <4>2
    <3>4. CASE rows[i] # None
      <4>1. rows[i] \in StoredRow /\ rows[i].made <= now
        BY <3>4 DEF StoreTypes
      <4>2. /\ [rows[i] EXCEPT !.active = FALSE] \in StoredRow
            /\ [rows[i] EXCEPT !.active = FALSE].made = rows[i].made
            /\ [rows[i] EXCEPT !.active = FALSE].count = rows[i].count
        BY <4>1 DEF StoredRow
      <4>3. rows'[i] = IF rows[i].count >= MaxFailures THEN [rows[i] EXCEPT !.active = FALSE] ELSE rows[i]
        BY <2>1, <3>4
      <4>4. rows'[i] \in StoredRow /\ rows'[i].made = rows[i].made /\ rows'[i].count = rows[i].count
        BY <4>1, <4>2, <4>3
      <4>5. rows[i].count = owed[i].failed /\ (now < owed[i].until => rows[i].active = TRUE)
        BY <3>4 DEF WebhooksDue
      <4>6. rows'[i] # None
        BY <4>4, MomentsType
      <4>7. CASE owed[i].failed >= MaxFailures
        BY <1>0, <3>2, <4>1, <4>4, <4>5, <4>6, <4>7
      <4>8. CASE ~(owed[i].failed >= MaxFailures)
        BY <3>2, <4>1, <4>3, <4>4, <4>5, <4>6, <4>8
      <4> QED BY <4>7, <4>8
    <3> QED BY <3>3, <3>4
  <2>3. rows' \in [Ids -> StoredRow \cup {None}] /\ owed' \in [Ids -> Debts]
    BY <2>1, <2>2
  <2> QED BY <2>2, <2>3 DEF StoreTypes, WebhooksDue
<1>2. ASSUME NEW i \in Ids, SaveWebhook(i) PROVE StoreTypes' /\ WebhooksDue'
  <2>1. PICK active \in BOOLEAN :
          Put(i, IF rows[i] = None THEN Row(None, Forever, active)
                 ELSE [rows[i] EXCEPT !.active = active],
              [until |-> IF active THEN Forever ELSE 0, value |-> None, failed |-> owed[i].failed])
    BY <1>2 DEF SaveWebhook
  <2>2. PICK row, until, debt :
           /\ row = IF rows[i] = None THEN Row(None, Forever, active)
                    ELSE [rows[i] EXCEPT !.active = active]
           /\ until = IF active THEN Forever ELSE 0
           /\ debt = [until |-> until, value |-> None, failed |-> owed[i].failed]
           /\ Put(i, row, debt)
    BY <2>1
  <2>3. /\ row \in StoredRow /\ row.made <= now /\ row.active = active
        /\ row.count = owed[i].failed
    <3>1. CASE rows[i] = None
      <4>1. row = Row(None, Forever, active) /\ owed[i].failed = 0
        BY <2>2, <3>1 DEF WebhooksDue
      <4>2. None \in Tools \cup {None}
        OBVIOUS
      <4>3. /\ Row(None, Forever, active) \in StoredRow /\ Row(None, Forever, active).made = now
            /\ Row(None, Forever, active).active = active /\ Row(None, Forever, active).count = 0
        BY <1>0, <4>2, RowMade
      <4> QED BY <1>0, <4>1, <4>3
    <3>2. CASE rows[i] # None
      <4>1. row = [rows[i] EXCEPT !.active = active] /\ rows[i].count = owed[i].failed
        BY <2>2, <3>2 DEF WebhooksDue
      <4>2. rows[i] \in StoredRow /\ rows[i].made <= now
        BY <3>2 DEF StoreTypes
      <4> QED BY <4>1, <4>2 DEF StoredRow
    <3> QED BY <3>1, <3>2
  <2>4. /\ debt \in Debts /\ debt.failed = owed[i].failed
        /\ debt.until = 0 \/ active
    <3>1. until \in Nat /\ (until = 0 \/ active)
      BY <1>0, <2>2
    <3>2. owed[i].failed \in Nat
      BY DEF StoreTypes, Debts
    <3> QED BY <2>2, <3>1, <3>2 DEF Debts
  <2>7. Put(i, row, debt) /\ row \in StoredRow \cup {None} /\ (row # None => row.made <= now)
    BY <2>2, <2>3
  <2>5. /\ StoreTypes' /\ rows'[i] = row /\ owed'[i] = debt
        /\ \A j \in Ids \ {i} : rows'[j] = rows[j] /\ owed'[j] = owed[j]
    BY <2>4, <2>7, PutTypes
  <2>6. row # None
    BY <2>3, MomentsType
  <2>8. now < debt.until => row.active = TRUE
    BY <1>0, <2>3, <2>4
  <2> QED BY <2>3, <2>4, <2>5, <2>6, <2>8 DEF WebhooksDue
<1>3. ASSUME NEW i \in Ids, UpdateWebhookStatus(i) PROVE StoreTypes' /\ WebhooksDue'
  <2>1. PICK n \in Nat : /\ rows[i] # None
                         /\ rows' = [rows EXCEPT ![i].count = n]
                         /\ owed' = [owed EXCEPT ![i].failed = n]
    <3>1. rows[i] # None /\ rows[i] \in StoredRow /\ rows[i].count = owed[i].failed
      BY <1>3 DEF UpdateWebhookStatus, StoreTypes, WebhooksDue
    <3>2. CASE rows' = [rows EXCEPT ![i].count = 0] /\ owed' = [owed EXCEPT ![i].failed = 0]
      BY <3>1, <3>2
    <3>3. CASE rows' = [rows EXCEPT ![i].count = @ + 1] /\ owed' = [owed EXCEPT ![i].failed = @ + 1]
      <4>1. PICK n : n = rows[i].count + 1
        OBVIOUS
      <4>2. n \in Nat /\ n = owed[i].failed + 1
        BY <3>1, <4>1 DEF StoredRow
      <4> QED BY <3>1, <3>3, <4>1, <4>2
    <3> QED BY <1>3, <3>2, <3>3 DEF UpdateWebhookStatus
  <2>2. PICK row, debt : row = [rows[i] EXCEPT !.count = n] /\ debt = [owed[i] EXCEPT !.failed = n]
    OBVIOUS
  <2>3. rows[i] \in StoredRow /\ owed[i] \in Debts /\ rows[i].made <= now
    BY <2>1 DEF StoreTypes
  <2>4. /\ row \in StoredRow /\ row.made = rows[i].made /\ row.count = n /\ row.active = rows[i].active
        /\ debt \in Debts /\ debt.failed = n /\ debt.until = owed[i].until
    BY <2>2, <2>3 DEF StoredRow, Debts
  <2>5. Put(i, row, debt)
    BY <2>1, <2>2 DEF Put
  <2>6. row \in StoredRow \cup {None} /\ (row # None => row.made <= now)
    BY <2>3, <2>4
  <2>7. /\ StoreTypes' /\ rows'[i] = row /\ owed'[i] = debt
        /\ \A j \in Ids \ {i} : rows'[j] = rows[j] /\ owed'[j] = owed[j]
    BY <2>4, <2>5, <2>6, PutTypes
  <2>8. row # None
    BY <2>4, MomentsType
  <2>9. now < owed[i].until => rows[i].active = TRUE
    BY DEF WebhooksDue
  <2> QED BY <2>4, <2>7, <2>8, <2>9 DEF WebhooksDue
<1> QED BY <1>1, <1>2, <1>3

\* Of the keys of a tool one was made last.
LEMMA KeyFound ==
    ASSUME StoreTypes, NEW tool, NEW i \in Ids, rows[i] # None, rows[i].value = tool, rows[i].active = TRUE
    PROVE  ApiKeys(tool) # {}
<1> DEFINE ofTool == {j \in Ids : rows[j] # None /\ rows[j].value = tool /\ rows[j].active}
           Ages == {now - rows[j].made : j \in ofTool}
<1>1. i \in ofTool
  OBVIOUS
<1>2. \A j \in ofTool : rows[j].made \in Nat /\ rows[j].made <= now /\ now \in Nat
  <2> SUFFICES ASSUME NEW j \in ofTool PROVE rows[j].made \in Nat /\ rows[j].made <= now /\ now \in Nat
    OBVIOUS
  <2>1. rows[j] \in StoredRow /\ rows[j].made <= now /\ now \in Nat
    BY DEF StoreTypes
  <2> QED BY <2>1 DEF StoredRow
<1>3. ApiKeys(tool) = {j \in ofTool : \A k \in ofTool : rows[k].made <= rows[j].made}
  BY DEF ApiKeys
<1> HIDE DEF ofTool
<1>4. Ages \subseteq Nat /\ Ages # {}
  BY <1>1, <1>2
<1>5. PICK m \in Ages : \A n \in Ages : m <= n
  BY <1>4, LeastExists
<1>6. PICK j \in ofTool : m = now - rows[j].made
  OBVIOUS
<1>7. ASSUME NEW k \in ofTool PROVE rows[k].made <= rows[j].made
  <2>1. now - rows[k].made \in Ages
    OBVIOUS
  <2>2. now - rows[j].made <= now - rows[k].made
    BY <1>5, <1>6, <2>1
  <2> HIDE DEF Ages
  <2> QED BY <1>2, <2>2
<1> QED BY <1>3, <1>7

(* What was saved is found, as long as it was saved for.                   *)
THEOREM SavedFound == RecordsSpec => []SavedIsFound
<1>1. RecordsInit => StoreInv
  <2> SUFFICES ASSUME RecordsInit PROVE StoreInv
    OBVIOUS
  <2>1. now = 0 /\ rows = [i \in Ids |-> None] /\ owed = [i \in Ids |-> NoDebt]
    BY DEF RecordsInit
  <2>2. MaxTime \in Nat
    BY MomentsType
  <2> QED BY <2>1, <2>2, DebtMade
          DEF StoreInv, StoreTypes, SessionsDue, KeysDue, ResponsesDue, WebhooksDue
<1>2. StoreInv /\ [RecordsNext]_recordsVars => StoreInv'
  <2> SUFFICES ASSUME StoreInv, [RecordsNext]_recordsVars PROVE StoreInv'
    OBVIOUS
  <2>1. CASE UNCHANGED <<table, now, rows, owed>>
    BY <2>1 DEF StoreInv, StoreTypes, SessionsDue, KeysDue, ResponsesDue, WebhooksDue
  <2>2. CASE Tick
    <3>1. /\ now \in 0..MaxTime /\ now < MaxTime /\ now' = now + 1
          /\ UNCHANGED <<table, rows, owed>>
      BY <2>2 DEF Tick, store, StoreInv, StoreTypes
    <3>2. now' \in 0..MaxTime
      BY <3>1, MomentsType
    <3>3. ASSUME NEW i \in Ids
          PROVE  /\ owed[i].until \in Nat /\ (now' < owed[i].until => now < owed[i].until)
                 /\ rows[i] # None => rows[i].made <= now'
      <4>1. owed[i] \in Debts /\ (rows[i] # None => rows[i] \in StoredRow /\ rows[i].made <= now)
        BY DEF StoreInv, StoreTypes
      <4>2. owed[i].until \in Nat /\ (rows[i] # None => rows[i].made \in Nat)
        BY <4>1 DEF StoredRow, Debts
      <4> QED BY <3>1, <4>1, <4>2
    <3>4. StoreTypes'
      BY <3>1, <3>2, <3>3 DEF StoreInv, StoreTypes
    <3>5. /\ SessionsDue => SessionsDue'
          /\ KeysDue => KeysDue'
          /\ ResponsesDue => ResponsesDue'
          /\ WebhooksDue => WebhooksDue'
      BY <3>1, <3>3 DEF SessionsDue, KeysDue, ResponsesDue, WebhooksDue
    <3> QED BY <3>1, <3>4, <3>5 DEF StoreInv
  <2>3. CASE Store
    <3>1. UNCHANGED <<table, now>>
      BY <2>3 DEF Store
    <3>2. CASE Sessions
      <4>1. table = "sessions" /\ StoreTypes /\ SessionsDue
        BY <3>2 DEF Sessions, StoreInv
      <4>2. StoreTypes' /\ SessionsDue'
        BY <3>1, <3>2, <4>1, SessionsKept DEF Sessions
      <4> QED BY <3>1, <4>1, <4>2 DEF StoreInv, Stored
    <3>3. CASE ApiKeyTable
      <4>1. table = "api_keys" /\ StoreTypes /\ KeysDue
        BY <3>3 DEF ApiKeyTable, StoreInv
      <4>2. StoreTypes' /\ KeysDue'
        BY <3>1, <3>3, <4>1, KeysKept DEF ApiKeyTable
      <4> QED BY <3>1, <4>1, <4>2 DEF StoreInv, Stored
    <3>4. CASE Cache
      <4>1. table = "cache" /\ StoreTypes /\ ResponsesDue
        BY <3>4 DEF Cache, StoreInv
      <4>2. StoreTypes' /\ ResponsesDue'
        BY <3>1, <3>4, <4>1, ResponsesKept DEF Cache
      <4> QED BY <3>1, <4>1, <4>2 DEF StoreInv, Stored
    <3>5. CASE Webhooks
      <4>1. table = "webhooks" /\ StoreTypes /\ WebhooksDue
        BY <3>5 DEF Webhooks, StoreInv
      <4>2. StoreTypes' /\ WebhooksDue'
        BY <3>1, <3>5, <4>1, WebhooksKept DEF Webhooks
      <4> QED BY <3>1, <4>1, <4>2 DEF StoreInv, Stored
    <3> QED BY <2>3, <3>2, <3>3, <3>4, <3>5 DEF Store
  <2> QED BY <2>1, <2>2, <2>3
          DEF RecordsNext, Quotas, AuditLog, Usage, Invites, Pending, Crash, store, recordsVars
<1>3. StoreInv => SavedIsFound
  <2> SUFFICES ASSUME StoreInv, NEW i \in Ids, now < owed[i].until
               PROVE  /\ table = "sessions" => rows[i] # None
                      /\ table = "api_keys" => ApiKeys(owed[i].value) # {}
                      /\ table = "cache" => Cached(i) # None /\ Cached(i).value = owed[i].value
                      /\ table = "webhooks" => i \in ActiveWebhooks
                      /\ table \in Stored
    BY DEF SavedIsFound, Stored
  <2>0. now \in Nat /\ StoreTypes
    BY DEF StoreInv, StoreTypes
  <2>1. table \in Stored
    BY <2>0 DEF StoreInv
  <2>2. table = "sessions" => rows[i] # None
    BY DEF StoreInv, SessionsDue
  <2>3. ASSUME table = "api_keys" PROVE ApiKeys(owed[i].value) # {}
    <3>1. rows[i] # None /\ rows[i].active = TRUE /\ rows[i].value = owed[i].value
      BY <2>3 DEF StoreInv, KeysDue
    <3> QED BY <2>0, <3>1, KeyFound
  <2>4. ASSUME table = "cache" PROVE Cached(i) # None /\ Cached(i).value = owed[i].value
    <3>1. rows[i] # None /\ rows[i].until = owed[i].until /\ rows[i].value = owed[i].value
      BY <2>4 DEF StoreInv, ResponsesDue
    <3>2. rows[i] \in StoredRow
      BY <2>0, <3>1 DEF StoreTypes
    <3>3. rows[i].until \in Nat
      BY <3>2 DEF StoredRow
    <3>4. ~Expired(i)
      BY <2>0, <3>1, <3>3 DEF Expired
    <3> QED BY <3>1, <3>4 DEF Cached
  <2>5. table = "webhooks" => i \in ActiveWebhooks
    BY DEF StoreInv, WebhooksDue, ActiveWebhooks
  <2> QED BY <2>1, <2>2, <2>3, <2>4, <2>5
<1> QED BY <1>1, <1>2, <1>3, PTL DEF RecordsSpec
=============================================================================
