--------------------------- MODULE SplitDNSProofs ---------------------------
(***************************************************************************)
(* Proofs about SplitDNS, for any number of queries, questions and servers  *)
(* and any capacity of the cache.  What concerns the cache is proved of       *)
(* sequences of entries first, operation by operation; the handlers then      *)
(* only have to hand each question its own response.  Told, what the servers  *)
(* have answered so far, only grows; every response in the cache or in hand   *)
(* is one of it.                                                            *)
(***************************************************************************)
EXTENDS SplitDNS, LoopTheorems, SequenceTheorems

-----------------------------------------------------------------------------
(* What the invariants rest on.                                            *)

OneEntryEach(c) == \A i, j \in 1 .. Len(c) : c[i].key = c[j].key => i = j

\* What the servers have said first to a query that is past them.
Past(q) == pc[q] \in {"store", "routes", "reply", "done"}

Told ==
  {t \in {NameAndType(question) : question \in Questions} \X Rcodes :
     \E p \in Queries, n \in 1 .. Upstreams :
       /\ Past(p)
       /\ t[1] = NameAndType(asked[p])
       /\ heard[p] = Append(Failed(n - 1), t[2])}

Pair(response) == <<NameAndType(response.question), response.rcode>>

\* A response is filed under the name and type of the question it answers, for the
\* time it may be kept, and is what a server has said.
Filed(e) == /\ e.key = CacheKey(e.response.question)
            /\ e.ttl = KeepFor[e.records] /\ e.ttl > 0
            /\ Pair(e.response) \in Told

CacheOK(c) == /\ c \in Seq(Entry)
              /\ OneEntryEach(c)
              /\ \A i \in 1 .. Len(c) : Filed(c[i])

\* The servers before the one in turn have failed for a query that waits.
FailedInTurn ==
  \A q \in Queries :
    pc[q] \in {"idle", "lookup", "forward"} => heard[q] = Failed(server[q] - 1)

\* After the lookup or the servers there is a response to a question of the query's
\* name and type in hand, one that a server has given, or the error after all
\* servers have failed.
OwnAnswer(q) ==
  answer[q] \in Responses /\ NameAndType(answer[q].question) = NameAndType(asked[q])

AnswerInHand ==
  \A q \in Queries :
    /\ pc[q] \in {"store", "routes"} => OwnAnswer(q) /\ Pair(answer[q]) \in Told
    /\ pc[q] \in {"reply", "done"} =>
         /\ OwnAnswer(q)
         /\ \/ Pair(answer[q]) \in Told
            \/ answer[q].rcode = "servfail" /\ heard[q] = Failed(Upstreams)

\* What handle works with, all of TypeOK but the cache.
HandlerTypes ==
  /\ pc \in [Queries -> {"idle", "lookup", "forward", "store", "routes",
                         "reply", "done"}]
  /\ asked \in [Queries -> Questions]
  /\ server \in [Queries -> 1 .. Upstreams + 1]
  /\ answer \in [Queries -> Responses \cup {NoAnswer}]
  /\ records \in [Queries -> SUBSET Messages]
  /\ todo \in [Queries -> SUBSET Addresses]
  /\ heard \in [Queries -> Seq(Rcodes \cup {"failed"})]
  /\ offered \in SUBSET Addresses

CacheInv == CacheOK(cache) /\ Len(cache) <= CacheSize

\* What is to be stored may be kept.
MayBeKept ==
  \A q \in Queries : pc[q] = "store" => \A msg \in records[q] : KeepFor[msg] > 0

Inv == HandlerTypes /\ CacheInv /\ FailedInTurn /\ AnswerInHand /\ MayBeKept

-----------------------------------------------------------------------------
(* Sequences of entries.                                                    *)

\* Removing an element moves those behind it forward by one.
LEMMA RemoveAtFacts ==
  ASSUME NEW S, NEW s \in Seq(S), NEW i \in 1 .. Len(s)
  PROVE  /\ RemoveAt(s, i) \in Seq(S)
         /\ Len(RemoveAt(s, i)) = Len(s) - 1
         /\ \A j \in 1 .. Len(s) - 1 :
              RemoveAt(s, i)[j] = IF j < i THEN s[j] ELSE s[j + 1]
<1> DEFINE front == SubSeq(s, 1, i - 1)
           back  == SubSeq(s, i + 1, Len(s))
<1>1. /\ Len(s) \in Nat /\ i \in Nat /\ 1 <= i /\ i <= Len(s)
      /\ \A j \in 1 .. Len(s) : s[j] \in S
  BY LenProperties, ElementOfSeq
<1>2. /\ front \in Seq(S) /\ Len(front) = i - 1
      /\ \A j \in 1 .. i - 1 : front[j] = s[j]
  <2>1. \A j \in 1 .. i - 1 : s[j] \in S
    BY <1>1
  <2>2. /\ SubSeq(s, 1, i - 1) \in Seq(S)
        /\ Len(SubSeq(s, 1, i - 1)) = IF 1 <= i - 1 THEN (i - 1) - 1 + 1 ELSE 0
        /\ \A j \in 1 .. (i - 1) - 1 + 1 : SubSeq(s, 1, i - 1)[j] = s[1 + j - 1]
    BY <1>1, <2>1, SubSeqProperties
  <2> QED BY <1>1, <2>2
<1>3. /\ back \in Seq(S) /\ Len(back) = Len(s) - i
      /\ \A j \in 1 .. Len(s) - i : back[j] = s[i + j]
  <2>1. \A j \in i + 1 .. Len(s) : s[j] \in S
    BY <1>1
  <2>2. /\ SubSeq(s, i + 1, Len(s)) \in Seq(S)
        /\ Len(SubSeq(s, i + 1, Len(s)))
             = IF i + 1 <= Len(s) THEN Len(s) - (i + 1) + 1 ELSE 0
        /\ \A j \in 1 .. Len(s) - (i + 1) + 1 :
             SubSeq(s, i + 1, Len(s))[j] = s[(i + 1) + j - 1]
    BY <1>1, <2>1, SubSeqProperties
  <2> QED BY <1>1, <2>2
<1>4. RemoveAt(s, i) = front \o back
  BY DEF RemoveAt
<1> HIDE DEF front, back
<1>5. /\ front \o back \in Seq(S)
      /\ Len(front \o back) = Len(front) + Len(back)
      /\ \A j \in 1 .. Len(front) + Len(back) :
           (front \o back)[j] = IF j <= Len(front) THEN front[j] ELSE back[j - Len(front)]
  BY <1>2, <1>3, ConcatProperties
<1> QED BY <1>1, <1>2, <1>3, <1>4, <1>5

\* Without one of its entries a cache has no other with that key.
LEMMA RemoveOK ==
  ASSUME NEW c, CacheOK(c), NEW i \in 1 .. Len(c)
  PROVE  /\ CacheOK(RemoveAt(c, i))
         /\ Len(RemoveAt(c, i)) = Len(c) - 1
         /\ \A j \in 1 .. Len(c) - 1 : RemoveAt(c, i)[j].key # c[i].key
<1> DEFINE d == RemoveAt(c, i)
<1>1. c \in Seq(Entry) /\ Len(c) \in Nat /\ i \in Nat
  BY LenProperties DEF CacheOK
<1>2. /\ d \in Seq(Entry) /\ Len(d) = Len(c) - 1
      /\ \A j \in 1 .. Len(c) - 1 : d[j] = IF j < i THEN c[j] ELSE c[j + 1]
  BY <1>1, RemoveAtFacts
<1> HIDE DEF d
<1>3. \A j \in 1 .. Len(d) : Filed(d[j])
  BY <1>1, <1>2 DEF CacheOK
<1>4. OneEntryEach(d)
  <2> SUFFICES ASSUME NEW j \in 1 .. Len(d), NEW k \in 1 .. Len(d), d[j].key = d[k].key
               PROVE  j = k
    BY DEF OneEntryEach
  <2>1. \A m, n \in 1 .. Len(c) : c[m].key = c[n].key => m = n
    BY DEF CacheOK, OneEntryEach
  <2>2. PICK m \in 1 .. Len(c) : m = IF j < i THEN j ELSE j + 1
    BY <1>1, <1>2
  <2>3. PICK n \in 1 .. Len(c) : n = IF k < i THEN k ELSE k + 1
    BY <1>1, <1>2
  <2>4. d[j] = c[m] /\ d[k] = c[n]
    BY <1>2, <2>2, <2>3
  <2>5. m = n
    BY <2>1, <2>4
  <2> QED BY <1>1, <1>2, <2>2, <2>3, <2>5
<1>5. \A j \in 1 .. Len(c) - 1 : d[j].key # c[i].key
  BY <1>1, <1>2 DEF CacheOK, OneEntryEach
<1> QED BY <1>2, <1>3, <1>4, <1>5 DEF CacheOK, d

\* An entry with a new key can be appended.
LEMMA AppendOK ==
  ASSUME NEW c, CacheOK(c), NEW e \in Entry, Filed(e),
         \A j \in 1 .. Len(c) : c[j].key # e.key
  PROVE  CacheOK(Append(c, e)) /\ Len(Append(c, e)) = Len(c) + 1
<1>1. c \in Seq(Entry) /\ Len(c) \in Nat
  BY LenProperties DEF CacheOK
<1>2. /\ Append(c, e) \in Seq(Entry) /\ Len(Append(c, e)) = Len(c) + 1
      /\ \A j \in 1 .. Len(c) + 1 : Append(c, e)[j] = IF j <= Len(c) THEN c[j] ELSE e
  BY <1>1
<1>3. OneEntryEach(Append(c, e))
  BY <1>1, <1>2 DEF CacheOK, OneEntryEach
<1> QED BY <1>1, <1>2, <1>3 DEF CacheOK

\* The oldest entry can be dropped.
LEMMA TailOK ==
  ASSUME NEW c, CacheOK(c), c # <<>>
  PROVE  CacheOK(Tail(c)) /\ Len(Tail(c)) = Len(c) - 1
<1>1. c \in Seq(Entry) /\ Len(c) \in Nat
  BY LenProperties DEF CacheOK
<1>2. /\ Tail(c) \in Seq(Entry) /\ Len(Tail(c)) = Len(c) - 1
      /\ \A j \in 1 .. Len(Tail(c)) : Tail(c)[j] = c[j + 1]
  BY <1>1, HeadTailProperties
<1>3. OneEntryEach(Tail(c))
  BY <1>1, <1>2 DEF CacheOK, OneEntryEach
<1> QED BY <1>1, <1>2, <1>3 DEF CacheOK

-----------------------------------------------------------------------------
(* The operations of the cache.                                             *)

\* A hit reorders the entries.
LEMMA TouchedOK ==
  ASSUME CacheInv, NEW i \in 1 .. Len(cache)
  PROVE  CacheOK(Touched(i)) /\ Len(Touched(i)) <= CacheSize
<1>1. cache \in Seq(Entry) /\ Len(cache) \in Nat /\ cache[i] \in Entry /\ Filed(cache[i])
  BY LenProperties, ElementOfSeq DEF CacheInv, CacheOK
<1> DEFINE d == RemoveAt(cache, i)
<1>2. /\ CacheOK(d) /\ Len(d) = Len(cache) - 1
      /\ \A j \in 1 .. Len(d) : d[j].key # cache[i].key
  BY RemoveOK DEF CacheInv
<1> HIDE DEF d
<1>3. CacheOK(Append(d, cache[i])) /\ Len(Append(d, cache[i])) = Len(d) + 1
  BY <1>1, <1>2, AppendOK
<1> QED BY <1>1, <1>2, <1>3 DEF CacheInv, Touched, d

\* The entry in the way of a new one goes.
LEMMA OthersOK ==
  ASSUME CacheInv, NEW key
  PROVE  /\ CacheOK(Others(key)) /\ Len(Others(key)) <= CacheSize
         /\ \A j \in 1 .. Len(Others(key)) : Others(key)[j].key # key
<1>1. cache \in Seq(Entry) /\ Len(cache) \in Nat /\ CacheSize \in Nat
  BY LenProperties, DnsAssumption DEF CacheInv, CacheOK
<1>2. CASE Cached(cache, key) = {}
  BY <1>1, <1>2 DEF Others, Cached, CacheInv
<1>3. CASE Cached(cache, key) # {}
  <2> DEFINE i == CHOOSE i \in Cached(cache, key) : TRUE
  <2>1. i \in 1 .. Len(cache) /\ cache[i].key = key
    BY <1>3 DEF Cached
  <2>2. Others(key) = RemoveAt(cache, i)
    BY <1>3 DEF Others
  <2> HIDE DEF i
  <2>3. /\ CacheOK(Others(key)) /\ Len(Others(key)) = Len(cache) - 1
        /\ \A j \in 1 .. Len(cache) - 1 : Others(key)[j].key # key
    BY <2>1, <2>2, RemoveOK DEF CacheInv
  <2> QED BY <1>1, <2>3 DEF CacheInv
<1> QED BY <1>2, <1>3

\* Whatever was in the cache, a new response is filed as the only entry with its name
\* and type, and the capacity is kept.
LEMMA PutOK ==
  ASSUME CacheInv, NEW question \in Questions, NEW msg \in Messages,
         NEW response \in Responses, NameAndType(response.question) = NameAndType(question),
         Pair(response) \in Told, KeepFor[msg] > 0
  PROVE  /\ CacheOK(Put(CacheKey(question), response, msg))
         /\ Len(Put(CacheKey(question), response, msg)) <= CacheSize
<1> DEFINE key   == CacheKey(question)
           entry == [key |-> key, response |-> response, records |-> msg,
                     ttl |-> KeepFor[msg], expired |-> FALSE]
           added == Append(Others(key), entry)
<1>1. KeepFor[msg] \in Range(KeepFor)
  BY DEF KeepFor, Range
<1>2. entry \in Entry /\ entry.key = key /\ Filed(entry)
  BY <1>1 DEF Entry, Filed, CacheKey, NameAndType
<1>3. /\ CacheOK(Others(key)) /\ Len(Others(key)) <= CacheSize
      /\ \A j \in 1 .. Len(Others(key)) : Others(key)[j].key # key
  BY OthersOK
<1>4. Len(Others(key)) \in Nat /\ CacheSize \in Nat
  BY <1>3, LenProperties, DnsAssumption DEF CacheOK
<1> HIDE DEF entry
<1>5. CacheOK(added) /\ Len(added) = Len(Others(key)) + 1
  BY <1>2, <1>3, AppendOK
<1>6. added # <<>>
  <2>1. added \in Seq(Entry) /\ Len(added) # 0
    BY <1>4, <1>5 DEF CacheOK
  <2> QED BY <2>1, EmptySeq
<1>7. CacheOK(Tail(added)) /\ Len(Tail(added)) = Len(added) - 1
  BY <1>5, <1>6, TailOK
<1>8. Put(key, response, msg) =
        IF Overfull(added) \/ (added[1].expired /\ Cached(cache, key) = {})
          THEN Tail(added) ELSE added
  BY DEF Put, entry
<1> HIDE DEF added, key
<1>9. CASE Overfull(added) \/ (added[1].expired /\ Cached(cache, key) = {})
  <2>1. Put(key, response, msg) = Tail(added)
    BY <1>8, <1>9
  <2> QED BY <1>3, <1>4, <1>5, <1>7, <2>1 DEF key
<1>10. CASE ~(Overfull(added) \/ (added[1].expired /\ Cached(cache, key) = {}))
  <2>1. Put(key, response, msg) = added /\ Len(added) <= CacheSize
    BY <1>3, <1>4, <1>5, <1>8, <1>10 DEF Overfull
  <2> QED BY <1>5, <2>1 DEF key
<1> QED BY <1>9, <1>10

\* An entry that expires stays where it is.
LEMMA ExpireOK ==
  ASSUME CacheInv, Expire
  PROVE  CacheOK(cache') /\ Len(cache') <= CacheSize
<1>1. PICK i \in 1 .. Len(cache) : cache' = [cache EXCEPT ![i].expired = TRUE]
  BY DEF Expire
<1>2. /\ cache \in Seq(Entry) /\ Len(cache) \in Nat /\ cache[i] \in Entry
      /\ OneEntryEach(cache) /\ \A j \in 1 .. Len(cache) : Filed(cache[j])
  BY LenProperties, ElementOfSeq DEF CacheInv, CacheOK
<1> DEFINE e == [cache[i] EXCEPT !.expired = TRUE]
<1>3. /\ e \in Entry /\ e.key = cache[i].key /\ e.response = cache[i].response
      /\ e.ttl = cache[i].ttl /\ e.records = cache[i].records
  BY <1>2 DEF Entry
<1>4. cache' = [cache EXCEPT ![i] = e]
  BY <1>1
<1> HIDE DEF e
<1>5. /\ cache' \in Seq(Entry) /\ Len(cache') = Len(cache)
      /\ \A j \in 1 .. Len(cache) : cache'[j] = IF j = i THEN e ELSE cache[j]
  BY <1>2, <1>3, <1>4, ExceptSeq
<1>6. OneEntryEach(cache')
  BY <1>2, <1>3, <1>5 DEF OneEntryEach
<1>7. \A j \in 1 .. Len(cache') : Filed(cache'[j])
  BY <1>2, <1>3, <1>5 DEF Filed
<1> QED BY <1>5, <1>6, <1>7 DEF CacheInv, CacheOK

-----------------------------------------------------------------------------
(* The initial states and the steps of the handlers.                        *)

\* One more server that fails.
LEMMA FailedGrows ==
  ASSUME NEW n \in Nat
  PROVE  /\ Failed(0) = <<>>
         /\ Failed(n) \in Seq(Rcodes \cup {"failed"})
         /\ Append(Failed(n), "failed") = Failed(n + 1)
<1>1. Failed(n) \in Seq({"failed"}) /\ Len(Failed(n)) = n
  BY DEF Failed
<1>2. Append(Failed(n), "failed") = [i \in 1 .. n + 1 |-> "failed"]
  BY <1>1 DEF Failed
<1> QED BY <1>1, <1>2 DEF Failed

\* The invariant holds before the first query.
LEMMA InitInv == Init => Inv
<1> SUFFICES ASSUME Init PROVE Inv
  OBVIOUS
<1>1. HandlerTypes
  BY DnsAssumption DEF Init, HandlerTypes
<1>2. CacheInv
  <2>1. cache \in Seq(Entry) /\ Len(cache) = 0
    BY EmptySeq DEF Init
  <2> QED BY <2>1, DnsAssumption DEF CacheInv, CacheOK, OneEntryEach
<1>3. FailedInTurn
  <2>1. Failed(0) = <<>>
    BY FailedGrows
  <2> QED BY <2>1 DEF Init, FailedInTurn
<1>4. AnswerInHand
  BY DEF Init, AnswerInHand
<1>5. MayBeKept
  BY DEF Init, MayBeKept
<1> QED BY <1>1, <1>2, <1>3, <1>4, <1>5 DEF Inv

\* What has been said to a query that is past the servers is not forgotten.
LEMMA ToldGrows ==
  ASSUME HandlerTypes, NEW q \in Queries, Arrive(q) \/ Handle(q)
  PROVE  Told \subseteq Told'
<1>1. asked' = asked
  BY DEF Arrive, Handle, CacheHit, CacheMiss, Exchange, ExchangeFails, AllFailed, Store,
     AddRoute, RoutesAdded, Reply
<1>2. \A p \in Queries : Past(p) => heard'[p] = heard[p] /\ Past(p)'
  <2>1. CASE Arrive(q) \/ CacheHit(q) \/ CacheMiss(q) \/ AllFailed(q) \/ Store(q)
             \/ AddRoute(q) \/ RoutesAdded(q) \/ Reply(q)
    BY <2>1 DEF Arrive, CacheHit, CacheMiss, AllFailed, Store, AddRoute, RoutesAdded,
       Reply, Goto, HandlerTypes, Past
  <2>2. CASE Exchange(q) \/ ExchangeFails(q)
    <3>1. /\ pc[q] = "forward"
          /\ \E to \in {"forward", "store", "routes"} : pc' = [pc EXCEPT ![q] = to]
          /\ \E h : heard' = [heard EXCEPT ![q] = h]
      BY <2>2 DEF Exchange, ExchangeFails, Goto
    <3> QED BY <3>1 DEF HandlerTypes, Past
  <2> QED BY <2>1, <2>2 DEF Handle
<1> QED BY <1>1, <1>2 DEF Told

\* So a cache that was in order stays so.
LEMMA CacheKept ==
  ASSUME Told \subseteq Told', CacheOK(cache'), Len(cache') <= CacheSize
  PROVE  CacheInv'
BY DEF CacheInv, CacheOK, OneEntryEach, Filed

\* Steps that only move a query on: to the lookup, to the servers, to the end.
LEMMA MoveOn ==
  ASSUME Inv, NEW q \in Queries, Arrive(q) \/ CacheMiss(q) \/ RoutesAdded(q) \/ Reply(q)
  PROVE  Inv'
<1>1. /\ UNCHANGED <<asked, server, answer, records, todo, cache, heard, offered>>
      /\ \/ pc[q] = "idle" /\ pc' = [pc EXCEPT ![q] = "lookup"]
         \/ pc[q] = "lookup" /\ pc' = [pc EXCEPT ![q] = "forward"]
         \/ pc[q] = "routes" /\ pc' = [pc EXCEPT ![q] = "reply"]
         \/ pc[q] = "reply" /\ pc' = [pc EXCEPT ![q] = "done"]
  BY DEF Arrive, CacheMiss, RoutesAdded, Reply, Goto
<1>2. HandlerTypes'
  BY <1>1 DEF Inv, HandlerTypes
<1>3. Told \subseteq Told'
  BY ToldGrows DEF Inv, Handle
<1>4. CacheInv'
  BY <1>1, <1>3, CacheKept DEF Inv, CacheInv
<1>5. FailedInTurn'
  BY <1>1 DEF Inv, HandlerTypes, FailedInTurn
<1>6. AnswerInHand'
  BY <1>1, <1>3 DEF Inv, HandlerTypes, AnswerInHand, OwnAnswer, Pair
<1>7. MayBeKept'
  BY <1>1 DEF Inv, HandlerTypes, MayBeKept
<1> QED BY <1>2, <1>4, <1>5, <1>6, <1>7 DEF Inv

\* An entry found under a question is a response to it.
LEMMA CacheHitInv ==
  ASSUME Inv, NEW q \in Queries, CacheHit(q)
  PROVE  Inv'
<1>1. PICK i \in Hits(CacheKey(asked[q])) :
        /\ answer' = [answer EXCEPT ![q] = cache[i].response]
        /\ cache' = Touched(i)
  BY DEF CacheHit
<1>2. /\ UNCHANGED <<asked, server, records, todo, heard, offered>>
      /\ pc[q] = "lookup" /\ pc' = [pc EXCEPT ![q] = "reply"]
  BY DEF CacheHit, Goto
<1>3. i \in 1 .. Len(cache) /\ cache[i].key = CacheKey(asked[q])
  BY <1>1 DEF Hits, Cached
<1>4. cache[i] \in Entry /\ Filed(cache[i])
  BY <1>3, ElementOfSeq DEF Inv, CacheInv, CacheOK
<1>5. /\ cache[i].response \in Responses /\ Pair(cache[i].response) \in Told
      /\ NameAndType(cache[i].response.question) = NameAndType(asked[q])
  BY <1>3, <1>4 DEF Entry, Filed, CacheKey, NameAndType
<1>6. HandlerTypes'
  BY <1>1, <1>2, <1>5 DEF Inv, HandlerTypes
<1>7. Told \subseteq Told'
  BY ToldGrows DEF Inv, Handle
<1>8. CacheInv'
  BY <1>1, <1>3, <1>7, TouchedOK, CacheKept DEF Inv
<1>9. FailedInTurn'
  BY <1>2 DEF Inv, HandlerTypes, FailedInTurn
<1>10. AnswerInHand'
  BY <1>1, <1>2, <1>5, <1>7 DEF Inv, HandlerTypes, AnswerInHand, OwnAnswer, Pair
<1>11. MayBeKept'
  BY <1>2 DEF Inv, HandlerTypes, MayBeKept
<1> QED BY <1>6, <1>8, <1>9, <1>10, <1>11 DEF Inv

\* A server's answer is made a response to the question that was asked, and is the
\* first that was said to this query.
LEMMA ExchangeInv ==
  ASSUME Inv, NEW q \in Queries, Exchange(q)
  PROVE  Inv'
<1>1. PICK msg \in Messages :
        /\ answer' = [answer EXCEPT ![q] = [question |-> asked[q],
                        rcode |-> Content[msg].rcode, ips |-> Content[msg].ips]]
        /\ heard' = [heard EXCEPT ![q] = Append(@, Content[msg].rcode)]
        /\ todo' = [todo EXCEPT ![q] = Content[msg].ips]
        /\ IF KeepFor[msg] > 0 /\ CacheSize > 0
             THEN Goto(q, "forward", "store") /\ records' = [records EXCEPT ![q] = {msg}]
             ELSE Goto(q, "forward", "routes") /\ UNCHANGED records
  BY DEF Exchange
<1>2. /\ UNCHANGED <<asked, cache, offered>>
      /\ server' = [server EXCEPT ![q] = 1] /\ server[q] <= Upstreams
  BY DEF Exchange
<1>3. /\ pc[q] = "forward"
      /\ pc' = [pc EXCEPT ![q] = "store"] \/ pc' = [pc EXCEPT ![q] = "routes"]
      /\ records' = [records EXCEPT ![q] = {msg}] \/ records' = records
  BY <1>1 DEF Goto
<1>4. /\ Content[msg].ips \subseteq Addresses /\ Content[msg].rcode \in Rcodes
      /\ asked[q] \in Questions /\ Upstreams \in Nat
      /\ heard[q] \in Seq(Rcodes \cup {"failed"})
  BY DnsAssumption DEF Inv, HandlerTypes, Rcodes
<1> DEFINE rcode == Content[msg].rcode
           response == [question |-> asked[q], rcode |-> rcode, ips |-> Content[msg].ips]
<1> HIDE DEF rcode
<1>5. /\ response \in Responses /\ response.question = asked[q]
      /\ response.rcode = rcode /\ rcode \in Rcodes
  <2>1. Content[msg].ips \in SUBSET Addresses /\ rcode \in Rcodes
    BY <1>4 DEF rcode
  <2> QED BY <1>4, <2>1 DEF Responses
<1> HIDE DEF response
<1>6. /\ answer' = [answer EXCEPT ![q] = response]
      /\ heard' = [heard EXCEPT ![q] = Append(heard[q], rcode)]
  BY <1>1 DEF response, rcode
<1>7. HandlerTypes'
  <2>1. Append(heard[q], rcode) \in Seq(Rcodes \cup {"failed"})
    BY <1>4, <1>5
  <2>2. todo' \in [Queries -> SUBSET Addresses]
    BY <1>1, <1>4 DEF Inv, HandlerTypes
  <2>3. /\ heard' \in [Queries -> Seq(Rcodes \cup {"failed"})]
        /\ answer' \in [Queries -> Responses \cup {NoAnswer}]
    BY <1>5, <1>6, <2>1 DEF Inv, HandlerTypes
  <2>4. records' \in [Queries -> SUBSET Messages]
    <3>1. {msg} \in SUBSET Messages
      OBVIOUS
    <3> QED BY <1>3, <3>1 DEF Inv, HandlerTypes
  <2>5. pc' \in [Queries -> {"idle", "lookup", "forward", "store", "routes", "reply", "done"}]
    BY <1>3 DEF Inv, HandlerTypes
  <2>6. server' \in [Queries -> 1 .. Upstreams + 1]
    BY <1>2, <1>4 DEF Inv, HandlerTypes
  <2> QED BY <1>2, <2>2, <2>3, <2>4, <2>5, <2>6 DEF Inv, HandlerTypes
<1>8. Told \subseteq Told'
  BY ToldGrows DEF Inv, Handle
<1>9. Pair(response) \in Told'
  <2>1. heard'[q] = Append(Failed(server[q] - 1), rcode) /\ server[q] \in 1 .. Upstreams
    BY <1>2, <1>3, <1>4, <1>6 DEF Inv, HandlerTypes, FailedInTurn
  <2>2. pc'[q] \in {"store", "routes"} /\ asked'[q] = asked[q]
    BY <1>2, <1>3 DEF Inv, HandlerTypes
  <2>3. Pair(response) = <<NameAndType(asked[q]), rcode>>
    BY <1>5 DEF Pair
  <2>4. Pair(response) \in {NameAndType(question) : question \in Questions} \X Rcodes
    BY <1>4, <1>5, <2>3
  <2>5. Past(q)'
    BY <2>2 DEF Past
  <2>6. /\ Pair(response)[1] = NameAndType(asked'[q]) /\ Pair(response)[2] = rcode
    BY <2>2, <2>3
  <2> QED BY <2>1, <2>4, <2>5, <2>6 DEF Told
<1>10. CacheInv'
  BY <1>2, <1>8, CacheKept DEF Inv, CacheInv
<1>11. FailedInTurn'
  BY <1>2, <1>3, <1>6 DEF Inv, HandlerTypes, FailedInTurn
<1>12. AnswerInHand'
  BY <1>2, <1>3, <1>5, <1>6, <1>8, <1>9 DEF Inv, HandlerTypes, AnswerInHand, OwnAnswer, Pair
<1>13. MayBeKept'
  <2>1. \/ pc' = [pc EXCEPT ![q] = "store"] /\ KeepFor[msg] > 0
           /\ records' = [records EXCEPT ![q] = {msg}]
        \/ pc' = [pc EXCEPT ![q] = "routes"] /\ records' = records
    BY <1>1 DEF Goto
  <2>2. ASSUME NEW p \in Queries, pc'[p] = "store"
        PROVE  \A m \in records'[p] : KeepFor[m] > 0
    <3>1. CASE p = q
      BY <2>1, <2>2, <3>1 DEF Inv, HandlerTypes
    <3>2. CASE p # q
      BY <2>1, <2>2, <3>2 DEF Inv, HandlerTypes, MayBeKept
    <3> QED BY <3>1, <3>2
  <2> QED BY <2>2 DEF MayBeKept
<1> QED BY <1>7, <1>10, <1>11, <1>12, <1>13 DEF Inv

\* One more server has failed.
LEMMA ExchangeFailsInv ==
  ASSUME Inv, NEW q \in Queries, ExchangeFails(q)
  PROVE  Inv'
<1>1. /\ UNCHANGED <<asked, answer, records, todo, cache, offered>>
      /\ pc[q] = "forward" /\ pc' = [pc EXCEPT ![q] = "forward"]
      /\ server[q] <= Upstreams
      /\ heard' = [heard EXCEPT ![q] = Append(@, "failed")]
      /\ server' = [server EXCEPT ![q] = @ + 1]
  BY DEF ExchangeFails, Goto
<1>2. server[q] \in 1 .. Upstreams /\ Upstreams \in Nat /\ pc' = pc
  BY <1>1, DnsAssumption DEF Inv, HandlerTypes
<1>3. /\ Append(heard[q], "failed") = Failed(server[q])
      /\ Failed(server[q]) \in Seq(Rcodes \cup {"failed"})
  <2>1. heard[q] = Failed(server[q] - 1)
    BY <1>1 DEF Inv, FailedInTurn
  <2>2. server[q] - 1 \in Nat /\ server[q] \in Nat /\ (server[q] - 1) + 1 = server[q]
    BY <1>2
  <2> QED BY <2>1, <2>2, FailedGrows
<1>4. heard' = [heard EXCEPT ![q] = Failed(server[q])]
  BY <1>1, <1>3
<1>5. HandlerTypes'
  BY <1>1, <1>2, <1>3, <1>4 DEF Inv, HandlerTypes
<1>6. Told \subseteq Told'
  BY ToldGrows DEF Inv, Handle
<1>7. CacheInv'
  BY <1>1, <1>6, CacheKept DEF Inv, CacheInv
<1>8. FailedInTurn'
  <2>1. server'[q] - 1 = server[q]
    BY <1>1, <1>2 DEF Inv, HandlerTypes
  <2>2. heard'[q] = Failed(server'[q] - 1)
    BY <1>4, <2>1 DEF Inv, HandlerTypes
  <2>3. \A p \in Queries \ {q} : heard'[p] = heard[p] /\ server'[p] = server[p]
    BY <1>1, <1>4 DEF Inv, HandlerTypes
  <2> QED BY <1>2, <2>2, <2>3 DEF Inv, FailedInTurn
<1>9. AnswerInHand'
  BY <1>1, <1>2, <1>4, <1>6 DEF Inv, HandlerTypes, AnswerInHand, OwnAnswer, Pair
<1>10. MayBeKept'
  BY <1>1, <1>2 DEF Inv, HandlerTypes, MayBeKept
<1> QED BY <1>5, <1>7, <1>8, <1>9, <1>10 DEF Inv

\* SERVFAIL is the answer when the list of servers is exhausted.
LEMMA AllFailedInv ==
  ASSUME Inv, NEW q \in Queries, AllFailed(q)
  PROVE  Inv'
<1>1. /\ UNCHANGED <<asked, records, todo, cache, heard, offered>>
      /\ pc[q] = "forward" /\ pc' = [pc EXCEPT ![q] = "reply"]
      /\ server[q] > Upstreams
      /\ server' = [server EXCEPT ![q] = 1]
      /\ answer' = [answer EXCEPT ![q] = ServFail(q)]
  BY DEF AllFailed, Goto
<1>2. server[q] = Upstreams + 1 /\ Upstreams \in Nat
  BY <1>1, DnsAssumption DEF Inv, HandlerTypes
<1>3. heard[q] = Failed(Upstreams)
  BY <1>1, <1>2 DEF Inv, FailedInTurn
<1>4. /\ ServFail(q) \in Responses /\ ServFail(q).question = asked[q]
      /\ ServFail(q).rcode = "servfail"
  <2>1. {} \in SUBSET Addresses /\ "servfail" \in Rcodes /\ asked[q] \in Questions
    BY DEF Rcodes, Inv, HandlerTypes
  <2> QED BY <2>1 DEF ServFail, Responses
<1>5. HandlerTypes'
  BY <1>1, <1>2, <1>4 DEF Inv, HandlerTypes
<1>6. Told \subseteq Told'
  BY ToldGrows DEF Inv, Handle
<1>7. CacheInv'
  BY <1>1, <1>6, CacheKept DEF Inv, CacheInv
<1>8. FailedInTurn'
  BY <1>1 DEF Inv, HandlerTypes, FailedInTurn
<1>9. AnswerInHand'
  BY <1>1, <1>3, <1>4, <1>6 DEF Inv, HandlerTypes, AnswerInHand, OwnAnswer, Pair
<1>10. MayBeKept'
  BY <1>1 DEF Inv, HandlerTypes, MayBeKept
<1> QED BY <1>5, <1>7, <1>8, <1>9, <1>10 DEF Inv

\* A response is stored under the question it answers.
LEMMA StoreInv ==
  ASSUME Inv, NEW q \in Queries, Store(q)
  PROVE  Inv'
<1>1. /\ UNCHANGED <<asked, server, answer, todo, heard, offered>>
      /\ pc[q] = "store" /\ pc' = [pc EXCEPT ![q] = "routes"]
      /\ records' = [records EXCEPT ![q] = {}]
  BY DEF Store, Goto
<1>2. PICK msg \in records[q] : cache' = Put(CacheKey(asked[q]), answer[q], msg)
  BY DEF Store
<1>3. /\ msg \in Messages /\ asked[q] \in Questions
      /\ OwnAnswer(q) /\ Pair(answer[q]) \in Told /\ KeepFor[msg] > 0
  BY <1>1 DEF Inv, HandlerTypes, AnswerInHand, MayBeKept
<1>4. HandlerTypes'
  BY <1>1 DEF Inv, HandlerTypes
<1>5. Told \subseteq Told'
  BY ToldGrows DEF Inv, Handle
<1>6. CacheInv'
  <2>1. CacheOK(cache') /\ Len(cache') <= CacheSize
    BY <1>2, <1>3, PutOK DEF Inv, OwnAnswer
  <2> QED BY <1>5, <2>1, CacheKept
<1>7. FailedInTurn'
  BY <1>1 DEF Inv, HandlerTypes, FailedInTurn
<1>8. AnswerInHand'
  BY <1>1, <1>5 DEF Inv, HandlerTypes, AnswerInHand, OwnAnswer, Pair
<1>9. MayBeKept'
  BY <1>1 DEF Inv, HandlerTypes, MayBeKept
<1> QED BY <1>4, <1>6, <1>7, <1>8, <1>9 DEF Inv

\* A handler that asks for the route of one address keeps the invariant.
LEMMA AddRouteInv ==
  ASSUME Inv, NEW q \in Queries, AddRoute(q)
  PROVE  Inv'
<1>1. PICK ip \in todo[q] : /\ todo' = [todo EXCEPT ![q] = @ \ {ip}]
                            /\ offered' = offered \cup {ip}
  BY DEF AddRoute
<1>2. /\ UNCHANGED <<asked, server, answer, records, cache, heard>>
      /\ pc' = pc
  BY DEF AddRoute, Goto, Inv, HandlerTypes
<1>3. HandlerTypes'
  BY <1>1, <1>2 DEF Inv, HandlerTypes
<1>4. Told' = Told
  BY <1>2 DEF Told, Past
<1>5. CacheInv'
  BY <1>2, <1>4, CacheKept DEF Inv, CacheInv
<1>6. FailedInTurn' /\ AnswerInHand' /\ MayBeKept'
  BY <1>2, <1>4 DEF Inv, FailedInTurn, AnswerInHand, OwnAnswer, Pair, MayBeKept
<1> QED BY <1>3, <1>5, <1>6 DEF Inv

\* Every step of the handlers and of the clock keeps the invariant.
LEMMA NextInv == Inv /\ [Next]_vars => Inv'
<1> SUFFICES ASSUME Inv, [Next]_vars PROVE Inv'
  OBVIOUS
<1>1. ASSUME NEW q \in Queries, Arrive(q) \/ Handle(q) PROVE Inv'
  BY <1>1, MoveOn, CacheHitInv, ExchangeInv, ExchangeFailsInv, AllFailedInv, StoreInv,
     AddRouteInv DEF Handle
<1>2. CASE Expire
  <2>1. UNCHANGED <<pc, asked, server, answer, records, todo, heard, offered>>
    BY <1>2 DEF Expire
  <2>2. Told' = Told
    BY <2>1 DEF Told, Past
  <2>3. CacheInv'
    BY <1>2, <2>2, ExpireOK, CacheKept DEF Inv
  <2> QED BY <2>1, <2>2, <2>3 DEF Inv, HandlerTypes, FailedInTurn, AnswerInHand, OwnAnswer,
     Pair, MayBeKept
<1>3. CASE AllDone \/ UNCHANGED vars
  <2>1. UNCHANGED vars
    BY <1>3 DEF AllDone
  <2>2. Told' = Told
    BY <2>1 DEF vars, Told, Past
  <2>3. CacheInv'
    BY <2>1, <2>2, CacheKept DEF vars, Inv, CacheInv
  <2> QED BY <2>1, <2>2, <2>3 DEF vars, Inv, HandlerTypes, FailedInTurn, AnswerInHand,
     OwnAnswer, Pair, MayBeKept
<1> QED BY <1>1, <1>2, <1>3 DEF Next

\* The inductive invariant holds in every reachable state.
THEOREM Invariant == Spec => []Inv
<1>1. Init => Inv
  BY InitInv
<1>2. Inv /\ [Next]_vars => Inv'
  BY NextInv
<1> QED BY <1>1, <1>2, PTL DEF Spec

-----------------------------------------------------------------------------
(* The properties.                                                         *)

\* forward never asks beyond the end of its list of servers, and the other
\* variables keep their types.
THEOREM TypeCorrect == Spec => []TypeOK
<1>1. Inv => TypeOK
  BY DEF Inv, HandlerTypes, CacheInv, CacheOK, TypeOK
<1> QED BY <1>1, Invariant, PTL

\* One entry per question and no more than CacheSize, for any number of handlers
\* that miss and store at the same time.
THEOREM CacheStaysSound == Spec => []CacheSound
<1>1. Inv => CacheSound
  BY DEF Inv, CacheInv, CacheOK, OneEntryEach, CacheSound
<1> QED BY <1>1, Invariant, PTL

\* Nobody is given the response to a question with another name or type, from a
\* server or the cache.
THEOREM OwnQuestionAnswered == Spec => []AnswersItsQuestion
<1>1. Inv => AnswersItsQuestion
  BY DEF Inv, AnswerInHand, OwnAnswer, AnswersItsQuestion
<1> QED BY <1>1, Invariant, PTL

\* What a client is told is what the first server to respond has said, to this query
\* or to the one that filled the cache; only when none has responded it is the
\* proxy's own SERVFAIL.  For any number of servers.
THEOREM FirstServerDecides == Spec => []FirstResponseDecides
<1>1. Inv => FirstResponseDecides
  <2> SUFFICES ASSUME Inv, NEW q \in Queries, pc[q] = "done",
                      ~(answer[q].rcode = "servfail" /\ heard[q] = Failed(Upstreams))
               PROVE  \E p \in Queries, n \in 1 .. Upstreams :
                        /\ NameAndType(asked[p]) = NameAndType(asked[q])
                        /\ heard[p] = Append(Failed(n - 1), answer[q].rcode)
    BY DEF FirstResponseDecides
  <2>1. OwnAnswer(q) /\ Pair(answer[q]) \in Told
    BY DEF Inv, AnswerInHand
  <2>2. Pair(answer[q]) = <<NameAndType(asked[q]), answer[q].rcode>>
    BY <2>1 DEF OwnAnswer, Pair
  <2> QED BY <2>1, <2>2 DEF Told
<1> QED BY <1>1, Invariant, PTL

-----------------------------------------------------------------------------
(* The smallest TTL.                                                       *)

\* What the loop over the TTLs has when it has seen the first i of them: 0 at the
\* beginning and after a 0, and a lower bound of what follows the last 0.
Least(ttls, i, v) ==
  /\ v = 0 <=> i = 0 \/ ttls[i] = 0
  /\ \A k \in 1 .. i : (\A z \in 1 .. i : ttls[z] = 0 => z < k) => v <= ttls[k]
  /\ v > 0 => \E k \in 1 .. i : ttls[k] = v

\* The loop over the records ends with the smallest of their TTLs.
LEMMA SmallestIsLeast ==
  ASSUME NEW ttls \in Seq(Nat)
  PROVE  Smallest(ttls) \in Nat /\ Least(ttls, Len(ttls), Smallest(ttls))
<1> DEFINE n == Len(ttls)
           next(i, v) == IF v = 0 \/ ttls[i] < v THEN ttls[i] ELSE v
           body(f) == [i \in 0 .. n |-> IF i = 0 THEN 0 ELSE next(i, f[i - 1])]
           step == [p \in (1 .. n) \X Nat |-> next(p[1], p[2])]
           least == CHOOSE f : f = body(f)
<1>1. n \in Nat /\ \A i \in 1 .. n : ttls[i] \in Nat
  BY LenProperties, ElementOfSeq
<1>2. step \in [(1 .. n) \X Nat -> Nat] /\ \A i \in 1 .. n, v \in Nat : step[<<i, v>>] = next(i, v)
  BY <1>1
<1>3. Smallest(ttls) = least[n]
  BY DEF Smallest
<1> HIDE DEF n, step
<1>4. PICK f \in [0 .. n -> Nat] : f[0] = 0 /\ \A i \in 1 .. n : f[i] = step[<<i, f[i - 1]>>]
  <2>1. 0 \in Nat
    OBVIOUS
  <2>2. \E f \in [0 .. n -> Nat] : IsLoop(f, n, 0, step)
    BY <1>1, <1>2, <2>1, LoopRuns, Zenon
  <2> QED BY <2>2 DEF IsLoop
<1>5. f = body(f)
  <2>1. ASSUME NEW i \in 0 .. n PROVE f[i] = IF i = 0 THEN 0 ELSE next(i, f[i - 1])
    <3>1. CASE i = 0
      BY <1>4, <3>1
    <3>2. CASE i # 0
      <4>1. i \in 1 .. n /\ f[i - 1] \in Nat
        BY <1>1, <3>2
      <4>2. f[i] = next(i, f[i - 1])
        BY ONLY <1>2, <1>4, <4>1
      <4> QED BY <3>2, <4>2
    <3> QED BY <3>1, <3>2
  <2> HIDE DEF next
  <2> QED BY <2>1
<1>6. least = body(least)
  BY <1>5
<1> HIDE DEF least
<1>7. least[0] = 0 /\ \A i \in 1 .. n : least[i] = next(i, least[i - 1])
  BY <1>1, <1>6, SMTT(30)
<1> HIDE DEF next
<1> DEFINE T == {i \in 0 .. n : least[i] \in Nat /\ Least(ttls, i, least[i])}
<1>8. 0 \in T
  BY <1>1, <1>7 DEF Least
<1>9. ASSUME NEW i \in T, i < n PROVE i + 1 \in T
  <2> DEFINE v == least[i]
             w == least[i + 1]
  <2>1. i \in Nat /\ i + 1 \in 1 .. n /\ v \in Nat /\ ttls[i + 1] \in Nat
    BY <1>1, <1>9
  <2>2. w = IF v = 0 \/ ttls[i + 1] < v THEN ttls[i + 1] ELSE v
    BY <1>7, <2>1 DEF next
  <2>3. Least(ttls, i, v)
    OBVIOUS
  <2> HIDE DEF v, w
  <2>4. w \in Nat /\ (w = 0 <=> ttls[i + 1] = 0)
    BY <2>1, <2>2
  <2>5. ASSUME NEW k \in 1 .. i + 1, \A z \in 1 .. i + 1 : ttls[z] = 0 => z < k
        PROVE  w <= ttls[k]
    <3>1. CASE k = i + 1
      BY <2>1, <2>2, <3>1
    <3>2. CASE k # i + 1
      <4>1. k \in 1 .. i /\ \A z \in 1 .. i : ttls[z] = 0 => z < k
        BY <2>1, <2>5, <3>2
      <4>2. i \in 1 .. i /\ ttls[i] # 0
        BY <2>1, <4>1
      <4>3. v # 0 /\ v <= ttls[k]
        BY <2>3, <4>1, <4>2 DEF Least
      <4>4. ttls[k] \in Nat
        BY <1>1, <2>1, <4>1
      <4> QED BY <2>1, <2>2, <4>3, <4>4
    <3> QED BY <3>1, <3>2
  <2>6. w > 0 => \E k \in 1 .. i + 1 : ttls[k] = w
    BY <2>1, <2>2, <2>3 DEF Least
  <2>7. Least(ttls, i + 1, w)
    BY <2>1, <2>4, <2>5, <2>6 DEF Least
  <2> QED BY <2>1, <2>4, <2>7 DEF w
<1> HIDE DEF T
<1>10. T = 0 .. n
  <2>1. T \subseteq 0 .. n
    BY DEF T
  <2> QED BY <1>1, <1>8, <1>9, <2>1, BoundedInduction
<1>11. n \in T
  BY <1>1, <1>10
<1> QED BY <1>3, <1>11 DEF T, n

\* The TTLs of all three sections.
LEMMA TtlsAreNumbers ==
  ASSUME NEW msg \in Messages
  PROVE  Ttls(msg) \in Seq(Nat) /\ (Len(Ttls(msg)) = 0 => Len(Content[msg].ns) = 0)
<1> DEFINE a == Content[msg].answer
           ns == Content[msg].ns
           b == [i \in DOMAIN ns |-> ns[i].ttl]
           c == Content[msg].extra
<1>1. a \in Seq(Nat) /\ c \in Seq(Nat) /\ ns \in Seq([soa : BOOLEAN, ttl : Nat, minttl : Nat])
  BY DnsAssumption
<1>2. Ttls(msg) = a \o b \o c
  BY DEF Ttls
<1> HIDE DEF a, c, ns
<1>3. Len(ns) \in Nat /\ DOMAIN ns = 1 .. Len(ns) /\ \A i \in 1 .. Len(ns) : ns[i].ttl \in Nat
  <2>1. Len(ns) \in Nat /\ DOMAIN ns = 1 .. Len(ns)
    BY <1>1, LenProperties
  <2>2. \A i \in 1 .. Len(ns) : ns[i] \in [soa : BOOLEAN, ttl : Nat, minttl : Nat]
    BY <1>1, ElementOfSeq
  <2> QED BY <2>1, <2>2
<1>4. b \in Seq(Nat) /\ Len(b) = Len(ns)
  BY <1>3
<1> HIDE DEF b
<1>5. Ttls(msg) \in Seq(Nat) /\ Len(Ttls(msg)) = Len(a) + Len(b) + Len(c)
  <2>1. a \o b \in Seq(Nat) /\ Len(a \o b) = Len(a) + Len(b)
    BY <1>1, <1>4, ConcatProperties
  <2> DEFINE ab == a \o b
  <2> HIDE DEF ab
  <2>2. ab \o c \in Seq(Nat) /\ Len(ab \o c) = Len(ab) + Len(c)
    BY <1>1, <2>1, ConcatProperties DEF ab
  <2> QED BY <1>2, <2>1, <2>2 DEF ab
<1>6. Len(a) \in Nat /\ Len(c) \in Nat
  BY <1>1, LenProperties
<1> QED BY <1>3, <1>4, <1>5, <1>6 DEF ns

\* A negative answer is kept for what its SOA says, and for no time without one.
LEMMA NegativeFromSOA ==
  ASSUME NEW msg \in Messages, NegativeTTL(msg) > 0
  PROVE  \E rr \in Range(Content[msg].ns) :
           rr.soa /\ NegativeTTL(msg) <= rr.ttl /\ NegativeTTL(msg) <= rr.minttl
<1> DEFINE ns == Content[msg].ns
           soas == {i \in DOMAIN ns : ns[i].soa}
<1>1. ns \in Seq([soa : BOOLEAN, ttl : Nat, minttl : Nat])
  BY DnsAssumption
<1> HIDE DEF ns
<1>2. /\ soas \subseteq Nat
      /\ \A i \in soas : ns[i].soa /\ ns[i].ttl \in Nat /\ ns[i].minttl \in Nat /\ i \in DOMAIN ns
  <2>1. Len(ns) \in Nat /\ DOMAIN ns = 1 .. Len(ns)
    BY <1>1, LenProperties
  <2>2. \A i \in 1 .. Len(ns) : ns[i] \in [soa : BOOLEAN, ttl : Nat, minttl : Nat]
    BY <1>1, ElementOfSeq
  <2> QED BY <2>1, <2>2
<1>3. soas # {} /\ NegativeTTL(msg) = Min({ns[Min(soas)].ttl, ns[Min(soas)].minttl})
  <2>1. /\ soas = {} => NegativeTTL(msg) = 0
        /\ soas # {} =>
             NegativeTTL(msg) \in {0, Min({ns[Min(soas)].ttl, ns[Min(soas)].minttl})}
    BY Zenon DEF NegativeTTL, ns
  <2> HIDE DEF soas
  <2>2. soas # {}
    BY <2>1
  <2> DEFINE least == Min({ns[Min(soas)].ttl, ns[Min(soas)].minttl})
  <2>3. NegativeTTL(msg) \in {0, least}
    BY <2>1, <2>2
  <2> HIDE DEF least
  <2>4. NegativeTTL(msg) = least
    BY <2>3
  <2> QED BY <2>2, <2>4 DEF least
<1> HIDE DEF soas
<1>4. Min(soas) \in soas
  <2>1. \E n \in soas : \A m \in soas : n <= m
    BY <1>2, <1>3, LeastNatural
  <2> QED BY <2>1 DEF Min
<1> DEFINE rr == ns[Min(soas)]
<1>5. rr.soa /\ rr.ttl \in Nat /\ rr.minttl \in Nat /\ rr \in Range(ns)
  BY <1>2, <1>4 DEF Range
<1> HIDE DEF rr
<1>6. Min({rr.ttl, rr.minttl}) <= rr.ttl /\ Min({rr.ttl, rr.minttl}) <= rr.minttl
  <2> DEFINE both == {rr.ttl, rr.minttl}
  <2>1. \E n \in both : \A m \in both : n <= m
    BY <1>5
  <2>2. Min(both) \in both /\ \A m \in both : Min(both) <= m
    BY <2>1 DEF Min
  <2> QED BY <2>2
<1> QED BY <1>3, <1>5, <1>6 DEF rr, ns

\* A response that may be kept is kept for the smallest TTL of its records, in
\* whichever section; and in the face of a TTL of 0 for no longer than what comes
\* after it, or the SOA, allows.
THEOREM SmallestTTLDecides == Spec => []KeptForSmallestTTL
<1>1. ASSUME NEW msg \in Messages, KeepFor[msg] > 0
      PROVE  LET ttls == Ttls(msg)
                 zeros == {k \in DOMAIN ttls : ttls[k] = 0}
             IN  /\ zeros = {} => /\ KeepFor[msg] \in Range(ttls)
                                  /\ \A k \in DOMAIN ttls : KeepFor[msg] <= ttls[k]
                 /\ \A k \in DOMAIN ttls :
                      (\A z \in zeros : z < k) => KeepFor[msg] <= ttls[k]
                 /\ Len(ttls) \in zeros =>
                      \E rr \in Range(Content[msg].ns) :
                        rr.soa /\ KeepFor[msg] <= rr.ttl /\ KeepFor[msg] <= rr.minttl
  <2> DEFINE ttls == Ttls(msg)
             zeros == {k \in DOMAIN ttls : ttls[k] = 0}
             v == MinTTL(msg)
             ttl == KeepFor[msg]
  <2>1. ttls \in Seq(Nat) /\ (Len(ttls) = 0 => Len(Content[msg].ns) = 0)
    BY TtlsAreNumbers
  <2>2. v \in Nat /\ Least(ttls, Len(ttls), v)
    BY <2>1, SmallestIsLeast DEF MinTTL
  <2>3. ttl = IF v > 0 THEN v ELSE NegativeTTL(msg)
    BY DEF KeepFor
  <2>4. ttl > 0
    BY <1>1
  <2> HIDE DEF ttls, v, ttl
  <2>5. Len(ttls) \in Nat /\ DOMAIN ttls = 1 .. Len(ttls) /\ \A k \in DOMAIN ttls : ttls[k] \in Nat
    BY <2>1, LenProperties, ElementOfSeq
  <2>6. CASE v > 0
    <3>1. ttl = v /\ Len(ttls) > 0 /\ ttls[Len(ttls)] # 0 /\ Len(ttls) \in DOMAIN ttls
      BY <2>2, <2>3, <2>5, <2>6 DEF Least
    <3>2. ttl \in Range(ttls)
      BY <2>2, <2>5, <2>6, <3>1 DEF Least, Range
    <3>3. \A k \in DOMAIN ttls : (\A z \in zeros : z < k) => ttl <= ttls[k]
      BY <2>2, <2>5, <3>1 DEF Least
    <3> QED BY <3>1, <3>2, <3>3 DEF ttl, ttls
  <2>7. CASE v = 0
    <3>1. ttl = NegativeTTL(msg)
      BY <2>3, <2>7
    <3>2. \E rr \in Range(Content[msg].ns) : rr.soa /\ ttl <= rr.ttl /\ ttl <= rr.minttl
      BY <2>4, <3>1, NegativeFromSOA
    <3>3. Len(ttls) # 0
      <4>1. Len(Content[msg].ns) # 0
        BY <3>2, DnsAssumption, LenProperties DEF Range
      <4> QED BY <2>1, <4>1
    <3>4. Len(ttls) \in zeros
      BY <2>2, <2>5, <2>7, <3>3 DEF Least
    <3>5. \A k \in DOMAIN ttls : ~(Len(ttls) < k)
      BY <2>5
    <3> QED BY <3>2, <3>4, <3>5 DEF ttl, ttls
  <2> QED BY <2>2, <2>6, <2>7
<1>2. Inv => KeptForSmallestTTL
  <2> SUFFICES ASSUME Inv, NEW i \in 1 .. Len(cache)
               PROVE  LET ttls == Ttls(cache[i].records)
                          zeros == {k \in DOMAIN ttls : ttls[k] = 0}
                      IN  /\ zeros = {} =>
                               /\ cache[i].ttl \in Range(ttls)
                               /\ \A k \in DOMAIN ttls : cache[i].ttl <= ttls[k]
                          /\ \A k \in DOMAIN ttls :
                               (\A z \in zeros : z < k) => cache[i].ttl <= ttls[k]
                          /\ Len(ttls) \in zeros =>
                               \E rr \in Range(Content[cache[i].records].ns) :
                                 rr.soa /\ cache[i].ttl <= rr.ttl /\ cache[i].ttl <= rr.minttl
    BY DEF KeptForSmallestTTL
  <2>1. cache[i] \in Entry /\ Filed(cache[i])
    BY ElementOfSeq DEF Inv, CacheInv, CacheOK
  <2>2. /\ cache[i].records \in Messages
        /\ cache[i].ttl = KeepFor[cache[i].records] /\ KeepFor[cache[i].records] > 0
    BY <2>1 DEF Entry, Filed
  <2> QED BY <1>1, <2>2
<1> QED BY <1>2, Invariant, PTL
=============================================================================
