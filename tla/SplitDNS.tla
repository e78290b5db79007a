------------------------------ MODULE SplitDNS ------------------------------
(***************************************************************************)
(* The local DNS proxy (pkg/splitdns): handleRequest runs in a goroutine   *)
(* of its own for every query; all of them share the response cache and    *)
(* the RouteAdder.  A query is one element of Queries; a question is a     *)
(* name with a record type and a class; a response is the question it      *)
(* answers, its response code, the set of addresses in its A and AAAA       *)
(* records, and, as long as the code looks at them, the TTLs of its records. *)
(*                                                                         *)
(* The cache library and the upstream servers are not in src/: Get, Put    *)
(* and Exchange model them from their use in cache.go and dns.go.          *)
(***************************************************************************)
EXTENDS Naturals, Sequences, FiniteSets, SequencesExt

CONSTANTS
  Queries,    \* queries, each handled by its own goroutine
  Questions,  \* records [name, qtype, class]
  Addresses,  \* what upstream answers may contain
  Messages,   \* upstream answers
  Content,    \* message -> its rcode, its addresses, and by section the TTLs of
              \* its records, in the authority section with the SOA's Minttl
  Upstreams,  \* number of VPN DNS servers
  CacheSize   \* --dns-cache-size

ASSUME DnsAssumption ==
  /\ IsFiniteSet(Queries)
  /\ \A q \in Questions : DOMAIN q = {"name", "qtype", "class"}
  /\ \A m \in Messages :
       /\ Content[m].ips \subseteq Addresses
       /\ Content[m].answer \in Seq(Nat) /\ Content[m].extra \in Seq(Nat)
       /\ Content[m].ns \in Seq([soa : BOOLEAN, ttl : Nat, minttl : Nat])
  /\ Upstreams \in Nat
  /\ CacheSize \in Nat

VARIABLES
  pc,       \* query -> "idle", "lookup", "forward", "store", "routes", "reply", "done"
  asked,    \* query -> its question
  server,   \* query -> the upstream server that forward asks, else 1
  answer,   \* query -> the response in hand
  records,  \* query -> the message to be stored, in a set: {} if there is none
  todo,     \* query -> addresses still to be given to the RouteAdder
  cache,    \* entries, the least recently used first
  heard,    \* history: query -> what the servers asked so far have said: their
            \* response code, or "failed"
  offered   \* history: addresses given to the RouteAdder

vars == <<pc, asked, server, answer, records, todo, cache, heard, offered>>

Rcodes    == {Content[msg].rcode : msg \in Messages} \cup {"servfail"}
Responses == [question : Questions, rcode : Rcodes, ips : SUBSET Addresses]
NoAnswer  == [none |-> TRUE]

\* The proxy's own answer when no server has responded.
ServFail(q) == [question |-> asked[q], rcode |-> "servfail", ips |-> {}]

-----------------------------------------------------------------------------
(* For how long a response may be kept.                                    *)

Ttls(msg) ==
  Content[msg].answer \o [i \in DOMAIN Content[msg].ns |-> Content[msg].ns[i].ttl]
                      \o Content[msg].extra

\* The smallest of ttls; 0 stands for "none yet", also when it is an element.
Smallest(ttls) ==
  LET least[i \in 0 .. Len(ttls)] ==
        IF i = 0 THEN 0
        ELSE IF least[i - 1] = 0 \/ ttls[i] < least[i - 1] THEN ttls[i] ELSE least[i - 1]
  IN  least[Len(ttls)]

\* Mutant of MinTTL: the authority section is not looked at.
MinTTLAnswer(msg) == Smallest(Content[msg].answer \o Content[msg].extra)

MinTTL(msg) == Smallest(Ttls(msg))

\* Of the first SOA record, for a response that says that there is nothing.
NegativeTTL(msg) ==
  LET ns   == Content[msg].ns
      soas == {i \in DOMAIN ns : ns[i].soa}
  IN  IF \/ Content[msg].rcode = "success" /\ Content[msg].answer # <<>>
         \/ soas = {}
        THEN 0 ELSE Min({ns[Min(soas)].ttl, ns[Min(soas)].minttl})

KeepFor == [msg \in Messages |->
              IF MinTTL(msg) > 0 THEN MinTTL(msg) ELSE NegativeTTL(msg)]

-----------------------------------------------------------------------------
(* The cache: expirable-cache with WithMaxKeys and WithLRU.                *)

\* Mutant of CacheKey: the record type is not part of the key.
CacheKeyNameOnly(question) == question.name

\* Without the class.
CacheKey(question) == [name |-> question.name, qtype |-> question.qtype]

Entry == [key : {CacheKey(q) : q \in Questions}, response : Responses,
          records : Messages, ttl : Range(KeepFor), expired : BOOLEAN]

Cached(c, key) == {i \in 1 .. Len(c) : c[i].key = key}

\* A hit moves the entry to the young end; an expired entry is no hit.
Hits(key) == {i \in Cached(cache, key) : ~cache[i].expired}

Touched(i) == Append(RemoveAt(cache, i), cache[i])

Overfull(entries) == Len(entries) > CacheSize

\* Mutant of Others: the old entry with the key stays.
OthersAndOld(key) == cache

\* A new entry takes the place of the old one with its key.
Others(key) ==
  LET old == Cached(cache, key)
  IN  IF old = {} THEN cache ELSE RemoveAt(cache, CHOOSE i \in old : TRUE)

\* A new entry pushes out the oldest one when it is expired or one too many.
Put(key, response, msg) ==
  LET entry == [key |-> key, response |-> response, records |-> msg,
                ttl |-> KeepFor[msg], expired |-> FALSE]
      added == Append(Others(key), entry)
  IN  IF Overfull(added) \/ (added[1].expired /\ Cached(cache, key) = {})
        THEN Tail(added) ELSE added

-----------------------------------------------------------------------------
Init ==
  /\ pc = [q \in Queries |-> "idle"]
  /\ asked \in [Queries -> Questions]
  /\ server = [q \in Queries |-> 1]
  /\ answer = [q \in Queries |-> NoAnswer]
  /\ records = [q \in Queries |-> {}]
  /\ todo = [q \in Queries |-> {}]
  /\ cache = <<>>
  /\ heard = [q \in Queries |-> <<>>]
  /\ offered = {}

Goto(q, from, to) ==
  /\ pc[q] = from
  /\ pc' = [pc EXCEPT ![q] = to]

\* A query with a question arrives.
Arrive(q) ==
  /\ Goto(q, "idle", "lookup")
  /\ UNCHANGED <<asked, server, answer, records, todo, cache, heard, offered>>

CacheHit(q) ==
  /\ Goto(q, "lookup", "reply")
  /\ \E i \in Hits(CacheKey(asked[q])) :
       /\ answer' = [answer EXCEPT ![q] = cache[i].response]
       /\ cache' = Touched(i)
  /\ UNCHANGED <<asked, server, records, todo, heard, offered>>

CacheMiss(q) ==
  /\ Goto(q, "lookup", "forward")
  /\ Hits(CacheKey(asked[q])) = {}
  /\ UNCHANGED <<asked, server, answer, records, todo, cache, heard, offered>>

\* The upstream server responds, whatever its response code, and forward returns;
\* what may not be kept stays out of the cache.
Exchange(q) ==
  /\ server[q] <= Upstreams
  /\ \E msg \in Messages :
       /\ answer' = [answer EXCEPT ![q] = [question |-> asked[q],
                          rcode |-> Content[msg].rcode, ips |-> Content[msg].ips]]
       /\ heard' = [heard EXCEPT ![q] = Append(@, Content[msg].rcode)]
       /\ todo' = [todo EXCEPT ![q] = Content[msg].ips]
       /\ IF KeepFor[msg] > 0 /\ CacheSize > 0
            THEN Goto(q, "forward", "store") /\ records' = [records EXCEPT ![q] = {msg}]
            ELSE Goto(q, "forward", "routes") /\ UNCHANGED records
  /\ server' = [server EXCEPT ![q] = 1]
  /\ UNCHANGED <<asked, cache, offered>>

\* Mutant of ExchangeFails: the list of servers has no end.
ExchangeFailsUnbounded(q) ==
  /\ Goto(q, "forward", "forward")
  /\ server[q] <= Upstreams + 1
  /\ heard' = [heard EXCEPT ![q] = Append(@, "failed")]
  /\ server' = [server EXCEPT ![q] = @ + 1]
  /\ UNCHANGED <<asked, answer, records, todo, cache, offered>>

\* The upstream server fails or times out: the next one is asked.
ExchangeFails(q) ==
  /\ Goto(q, "forward", "forward")
  /\ server[q] <= Upstreams
  /\ heard' = [heard EXCEPT ![q] = Append(@, "failed")]
  /\ server' = [server EXCEPT ![q] = @ + 1]
  /\ UNCHANGED <<asked, answer, records, todo, cache, offered>>

\* Mutant of AllFailed: the last server is not asked.
AllButOneFailed(q) ==
  /\ Goto(q, "forward", "reply")
  /\ server[q] >= Upstreams
  /\ answer' = [answer EXCEPT ![q] = ServFail(q)]
  /\ UNCHANGED <<asked, server, records, todo, cache, heard, offered>>

\* Mutant of AllFailed: the servers are asked again from the first.
AllFailedRetries(q) ==
  /\ Goto(q, "forward", "forward")
  /\ server[q] > Upstreams
  /\ server' = [server EXCEPT ![q] = 1]
  /\ heard' = [heard EXCEPT ![q] = <<>>]
  /\ UNCHANGED <<asked, answer, records, todo, cache, offered>>

\* No server is left to ask: SERVFAIL.
AllFailed(q) ==
  /\ Goto(q, "forward", "reply")
  /\ server[q] > Upstreams
  /\ server' = [server EXCEPT ![q] = 1]
  /\ answer' = [answer EXCEPT ![q] = ServFail(q)]
  /\ UNCHANGED <<asked, records, todo, cache, heard, offered>>

Store(q) ==
  /\ Goto(q, "store", "routes")
  /\ \E msg \in records[q] : cache' = Put(CacheKey(asked[q]), answer[q], msg)
  /\ records' = [records EXCEPT ![q] = {}]
  /\ UNCHANGED <<asked, server, answer, todo, heard, offered>>

\* The RouteAdder is called with one address of the answer; an error is only
\* logged.
AddRoute(q) ==
  /\ Goto(q, "routes", "routes")
  /\ \E ip \in todo[q] :
       /\ todo' = [todo EXCEPT ![q] = @ \ {ip}]
       /\ offered' = offered \cup {ip}
  /\ UNCHANGED <<asked, server, answer, records, cache, heard>>

RoutesAdded(q) ==
  /\ Goto(q, "routes", "reply")
  /\ todo[q] = {}
  /\ UNCHANGED <<asked, server, answer, records, todo, cache, heard, offered>>

Reply(q) ==
  /\ Goto(q, "reply", "done")
  /\ UNCHANGED <<asked, server, answer, records, todo, cache, heard, offered>>

\* The TTL of an entry runs out.
Expire ==
  /\ \E i \in 1 .. Len(cache) :
       /\ ~cache[i].expired
       /\ cache' = [cache EXCEPT ![i].expired = TRUE]
  /\ UNCHANGED <<pc, asked, server, answer, records, todo, heard, offered>>

Handle(q) ==
  \/ CacheHit(q) \/ CacheMiss(q) \/ Exchange(q) \/ ExchangeFails(q)
  \/ AllFailed(q) \/ Store(q) \/ AddRoute(q) \/ RoutesAdded(q) \/ Reply(q)

AllDone == (\A q \in Queries : pc[q] = "done") /\ UNCHANGED vars

Next == (\E q \in Queries : Arrive(q) \/ Handle(q)) \/ Expire \/ AllDone

Spec == Init /\ [][Next]_vars

\* As long as a goroutine handles a query, some such goroutine runs; an exchange
\* ends with an answer or with the timeout of the DNS client.  Go's scheduler gives
\* every goroutine its turn, but no query makes work for another one, so that this
\* much is enough.  Nobody has to ask.
Fairness == WF_vars(\E q \in Queries : Handle(q))

FairSpec == Spec /\ Fairness

-----------------------------------------------------------------------------
(* Properties.                                                             *)

NameAndType(question) == <<question.name, question.qtype>>

Failed(n) == [i \in 1 .. n |-> "failed"]

\* Every variable keeps its type.
TypeOK ==
  /\ pc \in [Queries -> {"idle", "lookup", "forward", "store", "routes",
                         "reply", "done"}]
  /\ asked \in [Queries -> Questions]
  /\ server \in [Queries -> 1 .. Upstreams + 1]
  /\ answer \in [Queries -> Responses \cup {NoAnswer}]
  /\ records \in [Queries -> SUBSET Messages]
  /\ todo \in [Queries -> SUBSET Addresses]
  /\ cache \in Seq(Entry)
  /\ heard \in [Queries -> Seq(Rcodes \cup {"failed"})]
  /\ offered \in SUBSET Addresses

\* However the handlers of concurrent misses interleave, the cache holds one
\* entry per name and type and no more than CacheSize.
CacheSound ==
  /\ Len(cache) <= CacheSize
  /\ \A i, j \in 1 .. Len(cache) : cache[i].key = cache[j].key => i = j

\* A response is kept for the smallest TTL of its records, whichever section
\* they are in, unless one of them is 0.  It can be kept even then, for no longer
\* than a record behind the last such one, or its SOA, allows.
KeptForSmallestTTL ==
  \A i \in 1 .. Len(cache) :
    LET ttls == Ttls(cache[i].records)
        zeros == {k \in DOMAIN ttls : ttls[k] = 0}
    IN  /\ zeros = {} => /\ cache[i].ttl \in Range(ttls)
                         /\ \A k \in DOMAIN ttls : cache[i].ttl <= ttls[k]
        /\ \A k \in DOMAIN ttls :
             (\A z \in zeros : z < k) => cache[i].ttl <= ttls[k]
        /\ Len(ttls) \in zeros =>
             \E rr \in Range(Content[cache[i].records].ns) :
               rr.soa /\ cache[i].ttl <= rr.ttl /\ cache[i].ttl <= rr.minttl

\* Nobody is given the response to another question: not to another name, and
\* not to the same name with another record type.  (The class may differ: it is
\* not part of the key.)
AnswersItsQuestion ==
  \A q \in Queries :
    pc[q] = "done" => NameAndType(answer[q].question) = NameAndType(asked[q])

\* The first server to respond decides what the client is told, SERVFAIL included:
\* no later one is asked, and none before it was passed over.  It responded to this
\* query, or to the one that filled the cache.  A SERVFAIL of the proxy's own comes
\* only after every VPN DNS server has failed for the query.
FirstResponseDecides ==
  \A q \in Queries : pc[q] = "done" =>
    \/ answer[q].rcode = "servfail" /\ heard[q] = Failed(Upstreams)
    \/ \E p \in Queries, n \in 1 .. Upstreams :
         /\ NameAndType(asked[p]) = NameAndType(asked[q])
         /\ heard[p] = Append(Failed(n - 1), answer[q].rcode)

\* The same for every client, cache hits included: "Dynamically injects host
\* routes for resolved IPs through the VPN tunnel" (README.md:256).
RoutesBeforeAnswer ==
  \A q \in Queries : pc[q] = "done" => answer[q].ips \subseteq offered

\* Every query is answered, whatever the upstream servers do: time and again
\* there is none that still waits.
EveryQueryAnswered ==
  []<>(\A q \in Queries : pc[q] \in {"idle", "done"})
=============================================================================
