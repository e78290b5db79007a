----------------------------- MODULE MCSplitDNS -----------------------------
(* Model-checking instances of SplitDNS: queries for the A and the AAAA      *)
(* record of one name, for another name and in another class.               *)
EXTENDS SplitDNS, TLC

CONSTANTS q1, q2, q3, ip1

ThreeQueries == {q1, q2, q3}
OneAddress   == {ip1}

aA    == [name |-> "a", qtype |-> "A", class |-> "IN"]
aAAAA == [name |-> "a", qtype |-> "AAAA", class |-> "IN"]
aCH   == [name |-> "a", qtype |-> "A", class |-> "CH"]
bA    == [name |-> "b", qtype |-> "A", class |-> "IN"]

\* More keys than a cache of two holds, and two questions with one key.
FourQuestions == {aA, aAAAA, aCH, bA}

\* Queries are alike, and so are keys: all that matters is who shares one, all
\* queries, two of them or none.
SharedKeys ==
  { q1 :> aA @@ q2 :> aCH   @@ q3 :> aA,
    q1 :> aA @@ q2 :> aCH   @@ q3 :> aAAAA,
    q1 :> aA @@ q2 :> aAAAA @@ q3 :> bA }

SharedInit == Init /\ asked \in SharedKeys

\* FairSpec from these initial states.
SharedSpec == SharedInit /\ [][Next]_vars /\ Fairness

NS(ttl)          == [soa |-> FALSE, ttl |-> ttl, minttl |-> 0]
SOA(ttl, minttl) == [soa |-> TRUE, ttl |-> ttl, minttl |-> minttl]

Empty == [rcode |-> "success", ips |-> {}, answer |-> <<>>, ns |-> <<>>, extra |-> <<>>]

\* An address, with records in all sections; one with a TTL of 0 at the end, which
\* may not be kept; and a failure of the server's own, which may: it has an SOA.
MCContent ==
  [ address  |-> [Empty EXCEPT !.ips = {ip1}, !.answer = <<5, 4>>, !.ns = <<NS(2)>>,
                               !.extra = <<3>>],
    zeroLast |-> [Empty EXCEPT !.ips = {ip1}, !.answer = <<5, 0>>],
    failure  |-> [Empty EXCEPT !.rcode = "servfail", !.answer = <<0>>,
                               !.ns = <<SOA(9, 2)>>, !.extra = <<0>>] ]

MCMessages == DOMAIN MCContent

Symmetry == Permutations(ThreeQueries)
=============================================================================
