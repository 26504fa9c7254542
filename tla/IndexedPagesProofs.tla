-------------------------- MODULE IndexedPagesProofs --------------------------
(***************************************************************************)
(* Theorems about the reading of paged indexes, for any indexes, page      *)
(* sizes and limits: what a complete read or a followed cursor returns is  *)
(* exactly the rows asked for, and the limits stop only reads beyond them. *)
(*                                                                         *)
(* The invariant is a bookkeeping of positions: an open stream has         *)
(* gathered or listed just what it keeps of the rows before its key, a     *)
(* finished one of all rows.  A service whose keys lead nowhere has no     *)
(* such count; there it is enough that it never ends its listing, unless   *)
(* its first page was everything.                                          *)
(***************************************************************************)
EXTENDS IndexedPages, FiniteSetTheorems, SequenceTheorems, WellFoundedInduction, TLAPS

-----------------------------------------------------------------------------
(* Lists *)

\* No member stands twice in a list.
Injective(list) == \A i, k \in DOMAIN list : list[i] = list[k] => i = k
First(list, n)  == {list[i] : i \in 1..n}

\* A set of numbers has a smallest.
LEMMA SmallestOf ==
  ASSUME NEW S \in SUBSET Nat, S # {}
  PROVE  \E n \in S : \A m \in S : n <= m
<1>1. PICK n \in S : \A m \in S : ~(<<m, n>> \in OpToRel(<, Nat))
  BY NatLessThanWellFounded, WFMin, Zenon
<1>2. ASSUME NEW m \in S PROVE n <= m
  <2>1. m \in Nat /\ n \in Nat
    OBVIOUS
  <2>2. ~(m < n)
    BY <1>1, <2>1 DEF OpToRel
  <2> QED BY <2>1, <2>2
<1> QED BY <1>2

\* The members of a list are those at its places.
LEMMA MembersAre ==
  ASSUME NEW E, NEW list \in Seq(E)
  PROVE  /\ Len(list) \in Nat /\ DOMAIN list = 1..Len(list)
         /\ ToSet(list) = First(list, Len(list)) /\ ToSet(list) \subseteq E
<1>1. Len(list) \in Nat /\ DOMAIN list = 1..Len(list) /\ \A i \in 1..Len(list) : list[i] \in E
  OBVIOUS
<1> QED BY <1>1 DEF ToSet, First

\* Nothing is a list of nothing.
LEMMA NothingListed ==
  ASSUME NEW E
  PROVE  <<>> \in Seq(E) /\ Len(<<>>) = 0 /\ ToSet(<<>>) = {} /\ Injective(<<>>)
<1>1. <<>> \in Seq(E) /\ Len(<<>>) = 0 /\ DOMAIN <<>> = {}
  OBVIOUS
<1>2. ToSet(<<>>) = {}
  <2>1. DOMAIN <<>> = {} OBVIOUS
  <2> QED BY <2>1 DEF ToSet
<1> QED BY <1>1, <1>2 DEF Injective

\* Two lists, one after the other.
LEMMA ListsAfterAnother ==
  ASSUME NEW E, NEW s \in Seq(E), NEW t \in Seq(E)
  PROVE  /\ s \o t \in Seq(E) /\ Len(s \o t) = Len(s) + Len(t)
         /\ ToSet(s \o t) = ToSet(s) \cup ToSet(t)
         /\ Injective(s) /\ Injective(t) /\ ToSet(s) \cap ToSet(t) = {} => Injective(s \o t)
<1> DEFINE u == s \o t
<1>1. /\ u \in Seq(E) /\ Len(u) = Len(s) + Len(t)
      /\ \A i \in 1..Len(u) : u[i] = IF i <= Len(s) THEN s[i] ELSE t[i - Len(s)]
  BY ConcatProperties
<1> HIDE DEF u
<1>2. /\ Len(s) \in Nat /\ DOMAIN s = 1..Len(s) /\ Len(t) \in Nat /\ DOMAIN t = 1..Len(t)
      /\ DOMAIN u = 1..(Len(s) + Len(t))
  BY <1>1
<1>3. \A i \in DOMAIN s : i \in DOMAIN u /\ u[i] = s[i]
  BY <1>1, <1>2
<1>4. \A i \in DOMAIN t : Len(s) + i \in DOMAIN u /\ u[Len(s) + i] = t[i]
  BY <1>1, <1>2
<1>5. \A i \in DOMAIN u : (i \in DOMAIN s /\ u[i] = s[i]) \/ (i - Len(s) \in DOMAIN t /\ u[i] = t[i - Len(s)])
  BY <1>1, <1>2
<1>6. ToSet(u) = ToSet(s) \cup ToSet(t)
  <2>1. ToSet(u) \subseteq ToSet(s) \cup ToSet(t)
    BY <1>5 DEF ToSet
  <2>2. ToSet(s) \subseteq ToSet(u)
    BY <1>3 DEF ToSet
  <2>3. ToSet(t) \subseteq ToSet(u)
    BY <1>4 DEF ToSet
  <2> QED BY <2>1, <2>2, <2>3
<1>7. ASSUME Injective(s), Injective(t), ToSet(s) \cap ToSet(t) = {}
      PROVE  Injective(u)
  <2> SUFFICES ASSUME NEW i \in DOMAIN u, NEW k \in DOMAIN u, u[i] = u[k] PROVE i = k
    BY DEF Injective
  <2>1. \A n \in DOMAIN s : s[n] \in ToSet(s)
    BY DEF ToSet
  <2>2. \A n \in DOMAIN t : t[n] \in ToSet(t)
    BY DEF ToSet
  <2>3. CASE i \in DOMAIN s /\ u[i] = s[i]
    BY <2>3, <2>1, <2>2, <1>5, <1>7 DEF Injective
  <2>4. CASE i - Len(s) \in DOMAIN t /\ u[i] = t[i - Len(s)]
    <3>1. k - Len(s) \in DOMAIN t /\ u[k] = t[k - Len(s)]
      BY <2>4, <2>1, <2>2, <1>5, <1>7
    <3>2. i - Len(s) = k - Len(s)
      BY <2>4, <3>1, <1>7 DEF Injective
    <3> QED BY <3>2, <1>2
  <2> QED BY <2>3, <2>4, <1>5
<1> QED BY <1>1, <1>6, <1>7 DEF u

\* What a filter keeps: the members that are in the set, in their order.
LEMMA AmongIs ==
  ASSUME NEW E, NEW set, NEW list \in Seq(E)
  PROVE  /\ Among(set, list) \in Seq(E) /\ Len(Among(set, list)) <= Len(list)
         /\ ToSet(Among(set, list)) = ToSet(list) \cap set
         /\ Injective(list) => Injective(Among(set, list))
<1> DEFINE Step(before, n) == IF list[n] \in set THEN Append(before, list[n]) ELSE before
           Seen(n) == First(list, n) \cap set
           Good(kept, n) == /\ kept \in Seq(E) /\ Len(kept) <= n /\ ToSet(kept) = Seen(n)
                            /\ Injective(list) => Injective(kept)
           Is(kept, l) == kept = [n \in 0..l |-> IF n = 0 THEN <<>> ELSE Step(kept[n - 1], n)]
           Has(l) == \E kept : Is(kept, l) /\ \A n \in 0..l : Good(kept[n], n)
           bad == {l \in 0..Len(list) : ~Has(l)}
<1>0. Len(list) \in Nat /\ DOMAIN list = 1..Len(list)
  BY MembersAre
<1>a. Good(<<>>, 0)
  <2>1. Seen(0) = {}
    <3>1. 1..0 = {}
      OBVIOUS
    <3> QED BY <3>1 DEF First
  <2>2. <<>> \in Seq(E) /\ Len(<<>>) = 0 /\ ToSet(<<>>) = {} /\ Injective(<<>>)
    BY NothingListed
  <2>3. Len(<<>>) <= 0
    BY <2>2
  <2> HIDE DEF Seen
  <2> QED BY <2>1, <2>2, <2>3
<1>b. ASSUME NEW before, NEW n \in 1..Len(list), Good(before, n - 1)
      PROVE  Good(Step(before, n), n)
  <2>1. First(list, n) = First(list, n - 1) \cup {list[n]}
    <3>1. 1..n = 1..(n - 1) \cup {n}
      BY <1>0
    <3> QED BY <3>1 DEF First
  <2>2. n \in Nat /\ list[n] \in E
    BY <1>0
  <2>3. CASE list[n] \notin set
    <3>1. Seen(n) = Seen(n - 1)
      BY <2>1, <2>3
    <3>2. before \in Seq(E) /\ Len(before) <= n
      BY <1>b, <2>2
    <3> HIDE DEF Seen
    <3> QED BY <1>b, <2>3, <3>1, <3>2
  <2>4. CASE list[n] \in set
    <3>1. Seen(n) = Seen(n - 1) \cup {list[n]}
      BY <2>1, <2>4
    <3> DEFINE one == <<list[n]>>
    <3>2. one \in Seq(E) /\ Len(one) = 1 /\ ToSet(one) = {list[n]} /\ Injective(one)
      <4> DEFINE x == list[n]
      <4> HIDE DEF x
      <4>1. DOMAIN <<x>> = {1} /\ <<x>>[1] = x /\ Len(<<x>>) = 1
        OBVIOUS
      <4>2. ToSet(<<x>>) = {x} /\ Injective(<<x>>)
        BY <4>1 DEF ToSet, Injective
      <4>3. <<x>> \in Seq(E)
        BY <2>2 DEF x
      <4> QED BY <4>1, <4>2, <4>3 DEF x
    <3>3. Append(before, list[n]) = before \o one
      BY <1>b, <2>2
    <3> HIDE DEF one
    <3>4. /\ before \o one \in Seq(E) /\ Len(before \o one) <= n
          /\ ToSet(before \o one) = Seen(n)
      <4> HIDE DEF Seen
      <4>1. before \in Seq(E) /\ Len(before) \in Nat /\ Len(before) <= n - 1 /\ ToSet(before) = Seen(n - 1)
        BY <1>b
      <4>2. /\ before \o one \in Seq(E) /\ Len(before \o one) = Len(before) + Len(one)
            /\ ToSet(before \o one) = ToSet(before) \cup ToSet(one)
        <5>1. before \in Seq(E) /\ one \in Seq(E)
          BY <4>1, <3>2
        <5> HIDE DEF Good, Step, Is, Has, bad
        <5> QED BY <5>1, ListsAfterAnother
      <4> QED BY <4>1, <4>2, <2>2, <3>1, <3>2
    <3>5. ASSUME Injective(list) PROVE Injective(before \o one)
      <4>1. list[n] \notin First(list, n - 1)
        BY <3>5, <1>0 DEF First, Injective
      <4>2. ToSet(before) \cap ToSet(one) = {}
        BY <4>1, <3>2, <1>b
      <4> HIDE DEF Seen
      <4> QED BY <4>2, <3>2, <3>5, <1>b, ListsAfterAnother
    <3> HIDE DEF Seen
    <3> QED BY <2>4, <3>3, <3>4, <3>5
  <2> HIDE DEF Good, Step
  <2> QED BY <2>3, <2>4
<1>1. bad = {}
  <2> SUFFICES ASSUME bad # {} PROVE FALSE
    OBVIOUS
  <2> HIDE DEF Good
  <2>1. PICK l \in bad : \A m \in bad : l <= m
    <3>1. bad \in SUBSET Nat
      OBVIOUS
    <3> HIDE DEF bad
    <3> QED BY <3>1, SmallestOf
  <2>2. l \in 0..Len(list) /\ ~Has(l)
    <3> HIDE DEF Has
    <3> QED OBVIOUS
  <2>3. l # 0
    <3> DEFINE k == [n \in 0..0 |-> <<>>]
    <3>1. Is(k, 0)
      OBVIOUS
    <3>2. \A n \in 0..0 : Good(k[n], n)
      BY <1>a
    <3> QED BY <3>1, <3>2, <2>2
  <2>4. l - 1 \in 0..Len(list) /\ l - 1 \notin bad
    <3>1. l - 1 \in 0..Len(list) /\ ~(l <= l - 1)
      BY <2>2, <2>3, <1>0
    <3> HIDE DEF bad
    <3> QED BY <3>1, <2>1
  <2>5. PICK k : Is(k, l - 1) /\ \A n \in 0..(l - 1) : Good(k[n], n)
    <3>1. Has(l - 1)
      <4> HIDE DEF Has
      <4> QED BY <2>4
    <3> HIDE DEF Is
    <3> QED BY <3>1
  <2> DEFINE j == [n \in 0..l |-> IF n = l THEN Step(k[l - 1], l) ELSE k[n]]
  <2>6. \A n \in 0..(l - 1) : j[n] = k[n]
    BY <2>2, <2>3
  <2>7. j[l] = Step(j[l - 1], l)
    BY <2>2, <2>3, <2>6
  <2>8. \A n \in 0..(l - 1) : j[n] = IF n = 0 THEN <<>> ELSE Step(j[n - 1], n)
    <3> SUFFICES ASSUME NEW n \in 0..(l - 1) PROVE j[n] = IF n = 0 THEN <<>> ELSE Step(j[n - 1], n)
      OBVIOUS
    <3>1. k[n] = IF n = 0 THEN <<>> ELSE Step(k[n - 1], n)
      BY <2>5
    <3>2. n # 0 => n - 1 \in 0..(l - 1)
      BY <2>2
    <3> HIDE DEF Step, j
    <3> QED BY <3>1, <3>2, <2>6
  <2>9. Is(j, l)
    <3>1. \A n \in 0..l : n \in 0..(l - 1) \/ (n = l /\ n # 0)
      BY <2>2, <2>3
    <3>2. \A n \in 0..l : j[n] = IF n = 0 THEN <<>> ELSE Step(j[n - 1], n)
      <4> HIDE DEF j, Step
      <4> QED BY <2>7, <2>8, <3>1
    <3>3. j = [n \in 0..l |-> j[n]]
      OBVIOUS
    <3> HIDE DEF j, Step
    <3> QED BY <3>2, <3>3
  <2>10. Good(j[l], l)
    <3>1. l \in 1..Len(list) /\ l - 1 \in 0..(l - 1)
      BY <2>2, <2>3, <1>0
    <3>2. Good(j[l - 1], l - 1)
      BY <3>1, <2>5, <2>6
    <3> HIDE DEF j, Is, bad, Step
    <3> QED BY <3>1, <3>2, <2>7, <1>b
  <2>11. \A n \in 0..l : Good(j[n], n)
    <3>1. \A n \in 0..l : n \in 0..(l - 1) \/ n = l
      BY <2>2, <2>3
    <3> HIDE DEF j, Is, bad
    <3> QED BY <3>1, <2>5, <2>6, <2>10
  <2> HIDE DEF j, Is
  <2> QED BY <2>2, <2>9, <2>11
<1>2. PICK some : Is(some, Len(list)) /\ \A n \in 0..Len(list) : Good(some[n], n)
  <2>1. Len(list) \in 0..Len(list)
    BY <1>0
  <2>2. Has(Len(list))
    <3> HIDE DEF Has
    <3> QED BY <1>1, <2>1
  <2> HIDE DEF Is, Good
  <2> QED BY <2>2
<1> DEFINE k == CHOOSE kept : Is(kept, Len(list))
<1>3. Among(set, list) = k[Len(list)]
  BY DEF Among
<1>4. Is(k, Len(list))
  <2> HIDE DEF Is, Good
  <2> QED BY <1>2
<1> HIDE DEF k, Good
<1>5. \A n \in 0..Len(list) : k[n] = some[n]
  <2> DEFINE off == {n \in 0..Len(list) : k[n] # some[n]}
  <2> SUFFICES ASSUME off # {} PROVE FALSE
    OBVIOUS
  <2>1. off \in SUBSET Nat
    OBVIOUS
  <2>2. PICK n \in off : \A m \in off : n <= m
    <3> HIDE DEF off
    <3> QED BY <2>1, SmallestOf
  <2>3. n # 0
    BY <1>2, <1>4
  <2>4. n - 1 \in 0..Len(list) /\ n - 1 \notin off
    <3>1. n - 1 \in 0..Len(list) /\ ~(n <= n - 1)
      BY <2>3, <1>0
    <3> HIDE DEF off
    <3> QED BY <3>1, <2>2
  <2>5. k[n - 1] = some[n - 1]
    BY <2>4
  <2>6. k[n] = Step(k[n - 1], n) /\ some[n] = Step(some[n - 1], n)
    BY <2>3, <1>2, <1>4
  <2> QED BY <2>5, <2>6
<1>6. Good(Among(set, list), Len(list))
  BY <1>0, <1>2, <1>3, <1>5
<1> QED BY <1>6, MembersAre DEF Good

-----------------------------------------------------------------------------
(* The index *)

\* What a job is about.
LEMMA JobIs ==
  ASSUME NEW j \in Jobs
  PROVE  /\ j.provider \in Providers /\ j.direction \in Directions /\ j.keys \in Endings
         /\ j.mode \in {"pages", "complete", "address"}
         /\ j.mode = "address" => j.subject = "transactions"
         /\ j.provider = "alchemy" => j.subject \in {"transactions", "erc20"} \/ (j.subject = "internal" /\ j.mode = "complete")
         /\ j.subject = "holdings" => j.provider = "etherscan"
         /\ PageSize \in Nat \ {0} /\ MaxRecords \in Nat \ {0}
  BY PagesAssumption, JobsAssumption

\* Rows are told apart by their places; an outdated copy is followed by its transfer.
LEMMA RowsAre ==
  ASSUME NEW j \in Jobs
  PROVE  /\ j.rows \in Seq(Row) /\ Injective(j.rows) /\ ToSet(j.rows) \subseteq Row
         /\ \A r, q \in ToSet(j.rows) : r.pos = q.pos => r = q
         /\ \A r \in ToSet(j.rows) :
              /\ r.pos \in Nat
              /\ r.stale => /\ j.provider = "alchemy" /\ j.subject = "erc20"
                            /\ \E n \in ToSet(j.rows) : n.pos = r.pos + 1 /\ n.way = r.way
              /\ r.outside => j.mode = "address"
<1>1. j.rows \in Seq(Row)
  BY PagesAssumption
<1>2. Len(j.rows) \in Nat /\ DOMAIN j.rows = 1..Len(j.rows)
  BY <1>1
<1>3. \A i \in DOMAIN j.rows :
        /\ j.rows[i].pos = i
        /\ j.rows[i].stale => /\ j.provider = "alchemy" /\ j.subject = "erc20"
                              /\ i + 1 \in DOMAIN j.rows /\ j.rows[i + 1].way = j.rows[i].way
        /\ j.rows[i].outside => j.mode = "address"
  BY JobsAssumption
<1>4. Injective(j.rows)
  BY <1>3 DEF Injective
<1>5. ASSUME NEW r \in ToSet(j.rows), NEW q \in ToSet(j.rows), r.pos = q.pos
      PROVE  r = q
  BY <1>3, <1>5 DEF ToSet
<1>6. ASSUME NEW r \in ToSet(j.rows)
      PROVE  /\ r.pos \in Nat
             /\ r.stale => /\ j.provider = "alchemy" /\ j.subject = "erc20"
                           /\ \E n \in ToSet(j.rows) : n.pos = r.pos + 1 /\ n.way = r.way
             /\ r.outside => j.mode = "address"
  <2>1. PICK i \in DOMAIN j.rows : r = j.rows[i]
    BY DEF ToSet
  <2>2. r.pos = i /\ i \in Nat
    BY <2>1, <1>2, <1>3
  <2>3. r.outside => j.mode = "address"
    BY <2>1, <1>3
  <2>4. ASSUME r.stale
        PROVE  /\ j.provider = "alchemy" /\ j.subject = "erc20"
               /\ \E n \in ToSet(j.rows) : n.pos = r.pos + 1 /\ n.way = r.way
    <3>1. /\ j.provider = "alchemy" /\ j.subject = "erc20"
          /\ i + 1 \in DOMAIN j.rows /\ j.rows[i + 1].way = r.way
      BY <2>1, <2>4, <1>3
    <3>2. j.rows[i + 1] \in ToSet(j.rows) /\ j.rows[i + 1].pos = i + 1
      BY <3>1, <1>3 DEF ToSet
    <3> QED BY <3>1, <3>2, <2>2
  <2> QED BY <2>2, <2>3, <2>4
<1> QED BY <1>1, <1>4, <1>5, <1>6, MembersAre

\* The side that a stream of Alchemy asks for.
Side(j, s) == IF TwoStreams(j) THEN s ELSE j.direction

\* What the service serves: rows of the index, each once.
LEMMA UpstreamIs ==
  ASSUME NEW j \in Jobs, NEW s
  PROVE  /\ Upstream(j, s) \in Seq(Row) /\ Injective(Upstream(j, s))
         /\ Len(Upstream(j, s)) \in Nat /\ Len(Upstream(j, s)) <= Len(j.rows)
         /\ j.provider # "alchemy" => Upstream(j, s) = j.rows
         /\ ToSet(Upstream(j, s)) =
              {r \in ToSet(j.rows) : j.provider = "alchemy" => DirectionMatches(r, Side(j, s))}
<1>1. CASE j.provider # "alchemy"
  <2>1. Upstream(j, s) = j.rows
    BY <1>1 DEF Upstream
  <2> QED BY <2>1, <1>1, RowsAre, MembersAre
<1>2. CASE j.provider = "alchemy"
  <2> DEFINE set == {r \in ToSet(j.rows) : DirectionMatches(r, Side(j, s))}
  <2>1. Upstream(j, s) = Among(set, j.rows)
    BY <1>2 DEF Upstream, Side
  <2> HIDE DEF set
  <2>2. /\ Among(set, j.rows) \in Seq(Row) /\ Len(Among(set, j.rows)) <= Len(j.rows)
        /\ ToSet(Among(set, j.rows)) = ToSet(j.rows) \cap set
        /\ Injective(Among(set, j.rows))
    BY RowsAre, AmongIs
  <2>3. Len(Among(set, j.rows)) \in Nat
    BY <2>2
  <2> QED BY <2>1, <2>2, <2>3, <1>2 DEF set
<1> QED BY <1>1, <1>2

\* There are finitely many members of a list.
LEMMA MembersAreFinite ==
  ASSUME NEW E, NEW list \in Seq(E)
  PROVE  /\ IsFiniteSet(ToSet(list)) /\ Cardinality(ToSet(list)) <= Len(list)
         /\ Injective(list) => Cardinality(ToSet(list)) = Len(list)
<1>1. Len(list) \in Nat /\ DOMAIN list = 1..Len(list) /\ list \in [1..Len(list) -> E]
  OBVIOUS
<1>2. list \in Surjection(1..Len(list), ToSet(list))
  BY <1>1 DEF Surjection, ToSet
<1>3. IsFiniteSet(1..Len(list)) /\ Cardinality(1..Len(list)) = Len(list)
  BY <1>1, FS_Interval
<1>4. /\ IsFiniteSet(ToSet(list)) /\ Cardinality(ToSet(list)) <= Len(list)
      /\ Cardinality(ToSet(list)) = Cardinality(1..Len(list)) <=> list \in Injection(1..Len(list), ToSet(list))
  BY <1>2, <1>3, FS_Surjection
<1>5. Injective(list) => list \in Injection(1..Len(list), ToSet(list))
  BY <1>1, <1>2 DEF Injective, Injection, IsInjective, Surjection
<1> QED BY <1>3, <1>4, <1>5

\* Rows that are put in order are the same rows, each once.
LEMMA InOrderIs ==
  ASSUME NEW j \in Jobs, NEW S \in SUBSET ToSet(j.rows)
  PROVE  InOrder(j, S) \in Seq(Row) /\ Injective(InOrder(j, S)) /\ ToSet(InOrder(j, S)) = S
<1>1. /\ Among(S, j.rows) \in Seq(Row) /\ ToSet(Among(S, j.rows)) = ToSet(j.rows) \cap S
      /\ Injective(Among(S, j.rows))
  BY RowsAre, AmongIs
<1> QED BY <1>1 DEF InOrder

-----------------------------------------------------------------------------
(* Pages and keys *)

\* The keys lead through all pages, one after the other.
Plain(j) == j.keys \in {"exact", "late"} \/ (j.provider = "etherscan" /\ j.keys = "same")

\* The page that a key stands for, the rows before it and those up to its end.
At(j, key)     == IF j.keys = "stuck" THEN 1 ELSE key
Before(j, key) == (At(j, key) - 1) * PageSize
Upto(j, s, key) ==
  IF Before(j, key) + PageSize < Len(Upstream(j, s)) THEN Before(j, key) + PageSize ELSE Len(Upstream(j, s))

\* A key of a page, or of the empty one after the last.
GoodKey(j, s, key) ==
  /\ key \in Nat \ {0} /\ Before(j, key) <= Len(Upstream(j, s))
  /\ ~Plain(j) => key \in {1, 2} /\ At(j, key) = 1

\* Whole pages.
LEMMA WholePages ==
  ASSUME NEW k \in Nat \ {0}
  PROVE  /\ PageSize \in Nat \ {0} /\ (k - 1) * PageSize \in Nat
         /\ k * PageSize = (k - 1) * PageSize + PageSize
         /\ ((k + 1) - 1) * PageSize = k * PageSize
<1>1. PageSize \in Nat \ {0}
  BY PagesAssumption
<1> DEFINE p == PageSize
           m == k - 1
<1>2. p \in Nat /\ m \in Nat /\ k = m + 1
  BY <1>1
<1> HIDE DEF p, m
<1>3. m * p \in Nat /\ (m + 1) * p = m * p + p
  BY <1>2
<1>4. (k - 1) * p \in Nat /\ k * p = (k - 1) * p + p
  BY <1>2, <1>3 DEF m
<1>5. (k + 1) - 1 = k
  OBVIOUS
<1> QED BY <1>1, <1>4, <1>5 DEF p

\* A page is the next rows of its stream.
LEMMA PageIs ==
  ASSUME NEW j \in Jobs, NEW s, NEW key, GoodKey(j, s, key)
  PROVE  /\ PageAt(j, s, key) \in Seq(Row) /\ Injective(PageAt(j, s, key))
         /\ Before(j, key) \in Nat /\ Upto(j, s, key) \in Nat
         /\ Before(j, key) <= Upto(j, s, key) /\ Upto(j, s, key) <= Len(Upstream(j, s))
         /\ Upto(j, s, key) <= Before(j, key) + PageSize
         /\ Len(PageAt(j, s, key)) = Upto(j, s, key) - Before(j, key)
         /\ First(Upstream(j, s), Upto(j, s, key)) =
              First(Upstream(j, s), Before(j, key)) \cup ToSet(PageAt(j, s, key))
         /\ First(Upstream(j, s), Before(j, key)) \cap ToSet(PageAt(j, s, key)) = {}
<1> DEFINE U == Upstream(j, s)
           a == Before(j, key)
           b == Upto(j, s, key)
           page == PageAt(j, s, key)
<1>1. U \in Seq(Row) /\ Injective(U) /\ Len(U) \in Nat /\ DOMAIN U = 1..Len(U)
  BY UpstreamIs
<1>2. PageSize \in Nat \ {0}
  BY PagesAssumption
<1>3. At(j, key) \in Nat \ {0}
  BY DEF At, GoodKey
<1>4. /\ a \in Nat /\ a <= Len(U)
      /\ (At(j, key) - 1) * PageSize = a /\ At(j, key) * PageSize = a + PageSize
  BY <1>3, WholePages DEF Before, GoodKey
<1>5. b \in Nat /\ a <= b /\ b <= Len(U) /\ b <= a + PageSize
  BY <1>1, <1>2, <1>4 DEF Upto
<1>6. page = SubSeq(U, a + 1, b)
  BY <1>4 DEF PageAt, At, Upto
<1> HIDE DEF U, a, b, page
<1>7. /\ page \in Seq(Row) /\ Len(page) = b - a
      /\ \A i \in 1..(b - a) : page[i] = U[a + i]
  <2>1. a + 1 \in Int /\ b \in Int /\ b - (a + 1) + 1 = b - a
    BY <1>4, <1>5
  <2>2. \A i \in (a + 1)..b : U[i] \in Row
    BY <1>1, <1>4, <1>5
  <2>3. /\ SubSeq(U, a + 1, b) \in Seq(Row)
        /\ Len(SubSeq(U, a + 1, b)) = IF a + 1 <= b THEN b - (a + 1) + 1 ELSE 0
        /\ \A i \in 1..(b - (a + 1) + 1) : SubSeq(U, a + 1, b)[i] = U[(a + 1) + i - 1]
    BY <2>1, <2>2, SubSeqProperties
  <2>4. Len(page) = b - a
    BY <2>1, <2>3, <1>4, <1>5, <1>6
  <2>5. \A i \in 1..(b - a) : (a + 1) + i - 1 = a + i
    BY <1>4
  <2> QED BY <2>1, <2>3, <2>4, <2>5, <1>6
<1>8. DOMAIN page = 1..(b - a)
  BY <1>7
<1>9. Injective(page)
  <2> SUFFICES ASSUME NEW i \in 1..(b - a), NEW k \in 1..(b - a), page[i] = page[k] PROVE i = k
    BY <1>8 DEF Injective
  <2>1. a + i \in DOMAIN U /\ a + k \in DOMAIN U /\ U[a + i] = U[a + k]
    BY <1>1, <1>4, <1>5, <1>7
  <2>2. a + i = a + k
    BY <2>1, <1>1 DEF Injective
  <2> QED BY <2>2, <1>4
<1>10. \A i \in 1..b : i \in 1..a \/ i - a \in 1..(b - a)
  BY <1>4, <1>5
<1>11. First(U, b) \subseteq First(U, a) \cup ToSet(page)
  <2> SUFFICES ASSUME NEW i \in 1..b PROVE U[i] \in First(U, a) \cup ToSet(page)
    BY DEF First
  <2>1. CASE i \in 1..a
    BY <2>1 DEF First
  <2>2. CASE i - a \in 1..(b - a)
    <3>1. page[i - a] = U[i]
      BY <2>2, <1>7, <1>4
    <3> QED BY <3>1, <2>2, <1>8 DEF ToSet
  <2> QED BY <2>1, <2>2, <1>10
<1>12. First(U, a) \cup ToSet(page) \subseteq First(U, b)
  <2>1. \A i \in 1..a : i \in 1..b
    BY <1>4, <1>5
  <2>2. \A i \in 1..(b - a) : a + i \in 1..b
    BY <1>4, <1>5
  <2>3. First(U, a) \subseteq First(U, b)
    BY <2>1 DEF First
  <2>4. ToSet(page) \subseteq First(U, b)
    BY <2>2, <1>7, <1>8 DEF ToSet, First
  <2> QED BY <2>3, <2>4
<1>13. First(U, a) \cap ToSet(page) = {}
  <2> SUFFICES ASSUME NEW i \in 1..a, NEW k \in 1..(b - a), U[i] = page[k] PROVE FALSE
    BY <1>8 DEF First, ToSet
  <2>1. i \in DOMAIN U /\ a + k \in DOMAIN U /\ U[i] = U[a + k] /\ i # a + k
    BY <1>1, <1>4, <1>5, <1>7
  <2> QED BY <2>1, <1>1 DEF Injective
<1> QED BY <1>4, <1>5, <1>7, <1>9, <1>11, <1>12, <1>13 DEF U, a, b, page

\* The key after a page: the next page, or none once all rows are read; a service whose keys lead
\* nowhere ends its listing only after a first page that is everything.
LEMMA NextIs ==
  ASSUME NEW j \in Jobs, NEW s, NEW key, GoodKey(j, s, key)
  PROVE  /\ NextKey(j, s, key) = 0 =>
              /\ Upto(j, s, key) = Len(Upstream(j, s))
              /\ ~Plain(j) => Before(j, key) = 0
         /\ NextKey(j, s, key) # 0 =>
              /\ GoodKey(j, s, NextKey(j, s, key))
              /\ Plain(j) => /\ NextKey(j, s, key) = key + 1 /\ Before(j, key + 1) = Upto(j, s, key)
                             /\ Upto(j, s, key) = key * PageSize
              /\ ~Plain(j) => \A k \in {1, 2} : NextKey(j, s, k) # 0
<1> DEFINE U == Upstream(j, s)
           a == Before(j, key)
           b == Upto(j, s, key)
           next == NextKey(j, s, key)
           length == Len(PageAt(j, s, key))
<1>1. Len(U) \in Nat /\ PageSize \in Nat \ {0} /\ j.provider \in Providers /\ j.keys \in Endings
  BY UpstreamIs, JobIs
<1>2. /\ a \in Nat /\ b \in Nat /\ a <= b /\ b <= Len(U) /\ length = b - a
      /\ b = IF a + PageSize < Len(U) THEN a + PageSize ELSE Len(U)
  BY PageIs DEF Upto
<1>3. key \in Nat \ {0} /\ (~Plain(j) => key \in {1, 2} /\ At(j, key) = 1)
  BY DEF GoodKey
<1>4. length >= PageSize <=> a + PageSize <= Len(U)
  BY <1>1, <1>2
<1>5. length < PageSize => b = Len(U)
  BY <1>1, <1>2
<1>6. CASE Plain(j)
  <2>1. At(j, key) = key /\ At(j, key + 1) = key + 1
    BY <1>6 DEF Plain, At
  <2>2. a = (key - 1) * PageSize /\ Before(j, key + 1) = key * PageSize /\ key * PageSize = a + PageSize
    BY <2>1, <1>3, WholePages DEF Before
  <2>3. \/ j.provider = "etherscan" /\ next = IF length >= PageSize THEN key + 1 ELSE 0
        \/ j.provider # "etherscan" /\ next = IF key * PageSize < Len(U) THEN key + 1 ELSE 0
        \/ j.provider # "etherscan" /\ next = IF length = PageSize THEN key + 1 ELSE 0
    BY <1>6 DEF NextKey, NextPage, Plain
  <2> HIDE DEF U, a, b, next, length
  <2>4. next = 0 => b = Len(U)
    BY <2>2, <2>3, <1>1, <1>2, <1>3, <1>5
  <2>5. next # 0 => next = key + 1 /\ a + PageSize <= Len(U)
    BY <2>2, <2>3, <1>1, <1>2, <1>3, <1>4
  <2>6. next # 0 => b = key * PageSize
    BY <2>2, <2>5, <1>1, <1>2
  <2>7. next # 0 => GoodKey(j, s, key + 1)
    BY <2>2, <2>5, <1>3, <1>6 DEF GoodKey, U
  <2> QED BY <2>2, <2>4, <2>5, <2>6, <2>7, <1>6 DEF U, a, b, next, length
<1>7. CASE ~Plain(j) /\ j.keys = "stuck"
  <2>1. \A k \in {1, 2} : At(j, k) = 1 /\ Before(j, k) = 0 /\ PageAt(j, s, k) = PageAt(j, s, key)
    <3>1. \A k : At(j, k) = 1
      BY <1>7 DEF At
    <3>2. \A k : Before(j, k) = 0
      BY <3>1, <1>1 DEF Before
    <3>3. \A k : PageAt(j, s, k) = PageAt(j, s, key)
      BY <1>7 DEF PageAt
    <3> QED BY <3>1, <3>2, <3>3
  <2>2. ASSUME NEW k \in {1, 2}
        PROVE  NextKey(j, s, k) = IF j.provider = "etherscan"
                                  THEN IF length >= PageSize THEN 3 - k ELSE 0
                                  ELSE 3 - k
    <3>1. Len(PageAt(j, s, k)) = length
      BY <2>1
    <3>2. (IF k = 2 THEN 0 ELSE k) + 1 = 3 - k
      BY <2>2
    <3> HIDE DEF length
    <3> QED BY <3>1, <3>2, <1>7 DEF NextKey, NextPage
  <2>3. key \in {1, 2} /\ a = 0
    BY <1>3, <1>7, <2>1
  <2>4. next = 0 => length < PageSize
    BY <2>2, <2>3, <1>1, <1>2
  <2>5. next # 0 => \A k \in {1, 2} : NextKey(j, s, k) # 0 /\ NextKey(j, s, k) \in {1, 2}
    <3> HIDE DEF length
    <3> QED BY <2>2, <2>3
  <2>6. next # 0 => GoodKey(j, s, next)
    <3>1. next # 0 => next \in {1, 2}
      BY <2>3, <2>5
    <3>2. next # 0 => Before(j, next) <= Len(U) /\ At(j, next) = 1
      BY <3>1, <2>1, <1>1
    <3> HIDE DEF next
    <3> QED BY <3>1, <3>2, <1>7 DEF GoodKey, U
  <2> QED BY <2>3, <2>4, <2>5, <2>6, <1>5, <1>7
<1>8. CASE ~Plain(j) /\ j.keys # "stuck"
  <2>1. j.keys = "same" /\ j.provider # "etherscan"
    BY <1>8, <1>1 DEF Plain, Endings
  <2>2. \A k : NextKey(j, s, k) = k
    BY <2>1 DEF NextKey
  <2> QED BY <2>2, <1>3, <1>8
<1> QED BY <1>6, <1>7, <1>8

-----------------------------------------------------------------------------
(* What is gathered, and merged *)

\* What the adapter keeps of a stream; Etherscan's token transfers are filtered at the end.
Wants(j, s) == {r \in Row : /\ j.provider # "alchemy" => DirectionMatches(r, j.direction)
                            /\ ~(ExcludeSelf(j, s) /\ r.way = "self")}
Gathers(j, s) == IF j.provider = "etherscan" /\ j.subject = "erc20" THEN Row ELSE Wants(j, s)

\* rows is what is gathered of the first n rows of the stream.
Has(j, s, rows, n) ==
  /\ rows \in Seq(Row) /\ Injective(rows) /\ Len(rows) <= n
  /\ ToSet(rows) = First(Upstream(j, s), n) \cap Gathers(j, s)

\* What is asked for, and the copies of it that are not outdated.
Asked(j)       == {r \in ToSet(j.rows) : DirectionMatches(r, j.direction)}
NewestIn(j, r) == ~(r.stale /\ \E n \in ToSet(j.rows) : n.pos = r.pos + 1)

\* What is kept of a page.
LEMMA KeptIs ==
  ASSUME NEW j, NEW s, NEW rows \in Seq(Row)
  PROVE  /\ Kept(j, s, rows) \in Seq(Row) /\ Len(Kept(j, s, rows)) <= Len(rows)
         /\ ToSet(Kept(j, s, rows)) = ToSet(rows) \cap Wants(j, s)
         /\ Injective(rows) => Injective(Kept(j, s, rows))
<1> DEFINE set == {r \in ToSet(rows) : /\ j.provider # "alchemy" => DirectionMatches(r, j.direction)
                                       /\ ~(ExcludeSelf(j, s) /\ r.way = "self")}
<1>1. Kept(j, s, rows) = Among(set, rows)
  BY DEF Kept
<1>2. ToSet(rows) \cap set = ToSet(rows) \cap Wants(j, s)
  BY MembersAre DEF Wants
<1> HIDE DEF set
<1>3. /\ Among(set, rows) \in Seq(Row) /\ Len(Among(set, rows)) <= Len(rows)
      /\ ToSet(Among(set, rows)) = ToSet(rows) \cap set
      /\ Injective(rows) => Injective(Among(set, rows))
  BY AmongIs
<1> QED BY <1>1, <1>2, <1>3

\* What is not seen yet.
LEMMA UnseenIs ==
  ASSUME NEW rows \in Seq(Row), NEW old \in Seq(Row)
  PROVE  /\ Unseen(rows, old) \in Seq(Row) /\ Len(Unseen(rows, old)) <= Len(rows)
         /\ ToSet(Unseen(rows, old)) = ToSet(rows) \ ToSet(old)
         /\ Injective(rows) => Injective(Unseen(rows, old))
<1> DEFINE set == ToSet(rows) \ ToSet(old)
<1>1. Unseen(rows, old) = Among(set, rows)
  BY DEF Unseen
<1>2. ToSet(rows) \cap set = ToSet(rows) \ ToSet(old)
  OBVIOUS
<1> HIDE DEF set
<1>3. /\ Among(set, rows) \in Seq(Row) /\ Len(Among(set, rows)) <= Len(rows)
      /\ ToSet(Among(set, rows)) = ToSet(rows) \cap set
      /\ Injective(rows) => Injective(Among(set, rows))
  BY AmongIs
<1> QED BY <1>1, <1>2, <1>3

\* What is left of rows without outdated copies.
LEMMA NewestAre ==
  ASSUME NEW rows \in Seq(Row), Injective(rows)
  PROVE  LET kept == DeduplicateCanonicalTransactionBlocks(rows)
         IN  /\ kept \in Seq(Row) /\ Injective(kept)
             /\ ToSet(kept) = {r \in ToSet(rows) : ~(r.stale /\ \E n \in ToSet(rows) : n.pos = r.pos + 1)}
<1> DEFINE set == {r \in ToSet(rows) : ~(r.stale /\ \E n \in ToSet(rows) : n.pos = r.pos + 1)}
<1>1. DeduplicateCanonicalTransactionBlocks(rows) = Among(set, rows)
  BY DEF DeduplicateCanonicalTransactionBlocks
<1>2. ToSet(rows) \cap set = set
  OBVIOUS
<1> HIDE DEF set
<1>3. /\ Among(set, rows) \in Seq(Row) /\ ToSet(Among(set, rows)) = ToSet(rows) \cap set
      /\ Injective(Among(set, rows))
  BY AmongIs
<1>4. ToSet(Among(set, rows)) = set
  BY <1>2, <1>3
<1> QED BY <1>1, <1>3, <1>4 DEF set

\* Another page is gathered.
LEMMA GatheredHas ==
  ASSUME NEW j \in Jobs, NEW s, NEW key, GoodKey(j, s, key),
         NEW old, Has(j, s, old, Before(j, key))
  PROVE  Has(j, s, Gathered(j, s, old, PageAt(j, s, key)), Upto(j, s, key))
<1> DEFINE U == Upstream(j, s)
           a == Before(j, key)
           b == Upto(j, s, key)
           page == PageAt(j, s, key)
           rows == IF j.provider = "etherscan" /\ j.subject = "erc20" THEN page ELSE Kept(j, s, page)
           more == IF Deduplicates(j) THEN Unseen(rows, old) ELSE rows
<1>1. /\ page \in Seq(Row) /\ Injective(page) /\ a \in Nat /\ b \in Nat /\ a <= b /\ Len(page) = b - a
      /\ First(U, b) = First(U, a) \cup ToSet(page) /\ First(U, a) \cap ToSet(page) = {}
  BY PageIs
<1>2. /\ old \in Seq(Row) /\ Injective(old) /\ Len(old) \in Nat /\ Len(old) <= a
      /\ ToSet(old) = First(U, a) \cap Gathers(j, s)
  BY DEF Has
<1>3. Gathered(j, s, old, page) = old \o more
  BY DEF Gathered
<1> HIDE DEF U, a, b, page
<1>4. /\ rows \in Seq(Row) /\ Injective(rows) /\ Len(rows) <= b - a
      /\ ToSet(rows) = ToSet(page) \cap Gathers(j, s)
  <2>1. CASE j.provider = "etherscan" /\ j.subject = "erc20"
    <3>1. ToSet(page) \subseteq Row
      BY <1>1, MembersAre
    <3>2. ToSet(page) \cap Gathers(j, s) = ToSet(page)
      BY <2>1, <3>1 DEF Gathers
    <3>3. rows = page /\ Len(page) <= b - a
      BY <2>1, <1>1
    <3> HIDE DEF rows
    <3> QED BY <3>2, <3>3, <1>1
  <2>2. CASE ~(j.provider = "etherscan" /\ j.subject = "erc20")
    <3>1. rows = Kept(j, s, page) /\ Gathers(j, s) = Wants(j, s)
      BY <2>2 DEF Gathers
    <3>2. /\ Kept(j, s, page) \in Seq(Row) /\ Len(Kept(j, s, page)) <= Len(page)
          /\ ToSet(Kept(j, s, page)) = ToSet(page) \cap Wants(j, s) /\ Injective(Kept(j, s, page))
      BY <1>1, KeptIs
    <3>3. Len(Kept(j, s, page)) \in Nat
      BY <3>2
    <3> HIDE DEF rows
    <3> QED BY <3>1, <3>2, <3>3, <1>1
  <2> QED BY <2>1, <2>2
<1>5. ToSet(rows) \cap ToSet(old) = {}
  BY <1>1, <1>2, <1>4
<1> HIDE DEF rows
<1>6. /\ more \in Seq(Row) /\ Injective(more) /\ Len(more) \in Nat /\ Len(more) <= b - a
      /\ ToSet(more) = ToSet(rows)
  <2>1. CASE Deduplicates(j)
    <3>1. /\ Unseen(rows, old) \in Seq(Row) /\ Len(Unseen(rows, old)) <= Len(rows)
          /\ ToSet(Unseen(rows, old)) = ToSet(rows) \ ToSet(old) /\ Injective(Unseen(rows, old))
      BY <1>2, <1>4, UnseenIs
    <3>2. Len(Unseen(rows, old)) \in Nat /\ Len(rows) \in Nat
      BY <3>1, <1>4
    <3>3. ToSet(Unseen(rows, old)) = ToSet(rows)
      BY <3>1, <1>5
    <3>4. more = Unseen(rows, old)
      BY <2>1
    <3> HIDE DEF more
    <3> QED BY <3>1, <3>2, <3>3, <3>4, <1>1, <1>4
  <2>2. CASE ~Deduplicates(j)
    <3>1. more = rows
      BY <2>2
    <3>2. Len(rows) \in Nat
      BY <1>4
    <3> HIDE DEF more
    <3> QED BY <3>1, <3>2, <1>4
  <2> QED BY <2>1, <2>2
<1> HIDE DEF more
<1>7. /\ old \o more \in Seq(Row) /\ Len(old \o more) = Len(old) + Len(more)
      /\ ToSet(old \o more) = ToSet(old) \cup ToSet(more)
      /\ Injective(old) /\ Injective(more) /\ ToSet(old) \cap ToSet(more) = {} => Injective(old \o more)
  BY <1>2, <1>6, ListsAfterAnother
<1>8. Injective(old \o more)
  BY <1>2, <1>5, <1>6, <1>7
<1>9. Len(old \o more) <= b
  BY <1>1, <1>2, <1>6, <1>7
<1>10. ToSet(old \o more) = First(U, b) \cap Gathers(j, s)
  BY <1>1, <1>2, <1>4, <1>6, <1>7
<1>11. Has(j, s, old \o more, b)
  BY <1>7, <1>8, <1>9, <1>10 DEF Has, U
<1> QED BY <1>3, <1>11 DEF b, page

\* The streams together hold what is asked for; a row is kept of one stream only, unless it is a
\* transfer to oneself that is no token's.
LEMMA StreamsCover ==
  ASSUME NEW j \in Jobs
  PROVE  /\ UNION {ToSet(Upstream(j, s)) \cap Wants(j, s) : s \in Streams(j)} = Asked(j)
         /\ TwoStreams(j) /\ j.subject = "erc20" =>
              (ToSet(Upstream(j, "incoming")) \cap Wants(j, "incoming"))
                \cap (ToSet(Upstream(j, "outgoing")) \cap Wants(j, "outgoing")) = {}
<1>1. \A s : ToSet(Upstream(j, s)) = {r \in ToSet(j.rows) : j.provider = "alchemy" => DirectionMatches(r, Side(j, s))}
  BY UpstreamIs
<1>2. ToSet(j.rows) \subseteq Row /\ \A r \in ToSet(j.rows) : r.way \in Ways
  BY RowsAre DEF Row
<1>3. CASE TwoStreams(j)
  <2>1. /\ j.provider = "alchemy" /\ j.direction = "both" /\ Streams(j) = {"incoming", "outgoing"}
        /\ Side(j, "incoming") = "incoming" /\ Side(j, "outgoing") = "outgoing"
        /\ ~ExcludeSelf(j, "outgoing") /\ (ExcludeSelf(j, "incoming") <=> j.subject = "erc20")
    BY <1>3 DEF TwoStreams, Streams, Side, ExcludeSelf
  <2>2. Asked(j) = ToSet(j.rows)
    BY <2>1 DEF Asked, DirectionMatches
  <2>3. ToSet(Upstream(j, "incoming")) \cap Wants(j, "incoming") =
          {r \in ToSet(j.rows) : r.way \in {"in", "self"} /\ ~(j.subject = "erc20" /\ r.way = "self")}
    BY <2>1, <1>1, <1>2 DEF Wants, DirectionMatches
  <2>4. ToSet(Upstream(j, "outgoing")) \cap Wants(j, "outgoing") = {r \in ToSet(j.rows) : r.way \in {"out", "self"}}
    BY <2>1, <1>1, <1>2 DEF Wants, DirectionMatches
  <2> QED BY <2>1, <2>2, <2>3, <2>4, <1>2 DEF Ways
<1>4. CASE ~TwoStreams(j)
  <2>1. /\ Streams(j) = {"single"} /\ Side(j, "single") = j.direction /\ ~ExcludeSelf(j, "single")
    BY <1>4 DEF Streams, Side, ExcludeSelf
  <2>2. ToSet(Upstream(j, "single")) \cap Wants(j, "single") = Asked(j)
    BY <2>1, <1>1, <1>2 DEF Wants, Asked
  <2> QED BY <2>1, <2>2, <1>4
<1> QED BY <1>3, <1>4

\* An outdated copy is asked for with its transfer; without Alchemy's tokens there is none.
LEMMA CopiesAre ==
  ASSUME NEW j \in Jobs
  PROVE  /\ \A r \in Asked(j) : r.stale => \E n \in Asked(j) : n.pos = r.pos + 1
         /\ ~(j.provider = "alchemy" /\ j.subject = "erc20") => \A r \in ToSet(j.rows) : ~r.stale
  BY RowsAre DEF Asked, DirectionMatches

\* What a complete read returns: what was asked for, each row once and only its newest copy.
LEMMA MergedRange ==
  ASSUME NEW j \in Jobs, j.mode = "complete", NEW rows,
         \A s \in Streams(j) : Has(j, s, rows[s], Len(Upstream(j, s)))
  PROVE  /\ Merged(j, rows) \in Seq(Row) /\ Injective(Merged(j, rows))
         /\ ToSet(Merged(j, rows)) = {r \in Asked(j) : NewestIn(j, r)}
<1>1. ASSUME NEW s \in Streams(j)
      PROVE  /\ rows[s] \in Seq(Row) /\ Injective(rows[s])
             /\ ToSet(rows[s]) = ToSet(Upstream(j, s)) \cap Gathers(j, s)
  <2>1. ToSet(Upstream(j, s)) = First(Upstream(j, s), Len(Upstream(j, s)))
    BY UpstreamIs, MembersAre
  <2> QED BY <2>1 DEF Has
<1>2. Asked(j) \subseteq ToSet(j.rows) /\ ToSet(j.rows) \subseteq Row
  BY RowsAre DEF Asked
<1> DEFINE Latest(S) == {r \in S : ~(r.stale /\ \E n \in S : n.pos = r.pos + 1)}
<1>3. Latest(Asked(j)) = {r \in Asked(j) : NewestIn(j, r)}
  <2>1. ASSUME NEW r \in Asked(j)
        PROVE  (r.stale /\ \E n \in Asked(j) : n.pos = r.pos + 1) <=> ~NewestIn(j, r)
    BY <1>2, CopiesAre DEF NewestIn
  <2> QED BY <2>1
<1>4. ~(j.provider = "alchemy" /\ j.subject = "erc20") => Asked(j) = {r \in Asked(j) : NewestIn(j, r)}
  BY <1>2, CopiesAre DEF NewestIn
<1>5. CASE TwoStreams(j)
  <2> DEFINE S == ToSet(rows["incoming"]) \cup ToSet(rows["outgoing"])
  <2>1. j.provider = "alchemy" /\ Streams(j) = {"incoming", "outgoing"}
    BY <1>5 DEF TwoStreams, Streams
  <2>2. \A s : Gathers(j, s) = Wants(j, s)
    BY <2>1 DEF Gathers
  <2>3. S = UNION {ToSet(Upstream(j, s)) \cap Wants(j, s) : s \in Streams(j)}
    BY <1>1, <2>1, <2>2
  <2>4. S = Asked(j)
    BY <2>3, StreamsCover
  <2> HIDE DEF S
  <2>5. InOrder(j, S) \in Seq(Row) /\ Injective(InOrder(j, S)) /\ ToSet(InOrder(j, S)) = Asked(j)
    BY <2>4, <1>2, InOrderIs
  <2>6. CASE j.subject = "erc20"
    <3>1. Merged(j, rows) = DeduplicateCanonicalTransactionBlocks(InOrder(j, S))
      BY <1>5, <2>6 DEF Merged, S
    <3>2. ToSet(DeduplicateCanonicalTransactionBlocks(InOrder(j, S))) = Latest(Asked(j))
      BY <2>5, NewestAre
    <3>3. /\ DeduplicateCanonicalTransactionBlocks(InOrder(j, S)) \in Seq(Row)
          /\ Injective(DeduplicateCanonicalTransactionBlocks(InOrder(j, S)))
      BY <2>5, NewestAre
    <3> HIDE DEF Latest
    <3> QED BY <3>1, <3>2, <3>3, <1>3
  <2>7. CASE j.subject # "erc20"
    <3>1. Merged(j, rows) = InOrder(j, S)
      BY <1>5, <2>7 DEF Merged, S
    <3> QED BY <3>1, <2>5, <2>7, <1>4
  <2> QED BY <2>6, <2>7
<1>6. CASE ~TwoStreams(j)
  <2>1. Streams(j) = {"single"}
    BY <1>6 DEF Streams
  <2>2. /\ rows["single"] \in Seq(Row) /\ Injective(rows["single"])
        /\ ToSet(rows["single"]) = ToSet(Upstream(j, "single")) \cap Gathers(j, "single")
    BY <1>1, <2>1
  <2>3. ToSet(Upstream(j, "single")) \cap Wants(j, "single") = Asked(j)
    BY <2>1, StreamsCover
  <2>4. CASE j.provider = "alchemy" /\ j.subject = "erc20"
    <3>1. Merged(j, rows) = DeduplicateCanonicalTransactionBlocks(rows["single"])
      BY <1>6, <2>4 DEF Merged
    <3>2. ToSet(rows["single"]) = Asked(j)
      BY <2>2, <2>3, <2>4 DEF Gathers
    <3>3. ToSet(DeduplicateCanonicalTransactionBlocks(rows["single"])) = Latest(Asked(j))
      BY <2>2, <3>2, NewestAre
    <3>4. /\ DeduplicateCanonicalTransactionBlocks(rows["single"]) \in Seq(Row)
          /\ Injective(DeduplicateCanonicalTransactionBlocks(rows["single"]))
      BY <2>2, NewestAre
    <3> HIDE DEF Latest
    <3> QED BY <3>1, <3>3, <3>4, <1>3
  <2>5. CASE ~(j.provider = "alchemy" /\ j.subject = "erc20")
    <3>1. Merged(j, rows) = Kept(j, "single", rows["single"])
      BY <1>6, <2>5 DEF Merged
    <3>2. /\ Kept(j, "single", rows["single"]) \in Seq(Row) /\ Injective(Kept(j, "single", rows["single"]))
          /\ ToSet(Kept(j, "single", rows["single"])) = ToSet(rows["single"]) \cap Wants(j, "single")
      BY <2>2, KeptIs
    <3>3. Gathers(j, "single") \cap Wants(j, "single") = Wants(j, "single")
      BY DEF Gathers, Wants
    <3>4. ToSet(Kept(j, "single", rows["single"])) = Asked(j)
      BY <2>2, <2>3, <3>2, <3>3
    <3> QED BY <3>1, <3>2, <3>4, <2>5, <1>4
  <2> QED BY <2>4, <2>5
<1> QED BY <1>5, <1>6

\* What one page hands over: the rows of its streams, each once, without some of the outdated copies.
LEMMA MergedPage ==
  ASSUME NEW j \in Jobs, j.mode # "complete", NEW rows,
         \A s \in Streams(j) : /\ rows[s] \in Seq(Row) /\ Injective(rows[s])
                               /\ ToSet(rows[s]) \subseteq ToSet(j.rows) \cap Wants(j, s)
  PROVE  /\ Merged(j, rows) \in Seq(Row) /\ Injective(Merged(j, rows))
         /\ \A r \in ToSet(Merged(j, rows)) : \E s \in Streams(j) : r \in ToSet(rows[s])
         /\ \A s \in Streams(j) : \A r \in ToSet(rows[s]) : NewestIn(j, r) => r \in ToSet(Merged(j, rows))
<1>1. CASE TwoStreams(j)
  <2> DEFINE S == ToSet(rows["incoming"]) \cup ToSet(rows["outgoing"])
             all == InOrder(j, S)
  <2>1. Streams(j) = {"incoming", "outgoing"}
    BY <1>1 DEF Streams
  <2>2. S \in SUBSET ToSet(j.rows)
    BY <2>1
  <2>3. \A r : r \in S <=> \E s \in Streams(j) : r \in ToSet(rows[s])
    BY <2>1
  <2> HIDE DEF S
  <2>4. all \in Seq(Row) /\ Injective(all) /\ ToSet(all) = S
    BY <2>2, InOrderIs
  <2>5. CASE j.subject = "erc20"
    <3>1. Merged(j, rows) = DeduplicateCanonicalTransactionBlocks(all)
      BY <1>1, <2>5 DEF Merged, S
    <3> HIDE DEF all
    <3>2. /\ DeduplicateCanonicalTransactionBlocks(all) \in Seq(Row)
          /\ Injective(DeduplicateCanonicalTransactionBlocks(all))
          /\ ToSet(DeduplicateCanonicalTransactionBlocks(all)) =
               {r \in ToSet(all) : ~(r.stale /\ \E n \in ToSet(all) : n.pos = r.pos + 1)}
      BY <2>4, NewestAre
    <3>3. ASSUME NEW r \in S, NewestIn(j, r) PROVE r \in ToSet(DeduplicateCanonicalTransactionBlocks(all))
      BY <3>2, <3>3, <2>2, <2>4 DEF NewestIn
    <3>4. ToSet(DeduplicateCanonicalTransactionBlocks(all)) \subseteq S
      BY <3>2, <2>4
    <3> QED BY <3>1, <3>2, <3>3, <3>4, <2>3
  <2>6. CASE j.subject # "erc20"
    <3>1. Merged(j, rows) = all
      BY <1>1, <2>6 DEF Merged, S
    <3> HIDE DEF all
    <3> QED BY <3>1, <2>3, <2>4
  <2> QED BY <2>5, <2>6
<1>2. CASE ~TwoStreams(j)
  <2>1. Streams(j) = {"single"}
    BY <1>2 DEF Streams
  <2>2. Merged(j, rows) = Kept(j, "single", rows["single"])
    BY <1>2 DEF Merged
  <2>3. /\ Kept(j, "single", rows["single"]) \in Seq(Row) /\ Injective(Kept(j, "single", rows["single"]))
        /\ ToSet(Kept(j, "single", rows["single"])) = ToSet(rows["single"]) \cap Wants(j, "single")
    BY <2>1, KeptIs
  <2>4. ToSet(Kept(j, "single", rows["single"])) = ToSet(rows["single"])
    BY <2>1, <2>3
  <2> QED BY <2>1, <2>2, <2>3, <2>4
<1> QED BY <1>1, <1>2

-----------------------------------------------------------------------------
(* The invariant *)

StreamType == [key : Nat, pages : Nat, rows : Seq(Row), status : {"open", "done"} \cup Failures]
HonestKeys(j) == j.keys \in {"exact", "late"}

\* More rows than the limits are for.
TooMany(j) ==
  \/ \E s \in Streams(j) : Len(Upstream(j, s)) > MaxRecords
  \/ j.mode = "address" /\ Len(j.rows) > MaxRecords
  \/ j.subject = "holdings" /\ Len(j.rows) = MaxRecords

\* A stream of a complete read has gathered what comes before its key; a finished one, everything.
StreamGood(j, s, st) ==
  /\ st.status = "open" =>
       /\ GoodKey(j, s, st.key)
       /\ Plain(j) => st.pages = st.key - 1 /\ Has(j, s, st.rows, Before(j, st.key))
       /\ ~Plain(j) => st.rows = <<>> \/ \A k \in {1, 2} : NextKey(j, s, k) # 0
  /\ st.status = "done" => Has(j, s, st.rows, Len(Upstream(j, s)))
  /\ st.status \in {"too_large", "invalid"} /\ HonestKeys(j) => TooMany(j)

CompleteInv ==
  /\ \A s \in Streams(job) : StreamGood(job, s, stream[s])
  /\ call = "returned" => AllDone(stream) /\ listed = Merged(job, [s \in Streams(job) |-> stream[s].rows])
  /\ call # "returned" => listed = <<>>
  /\ call \in {"too_large", "invalid"} /\ HonestKeys(job) => TooMany(job)

\* How far a stream has been listed, at most.
Reached(j, s, st) == IF st.status = "open" /\ Plain(j) THEN Before(j, st.key) ELSE Len(Upstream(j, s))
Passed(j, s, st)  == First(Upstream(j, s), Reached(j, s, st)) \cap Wants(j, s)

\* What has been passed is listed, up to outdated copies.
Covers(j, s, st, list) ==
  Plain(j) \/ st.status = "done" => \A r \in Passed(j, s, st) : NewestIn(j, r) => r \in ToSet(list)

\* Both of Alchemy's streams hand over a transaction to oneself.
Repeats(j) == TwoStreams(j) /\ j.subject = "transactions" /\ j.mode = "pages"

PlacesInv ==
  /\ \A s \in Streams(job) :
       /\ stream[s].status \in {"open", "done"}
       /\ stream[s].status = "open" => GoodKey(job, s, stream[s].key)
       /\ Covers(job, s, stream[s], listed)
  /\ \A r \in ToSet(listed) : \E s \in Streams(job) : r \in Passed(job, s, stream[s])

ListedInv ==
  /\ \A r \in ToSet(listed) : r \in Asked(job) /\ ~r.outside
  /\ Plain(job) => Injective(listed) \/ Repeats(job)
  /\ call \in {"running", "returned"} => PlacesInv
  /\ call = "returned" => AllDone(stream)
  /\ call \in {"too_large", "invalid"} /\ HonestKeys(job) => TooMany(job)

PagesType ==
  /\ job \in Jobs /\ stream \in [Streams(job) -> StreamType]
  /\ listed \in Seq(Row) /\ call \in Ended \cup {"running"}

PagesInv ==
  /\ PagesType
  /\ job.mode = "complete" => CompleteInv
  /\ job.mode # "complete" => ListedInv

\* The first of the rows are among them, and all of them are all.
LEMMA FirstIs ==
  ASSUME NEW j \in Jobs, NEW s
  PROVE  /\ First(Upstream(j, s), Len(Upstream(j, s))) = ToSet(Upstream(j, s))
         /\ First(Upstream(j, s), 0) = {}
         /\ \A n \in Nat, m \in Nat : n <= m => First(Upstream(j, s), n) \subseteq First(Upstream(j, s), m)
<1>1. First(Upstream(j, s), Len(Upstream(j, s))) = ToSet(Upstream(j, s))
  BY UpstreamIs, MembersAre
<1>2. First(Upstream(j, s), 0) = {}
  <2>1. 1..0 = {}
    OBVIOUS
  <2> QED BY <2>1 DEF First
<1>3. ASSUME NEW n \in Nat, NEW m \in Nat, n <= m
      PROVE  First(Upstream(j, s), n) \subseteq First(Upstream(j, s), m)
  <2>1. 1..n \subseteq 1..m
    BY <1>3
  <2> QED BY <2>1 DEF First
<1> QED BY <1>1, <1>2, <1>3

\* A page that is gathered, of whatever keys, is rows.
LEMMA GatheredType ==
  ASSUME NEW j, NEW s, NEW old \in Seq(Row), NEW page \in Seq(Row)
  PROVE  Gathered(j, s, old, page) \in Seq(Row)
<1> DEFINE rows == IF j.provider = "etherscan" /\ j.subject = "erc20" THEN page ELSE Kept(j, s, page)
           more == IF Deduplicates(j) THEN Unseen(rows, old) ELSE rows
<1>1. Gathered(j, s, old, page) = old \o more
  BY DEF Gathered
<1>2. rows \in Seq(Row)
  BY KeptIs
<1> HIDE DEF rows
<1>3. more \in Seq(Row)
  BY <1>2, UnseenIs
<1> HIDE DEF more
<1> QED BY <1>1, <1>3, ListsAfterAnother

\* Another request of a complete read keeps the count.
LEMMA FetchedIs ==
  ASSUME NEW j \in Jobs, NEW s \in Streams(j), NEW st \in StreamType,
         st.status = "open", StreamGood(j, s, st)
  PROVE  Fetched(j, s, st) \in StreamType /\ StreamGood(j, s, Fetched(j, s, st))
<1> DEFINE U == Upstream(j, s)
           key == st.key
           rows == Gathered(j, s, st.rows, PageAt(j, s, key))
           next == NextKey(j, s, key)
           pages == st.pages + 1
           status == StatusAfter(j, rows, key, next, pages)
           new == [key |-> next, pages |-> pages, rows |-> rows, status |-> status]
<1>1. Fetched(j, s, st) = new
  BY DEF Fetched
<1>2. /\ GoodKey(j, s, key) /\ key \in Nat \ {0} /\ st.pages \in Nat /\ st.rows \in Seq(Row)
      /\ Len(U) \in Nat /\ MaxRecords \in Nat /\ j.provider \in Providers
  BY UpstreamIs, JobIs DEF StreamGood, StreamType, GoodKey
<1>3. Plain(j) => st.pages = key - 1 /\ Has(j, s, st.rows, Before(j, key))
  BY DEF StreamGood
<1>4. ~Plain(j) => st.rows = <<>> \/ \A k \in {1, 2} : NextKey(j, s, k) # 0
  BY DEF StreamGood
<1>5. /\ next = 0 => /\ Upto(j, s, key) = Len(U)
                     /\ ~Plain(j) => Before(j, key) = 0
      /\ next # 0 => /\ GoodKey(j, s, next)
                     /\ Plain(j) => /\ next = key + 1 /\ Before(j, key + 1) = Upto(j, s, key)
                                    /\ Upto(j, s, key) = key * PageSize
                     /\ ~Plain(j) => \A k \in {1, 2} : NextKey(j, s, k) # 0
  BY <1>2, NextIs
<1>6. Upto(j, s, key) \in Nat /\ Upto(j, s, key) <= Len(U) /\ PageAt(j, s, key) \in Seq(Row)
  BY <1>2, PageIs
<1>7. rows \in Seq(Row)
  BY <1>2, <1>6, GatheredType
<1>8. Plain(j) => Has(j, s, rows, Upto(j, s, key))
  BY <1>2, <1>3, GatheredHas
<1>9. ~Plain(j) /\ next = 0 => Has(j, s, rows, Len(U))
  <2> SUFFICES ASSUME ~Plain(j), next = 0 PROVE Has(j, s, rows, Len(U))
    OBVIOUS
  <2>1. key \in {1, 2}
    BY <1>2 DEF GoodKey
  <2>2. st.rows = <<>>
    BY <1>4, <2>1
  <2>3. Before(j, key) = 0 /\ Upto(j, s, key) = Len(U)
    BY <1>5
  <2>4. Has(j, s, <<>>, 0)
    <3>1. <<>> \in Seq(Row) /\ Len(<<>>) = 0 /\ ToSet(<<>>) = {} /\ Injective(<<>>)
      BY NothingListed
    <3>2. First(Upstream(j, s), 0) \cap Gathers(j, s) = {}
      BY FirstIs
    <3>3. Len(<<>>) <= 0
      BY <3>1
    <3> QED BY <3>1, <3>2, <3>3 DEF Has
  <2>5. Has(j, s, st.rows, Before(j, key))
    BY <2>2, <2>3, <2>4
  <2>6. Has(j, s, rows, Upto(j, s, key))
    BY <2>5, <1>2, GatheredHas
  <2> HIDE DEF rows
  <2> QED BY <2>3, <2>6
<1>10. next \in Nat /\ pages \in Nat
  BY <1>2, <1>5 DEF GoodKey
<1> HIDE DEF U, rows, next, key
<1>11. status \in {"open", "done", "too_large", "invalid"}
  BY DEF StatusAfter
<1>12. new \in StreamType
  BY <1>7, <1>10, <1>11 DEF StreamType, Failures
<1>13. ASSUME status = "open" PROVE next # 0
  BY <1>13 DEF StatusAfter
<1>14. ASSUME status = "done" PROVE next = 0
  BY <1>14 DEF StatusAfter
<1>15. ASSUME status \in {"too_large", "invalid"}, HonestKeys(j)
       PROVE  TooMany(j)
  <2>1. Plain(j)
    BY <1>15 DEF HonestKeys, Plain
  <2>2. Len(rows) \in Nat /\ Len(rows) <= Len(U)
    BY <2>1, <1>2, <1>6, <1>7, <1>8 DEF Has, U
  <2>3. CASE Len(rows) > MaxRecords
    <3>1. Len(U) > MaxRecords
      BY <2>2, <2>3, <1>2
    <3> QED BY <3>1 DEF TooMany, U
  <2>4. CASE ~(Len(rows) > MaxRecords)
    <3>1. next # 0 /\ (next = key \/ pages = PageLimit(j))
      BY <2>4, <1>15 DEF StatusAfter
    <3>2. next # key
      BY <3>1, <2>1, <1>2, <1>5
    <3>3. pages = key
      BY <2>1, <1>2, <1>3
    <3>4. PageLimit(j) * PageSize <= Len(U)
      BY <3>1, <3>2, <3>3, <2>1, <1>5, <1>6
    <3>5. CASE j.subject # "holdings"
      <4>1. PageLimit(j) * PageSize > MaxRecords
        BY <3>5, <1>2, RoomAssumption DEF PageLimit
      <4>2. PageLimit(j) * PageSize \in Nat
        BY <3>1, <3>2, <3>3, <2>1, <1>5, <1>6
      <4>3. Len(U) > MaxRecords
        <5> DEFINE n == PageLimit(j) * PageSize
        <5> HIDE DEF n
        <5>1. n \in Nat /\ n > MaxRecords /\ n <= Len(U)
          BY <3>4, <4>1, <4>2 DEF n
        <5> QED BY <5>1, <1>2
      <4> QED BY <4>3 DEF TooMany, U
    <3>6. CASE j.subject = "holdings"
      <4>1. PageLimit(j) * PageSize >= MaxRecords
        BY <3>6, RoomAssumption DEF PageLimit
      <4>2. PageLimit(j) * PageSize \in Nat
        BY <3>1, <3>2, <3>3, <2>1, <1>5, <1>6
      <4>3. Len(U) > MaxRecords \/ Len(U) = MaxRecords
        <5> DEFINE n == PageLimit(j) * PageSize
        <5> HIDE DEF n
        <5>1. n \in Nat /\ n >= MaxRecords /\ n <= Len(U)
          BY <3>4, <4>1, <4>2 DEF n
        <5> QED BY <5>1, <1>2
      <4>4. U = j.rows
        <5>1. j.provider = "etherscan"
          BY <3>6, JobIs
        <5> QED BY <5>1, UpstreamIs DEF U
      <4> QED BY <3>6, <4>3, <4>4 DEF TooMany, U
    <3> QED BY <3>5, <3>6
  <2> QED BY <2>3, <2>4
<1> HIDE DEF status
<1>16. StreamGood(j, s, new)
  <2>1. ASSUME status = "open"
        PROVE  /\ GoodKey(j, s, next)
               /\ Plain(j) => pages = next - 1 /\ Has(j, s, rows, Before(j, next))
               /\ ~Plain(j) => \A k \in {1, 2} : NextKey(j, s, k) # 0
    BY <2>1, <1>2, <1>3, <1>5, <1>8, <1>13
  <2>2. ASSUME status = "done" PROVE Has(j, s, rows, Len(U))
    BY <2>2, <1>5, <1>8, <1>9, <1>14
  <2> QED BY <2>1, <2>2, <1>15 DEF StreamGood, U
<1> QED BY <1>1, <1>12, <1>16

-----------------------------------------------------------------------------
(* The steps of a complete read *)

\* What a call becomes with its streams.
LEMMA CallIs ==
  ASSUME NEW streams, call \in Ended \cup {"running"},
         \A s \in DOMAIN streams : streams[s].status \in {"open", "done"} \cup Failures
  PROVE  \/ call # "running" /\ CallAfter(streams) = call
         \/ call = "running" /\ \E s \in DOMAIN streams : /\ streams[s].status \in Failures
                                                          /\ CallAfter(streams) = streams[s].status
         \/ call = "running" /\ CallAfter(streams) = "returned" /\ AllDone(streams)
         \/ call = "running" /\ CallAfter(streams) = "running"
<1>1. CASE call # "running"
  BY <1>1 DEF CallAfter
<1>2. CASE call = "running" /\ \E s \in DOMAIN streams : streams[s].status \in Failures
  <2> DEFINE t == CHOOSE s \in DOMAIN streams : streams[s].status \in Failures
  <2>1. CallAfter(streams) = streams[t].status
    BY <1>2 DEF CallAfter
  <2>2. t \in DOMAIN streams /\ streams[t].status \in Failures
    BY <1>2
  <2> HIDE DEF t
  <2> QED BY <1>2, <2>1, <2>2
<1>3. CASE call = "running" /\ ~\E s \in DOMAIN streams : streams[s].status \in Failures
  BY <1>3 DEF CallAfter, AllDone
<1> QED BY <1>1, <1>2, <1>3

\* A stream that moves on, or fails, leaves the rest of a complete read as it is.
LEMMA StreamMoves ==
  ASSUME PagesInv, job.mode = "complete", NEW s \in Streams(job), stream[s].status = "open",
         NEW st \in StreamType, StreamGood(job, s, st), stream' = [stream EXCEPT ![s] = st],
         call' = CallAfter(stream'), job' = job,
         listed' = IF call # "returned" /\ call' = "returned"
                   THEN Merged(job, [t \in Streams(job) |-> stream'[t].rows]) ELSE listed
  PROVE  PagesInv'
<1>1. PagesType /\ CompleteInv
  BY DEF PagesInv
<1>2. /\ stream' \in [Streams(job) -> StreamType] /\ DOMAIN stream' = Streams(job)
      /\ \A t \in Streams(job) : StreamGood(job, t, stream'[t])
  BY <1>1 DEF PagesType, CompleteInv
<1>3. \A t \in DOMAIN stream' : stream'[t].status \in {"open", "done"} \cup Failures
  BY <1>2 DEF StreamType
<1>4. call \in Ended \cup {"running"}
  BY <1>1 DEF PagesType
<1>5. call # "returned"
  <2>1. DOMAIN stream = Streams(job)
    BY <1>1 DEF PagesType
  <2>2. ~AllDone(stream)
    BY <2>1 DEF AllDone
  <2> QED BY <2>2, <1>1 DEF CompleteInv
<1>6. listed = <<>>
  BY <1>1, <1>5 DEF CompleteInv
<1>7. \/ call # "running" /\ call' = call
      \/ call = "running" /\ \E t \in Streams(job) : stream'[t].status \in Failures /\ call' = stream'[t].status
      \/ call = "running" /\ call' = "returned" /\ AllDone(stream')
      \/ call = "running" /\ call' = "running"
  BY <1>2, <1>3, <1>4, CallIs
<1>8. call' \in Ended \cup {"running"}
  BY <1>4, <1>7 DEF Ended
<1>9. call' # "returned" => listed' = <<>>
  BY <1>6
<1>10. call' = "returned" =>
         /\ AllDone(stream') /\ listed' = Merged(job, [t \in Streams(job) |-> stream'[t].rows])
  <2>1. call' = "returned" => AllDone(stream')
    BY <1>5, <1>7 DEF Failures
  <2> QED BY <2>1, <1>5
<1>11. listed' \in Seq(Row)
  <2>1. CASE call' # "returned"
    BY <2>1, <1>9, NothingListed
  <2>2. CASE call' = "returned"
    <3> DEFINE rows == [t \in Streams(job) |-> stream'[t].rows]
    <3>1. \A t \in Streams(job) : Has(job, t, rows[t], Len(Upstream(job, t)))
      BY <2>2, <1>2, <1>10 DEF StreamGood, AllDone
    <3>2. job \in Jobs
      BY <1>1 DEF PagesType
    <3>3. listed' = Merged(job, rows)
      BY <2>2, <1>10
    <3> HIDE DEF rows
    <3> QED BY <3>1, <3>2, <3>3, MergedRange
  <2> QED BY <2>1, <2>2
<1>12. call' \in {"too_large", "invalid"} /\ HonestKeys(job) => TooMany(job)
  BY <1>1, <1>2, <1>7 DEF CompleteInv, StreamGood
<1>13. PagesType'
  BY <1>1, <1>2, <1>8, <1>11 DEF PagesType
<1>14. CompleteInv'
  BY <1>2, <1>9, <1>10, <1>12 DEF CompleteInv
<1> QED BY <1>13, <1>14 DEF PagesInv

\* Another request.
LEMMA FetchKeeps ==
  ASSUME PagesInv, NEW s \in Streams(job), FetchPage(s)
  PROVE  PagesInv'
<1>1. /\ job \in Jobs /\ stream \in [Streams(job) -> StreamType] /\ job.mode = "complete"
      /\ stream[s].status = "open" /\ StreamGood(job, s, stream[s])
  BY DEF PagesInv, PagesType, CompleteInv, FetchPage
<1>2. stream[s] \in StreamType
  BY <1>1
<1>3. Fetched(job, s, stream[s]) \in StreamType /\ StreamGood(job, s, Fetched(job, s, stream[s]))
  BY <1>1, <1>2, FetchedIs
<1>4. /\ stream' = [stream EXCEPT ![s] = Fetched(job, s, stream[s])]
      /\ call' = CallAfter(stream') /\ job' = job
      /\ listed' = IF call # "returned" /\ call' = "returned"
                   THEN Merged(job, [t \in Streams(job) |-> stream'[t].rows]) ELSE listed
  BY DEF FetchPage
<1> QED BY <1>1, <1>3, <1>4, StreamMoves

\* A request that fails.
LEMMA FailKeeps ==
  ASSUME PagesInv, NEW s \in Streams(job), FailPage(s)
  PROVE  PagesInv'
<1> DEFINE st == [stream[s] EXCEPT !.status = "failed"]
<1>1. /\ job \in Jobs /\ stream \in [Streams(job) -> StreamType] /\ job.mode = "complete"
      /\ stream[s].status = "open" /\ stream[s] \in StreamType /\ CompleteInv
      /\ call \in Ended \cup {"running"}
  BY DEF PagesInv, PagesType, FailPage
<1>2. st \in StreamType /\ st.status = "failed"
  BY <1>1 DEF StreamType, Failures
<1>3. StreamGood(job, s, st)
  BY <1>2 DEF StreamGood
<1>4. /\ stream' = [stream EXCEPT ![s] = st] /\ call' = CallAfter(stream') /\ job' = job /\ listed' = listed
  BY DEF FailPage
<1> HIDE DEF st
<1>5. call = "returned" \/ call' # "returned"
  <2>1. stream' \in [Streams(job) -> StreamType] /\ stream'[s].status = "failed"
    BY <1>1, <1>2, <1>4
  <2>2. DOMAIN stream' = Streams(job) /\ ~AllDone(stream')
    BY <2>1 DEF AllDone
  <2>3. \A t \in DOMAIN stream' : stream'[t].status \in {"open", "done"} \cup Failures
    BY <2>1, <2>2 DEF StreamType
  <2>4. \/ call # "running" /\ call' = call
        \/ call = "running" /\ \E t \in DOMAIN stream' : stream'[t].status \in Failures /\ call' = stream'[t].status
        \/ call = "running" /\ call' = "returned" /\ AllDone(stream')
        \/ call = "running" /\ call' = "running"
    BY <1>1, <1>4, <2>3, CallIs
  <2> QED BY <2>2, <2>4 DEF Failures
<1>6. listed' = IF call # "returned" /\ call' = "returned"
                THEN Merged(job, [t \in Streams(job) |-> stream'[t].rows]) ELSE listed
  BY <1>4, <1>5
<1> QED BY <1>1, <1>2, <1>3, <1>4, <1>6, StreamMoves

-----------------------------------------------------------------------------
(* The steps page by page *)

\* A stream that turns to its next page has passed the rows of this one, and no others.
LEMMA TurnedIs ==
  ASSUME NEW j \in Jobs, NEW s, NEW st \in StreamType, st.status \in {"open", "done"},
         st.status = "open" => GoodKey(j, s, st.key)
  PROVE  /\ Turned(j, s, st) \in StreamType
         /\ Turned(j, s, st).status \in {"open", "done", "invalid"}
         /\ Turned(j, s, st).status = "invalid" => ~HonestKeys(j)
         /\ Turned(j, s, st).status = "open" => GoodKey(j, s, Turned(j, s, st).key)
         /\ st.status = "done" => Turned(j, s, st) = st
         /\ st.status = "open" /\ Turned(j, s, st).status # "invalid" =>
              /\ Passed(j, s, st) \subseteq Passed(j, s, Turned(j, s, st))
              /\ ToSet(PageAt(j, s, st.key)) \cap Wants(j, s) \subseteq Passed(j, s, Turned(j, s, st))
              /\ Plain(j) => Passed(j, s, Turned(j, s, st)) =
                               Passed(j, s, st) \cup (ToSet(PageAt(j, s, st.key)) \cap Wants(j, s))
              /\ Plain(j) => Passed(j, s, st) \cap ToSet(PageAt(j, s, st.key)) = {}
              /\ ~Plain(j) /\ Turned(j, s, st).status = "done" =>
                   Passed(j, s, Turned(j, s, st)) = ToSet(PageAt(j, s, st.key)) \cap Wants(j, s)
<1>1. CASE st.status = "done"
  <2>1. Turned(j, s, st) = st
    BY <1>1 DEF Turned
  <2> QED BY <2>1, <1>1
<1>2. CASE st.status = "open"
  <2> DEFINE key == st.key
             next == NextKey(j, s, key)
             new == Turned(j, s, st)
             page == PageAt(j, s, key)
             U == Upstream(j, s)
  <2>1. GoodKey(j, s, key) /\ key \in Nat \ {0}
    BY <1>2 DEF GoodKey
  <2>2. /\ next = 0 => /\ Upto(j, s, key) = Len(U)
                       /\ ~Plain(j) => Before(j, key) = 0
        /\ next # 0 => /\ GoodKey(j, s, next)
                       /\ Plain(j) => /\ next = key + 1 /\ Before(j, key + 1) = Upto(j, s, key)
    BY <2>1, NextIs
  <2>3. next \in Nat
    BY <2>2 DEF GoodKey
  <2>4. /\ new = [st EXCEPT !.key = next,
                            !.status = IF next = 0 THEN "done"
                                       ELSE IF next = key /\ ChecksKey(j) THEN "invalid"
                                       ELSE "open"]
    BY <1>2 DEF Turned
  <2> HIDE DEF next, key, new
  <2>5. /\ new \in StreamType /\ new.key = next
        /\ new.status = IF next = 0 THEN "done" ELSE IF next = key /\ ChecksKey(j) THEN "invalid" ELSE "open"
    BY <2>3, <2>4 DEF StreamType, Failures
  <2>6. new.status = "invalid" => ~HonestKeys(j)
    BY <2>1, <2>2, <2>5 DEF HonestKeys, Plain
  <2>7. new.status = "open" => GoodKey(j, s, new.key)
    BY <2>2, <2>5
  <2>8. /\ First(U, Upto(j, s, key)) = First(U, Before(j, key)) \cup ToSet(page)
        /\ First(U, Before(j, key)) \cap ToSet(page) = {}
        /\ Before(j, key) \in Nat /\ Upto(j, s, key) \in Nat /\ Upto(j, s, key) <= Len(U) /\ Len(U) \in Nat
    BY <2>1, PageIs, UpstreamIs
  <2>9. First(U, Upto(j, s, key)) \subseteq First(U, Len(U))
    BY <2>8, FirstIs
  <2> HIDE DEF page
  <2>10. CASE Plain(j) /\ new.status # "invalid"
    <3>1. Reached(j, s, st) = Before(j, key)
      BY <2>10, <1>2 DEF Reached, key
    <3>2. Reached(j, s, new) = Upto(j, s, key)
      BY <2>2, <2>5, <2>10 DEF Reached
    <3> HIDE DEF U
    <3>3. Passed(j, s, new) = First(U, Upto(j, s, key)) \cap Wants(j, s)
      BY <3>2 DEF Passed, U
    <3>4. Passed(j, s, st) = First(U, Before(j, key)) \cap Wants(j, s)
      BY <3>1 DEF Passed, U
    <3>5. /\ Passed(j, s, new) = Passed(j, s, st) \cup (ToSet(page) \cap Wants(j, s))
          /\ Passed(j, s, st) \cap ToSet(page) = {}
      BY <3>3, <3>4, <2>8
    <3> QED BY <3>5, <2>5, <2>6, <2>7, <2>10, <1>2 DEF new, page, key
  <2>11. CASE ~Plain(j) /\ new.status # "invalid"
    <3>1. Passed(j, s, st) = First(U, Len(U)) \cap Wants(j, s) /\ Passed(j, s, new) = First(U, Len(U)) \cap Wants(j, s)
      BY <2>11 DEF Passed, Reached
    <3>2. ToSet(page) \cap Wants(j, s) \subseteq Passed(j, s, new)
      BY <3>1, <2>8, <2>9
    <3>3. new.status = "done" => Passed(j, s, new) = ToSet(page) \cap Wants(j, s)
      <4>1. First(U, 0) = {}
        BY FirstIs
      <4>2. new.status = "done" => Before(j, key) = 0 /\ Upto(j, s, key) = Len(U)
        BY <2>2, <2>5, <2>11
      <4> QED BY <4>1, <4>2, <3>1, <2>8
    <3> QED BY <3>1, <3>2, <3>3, <2>5, <2>6, <2>7, <2>11, <1>2 DEF new, page, key
  <2>12. CASE new.status = "invalid"
    BY <2>5, <2>6, <2>12, <1>2 DEF new
  <2> QED BY <2>10, <2>11, <2>12
<1> QED BY <1>1, <1>2

\* Between pages.
Between == PagesInv /\ job.mode # "complete" /\ call = "running"

\* What is passed was asked for.
LEMMA PassedIs ==
  ASSUME NEW j \in Jobs, NEW s \in Streams(j), NEW st \in StreamType,
         st.status = "open" => GoodKey(j, s, st.key)
  PROVE  Passed(j, s, st) \subseteq Asked(j)
<1>1. Len(Upstream(j, s)) \in Nat
  BY UpstreamIs
<1>2. Reached(j, s, st) \in Nat /\ Reached(j, s, st) <= Len(Upstream(j, s))
  <2>1. st.status = "open" => Before(j, st.key) \in Nat /\ Before(j, st.key) <= Len(Upstream(j, s))
    <3>1. st.status = "open" => Before(j, st.key) \in Nat
      BY PageIs
    <3> QED BY <3>1 DEF GoodKey
  <2> QED BY <2>1, <1>1 DEF Reached
<1>3. First(Upstream(j, s), Reached(j, s, st)) \subseteq ToSet(Upstream(j, s))
  BY <1>1, <1>2, FirstIs
<1>4. ToSet(Upstream(j, s)) \cap Wants(j, s) \subseteq Asked(j)
  BY StreamsCover
<1> QED BY <1>3, <1>4 DEF Passed

\* The rows of the next page.
LEMMA PageItemsAre ==
  ASSUME Between
  PROVE  /\ PageItems \in Seq(Row) /\ Injective(PageItems)
         /\ \A r \in ToSet(PageItems) : \E s \in Streams(job) :
              stream[s].status = "open" /\ r \in ToSet(PageAt(job, s, stream[s].key)) \cap Wants(job, s)
         /\ \A s \in Streams(job) : stream[s].status = "open" =>
              \A r \in ToSet(PageAt(job, s, stream[s].key)) \cap Wants(job, s) :
                NewestIn(job, r) => r \in ToSet(PageItems)
         /\ ToSet(PageItems) \subseteq Asked(job)
<1> DEFINE rows == [s \in Streams(job) |-> IF stream[s].status = "done" THEN <<>>
                                           ELSE Kept(job, s, PageAt(job, s, stream[s].key))]
<1>1. PageItems = Merged(job, rows)
  BY DEF PageItems
<1>2. /\ job \in Jobs /\ stream \in [Streams(job) -> StreamType] /\ job.mode # "complete"
      /\ \A s \in Streams(job) : /\ stream[s].status \in {"open", "done"}
                                 /\ stream[s].status = "open" => GoodKey(job, s, stream[s].key)
  BY DEF Between, PagesInv, PagesType, ListedInv, PlacesInv
<1>3. ASSUME NEW s \in Streams(job), stream[s].status = "done"
      PROVE  rows[s] \in Seq(Row) /\ Injective(rows[s]) /\ ToSet(rows[s]) = {}
  <2>1. rows[s] = <<>>
    BY <1>3
  <2> HIDE DEF rows
  <2> QED BY <2>1, NothingListed
<1>4. ASSUME NEW s \in Streams(job), stream[s].status = "open"
      PROVE  /\ rows[s] \in Seq(Row) /\ Injective(rows[s])
             /\ ToSet(rows[s]) = ToSet(PageAt(job, s, stream[s].key)) \cap Wants(job, s)
             /\ ToSet(rows[s]) \subseteq Asked(job)
  <2>1. rows[s] = Kept(job, s, PageAt(job, s, stream[s].key))
    BY <1>4
  <2> HIDE DEF rows
  <2>2. GoodKey(job, s, stream[s].key)
    BY <1>2, <1>4
  <2>3. /\ PageAt(job, s, stream[s].key) \in Seq(Row) /\ Injective(PageAt(job, s, stream[s].key))
        /\ ToSet(PageAt(job, s, stream[s].key)) \subseteq ToSet(Upstream(job, s))
    <3>1. /\ PageAt(job, s, stream[s].key) \in Seq(Row) /\ Injective(PageAt(job, s, stream[s].key))
          /\ ToSet(PageAt(job, s, stream[s].key)) \subseteq First(Upstream(job, s), Upto(job, s, stream[s].key))
          /\ Upto(job, s, stream[s].key) \in Nat /\ Upto(job, s, stream[s].key) <= Len(Upstream(job, s))
      BY <1>2, <2>2, PageIs
    <3>2. Len(Upstream(job, s)) \in Nat
      BY <1>2, UpstreamIs
    <3>3. First(Upstream(job, s), Upto(job, s, stream[s].key)) \subseteq ToSet(Upstream(job, s))
      BY <1>2, <3>1, <3>2, FirstIs
    <3> QED BY <3>1, <3>3
  <2>4. ToSet(Upstream(job, s)) \cap Wants(job, s) \subseteq Asked(job)
    BY <1>2, StreamsCover
  <2>5. /\ rows[s] \in Seq(Row) /\ Injective(rows[s])
        /\ ToSet(rows[s]) = ToSet(PageAt(job, s, stream[s].key)) \cap Wants(job, s)
    BY <2>1, <2>3, KeptIs
  <2> QED BY <2>3, <2>4, <2>5
<1>5. \A s \in Streams(job) : /\ rows[s] \in Seq(Row) /\ Injective(rows[s])
                              /\ ToSet(rows[s]) \subseteq ToSet(job.rows) \cap Wants(job, s)
  <2> HIDE DEF rows
  <2>1. Asked(job) \subseteq ToSet(job.rows)
    BY DEF Asked
  <2> QED BY <2>1, <1>2, <1>3, <1>4
<1> HIDE DEF rows
<1>6. /\ Merged(job, rows) \in Seq(Row) /\ Injective(Merged(job, rows))
      /\ \A r \in ToSet(Merged(job, rows)) : \E s \in Streams(job) : r \in ToSet(rows[s])
      /\ \A s \in Streams(job) : \A r \in ToSet(rows[s]) : NewestIn(job, r) => r \in ToSet(Merged(job, rows))
  BY <1>2, <1>5, MergedPage
<1>7. ASSUME NEW r \in ToSet(PageItems)
      PROVE  /\ \E s \in Streams(job) :
                  stream[s].status = "open" /\ r \in ToSet(PageAt(job, s, stream[s].key)) \cap Wants(job, s)
             /\ r \in Asked(job)
  <2>1. PICK s \in Streams(job) : r \in ToSet(rows[s])
    BY <1>1, <1>6
  <2>2. stream[s].status = "open"
    BY <2>1, <1>2, <1>3
  <2> QED BY <2>1, <2>2, <1>4
<1>8. ASSUME NEW s \in Streams(job), stream[s].status = "open",
             NEW r \in ToSet(PageAt(job, s, stream[s].key)) \cap Wants(job, s), NewestIn(job, r)
      PROVE  r \in ToSet(PageItems)
  BY <1>1, <1>4, <1>6, <1>8
<1> QED BY <1>1, <1>6, <1>7, <1>8

\* A page has none of the rows already listed, but for transactions to oneself.
LEMMA PagesApart ==
  ASSUME Between, Plain(job), job.mode = "pages", ~Repeats(job)
  PROVE  ToSet(listed) \cap ToSet(PageItems) = {}
<1>1. /\ job \in Jobs /\ stream \in [Streams(job) -> StreamType] /\ PlacesInv
  BY DEF Between, PagesInv, PagesType, ListedInv
<1> SUFFICES ASSUME NEW r \in ToSet(listed), r \in ToSet(PageItems) PROVE FALSE
  OBVIOUS
<1>2. PICK s \in Streams(job) : stream[s].status = "open" /\ r \in ToSet(PageAt(job, s, stream[s].key)) \cap Wants(job, s)
  BY PageItemsAre
<1>3. PICK t \in Streams(job) : r \in Passed(job, t, stream[t])
  BY <1>1 DEF PlacesInv
<1>4. GoodKey(job, s, stream[s].key) /\ (stream[t].status = "open" => GoodKey(job, t, stream[t].key))
  BY <1>1, <1>2 DEF PlacesInv
<1>5. CASE s = t
  <2>1. Passed(job, s, stream[s]) = First(Upstream(job, s), Before(job, stream[s].key)) \cap Wants(job, s)
    BY <1>2 DEF Passed, Reached
  <2>2. First(Upstream(job, s), Before(job, stream[s].key)) \cap ToSet(PageAt(job, s, stream[s].key)) = {}
    BY <1>1, <1>4, PageIs
  <2> QED BY <2>1, <2>2, <1>2, <1>3, <1>5
<1>6. CASE s # t
  <2>1. TwoStreams(job) /\ job.provider = "alchemy"
    BY <1>6 DEF Streams, TwoStreams
  <2>2. job.subject = "erc20"
    BY <2>1, <1>1, JobIs DEF Repeats
  <2>3. r \in ToSet(Upstream(job, s)) \cap Wants(job, s)
    <3>1. /\ ToSet(PageAt(job, s, stream[s].key)) \subseteq First(Upstream(job, s), Upto(job, s, stream[s].key))
          /\ Upto(job, s, stream[s].key) \in Nat /\ Upto(job, s, stream[s].key) <= Len(Upstream(job, s))
      BY <1>1, <1>4, PageIs
    <3>2. Len(Upstream(job, s)) \in Nat
      BY <1>1, UpstreamIs
    <3>3. First(Upstream(job, s), Upto(job, s, stream[s].key)) \subseteq ToSet(Upstream(job, s))
      BY <1>1, <3>1, <3>2, FirstIs
    <3> QED BY <3>1, <3>3, <1>2
  <2>4. r \in ToSet(Upstream(job, t)) \cap Wants(job, t)
    <3>1. Len(Upstream(job, t)) \in Nat
      BY <1>1, UpstreamIs
    <3>2. stream[t].status = "open" => Before(job, stream[t].key) \in Nat /\ Before(job, stream[t].key) <= Len(Upstream(job, t))
      <4>1. stream[t].status = "open" => Before(job, stream[t].key) \in Nat
        BY <1>1, <1>4, PageIs
      <4> QED BY <4>1, <1>4 DEF GoodKey
    <3>3. Reached(job, t, stream[t]) \in Nat /\ Reached(job, t, stream[t]) <= Len(Upstream(job, t))
      BY <3>1, <3>2 DEF Reached
    <3>4. First(Upstream(job, t), Reached(job, t, stream[t])) \subseteq ToSet(Upstream(job, t))
      BY <1>1, <3>1, <3>3, FirstIs
    <3> QED BY <3>4, <1>3 DEF Passed
  <2>5. {s, t} = {"incoming", "outgoing"}
    BY <1>6, <2>1 DEF Streams
  <2>6. (ToSet(Upstream(job, "incoming")) \cap Wants(job, "incoming"))
          \cap (ToSet(Upstream(job, "outgoing")) \cap Wants(job, "outgoing")) = {}
    BY <1>1, <2>1, <2>2, StreamsCover
  <2> QED BY <2>3, <2>4, <2>5, <2>6
<1> QED BY <1>5, <1>6

\* Every stream turns to its next page.
Turns == stream' = [s \in Streams(job) |-> Turned(job, s, stream[s])] /\ job' = job

\* The streams stay what they are made of; a service that is honest is never refused for its keys.
LEMMA StreamsTurn ==
  ASSUME Between, Turns
  PROVE  /\ stream' \in [Streams(job) -> StreamType]
         /\ HonestKeys(job) => ~\E s \in Streams(job) : stream'[s].status = "invalid"
<1>1. /\ job \in Jobs /\ stream \in [Streams(job) -> StreamType] /\ PlacesInv
  BY DEF Between, PagesInv, PagesType, ListedInv
<1>2. ASSUME NEW s \in Streams(job)
      PROVE  /\ Turned(job, s, stream[s]) \in StreamType
             /\ Turned(job, s, stream[s]).status = "invalid" => ~HonestKeys(job)
  <2>1. /\ stream[s] \in StreamType /\ stream[s].status \in {"open", "done"}
        /\ stream[s].status = "open" => GoodKey(job, s, stream[s].key)
    BY <1>1 DEF PlacesInv
  <2> QED BY <2>1, <1>1, TurnedIs
<1> QED BY <1>2 DEF Turns

\* With the rows of the page listed, the places are right again.
LEMMA PlacesKept ==
  ASSUME Between, Turns, \A s \in Streams(job) : stream'[s].status # "invalid",
         ToSet(listed') = ToSet(listed) \cup ToSet(PageItems)
  PROVE  PlacesInv'
<1>1. /\ job \in Jobs /\ stream \in [Streams(job) -> StreamType] /\ PlacesInv
  BY DEF Between, PagesInv, PagesType, ListedInv
<1>2. ASSUME NEW s \in Streams(job)
      PROVE  /\ stream[s] \in StreamType /\ stream[s].status \in {"open", "done"}
             /\ stream[s].status = "open" => GoodKey(job, s, stream[s].key)
             /\ Covers(job, s, stream[s], listed)
             /\ stream'[s] = Turned(job, s, stream[s])
  BY <1>1 DEF PlacesInv, Turns
<1>3. ASSUME NEW s \in Streams(job)
      PROVE  /\ stream'[s].status \in {"open", "done"}
             /\ stream'[s].status = "open" => GoodKey(job, s, stream'[s].key)
             /\ stream[s].status = "done" => stream'[s] = stream[s]
             /\ stream[s].status = "open" =>
                  /\ Passed(job, s, stream[s]) \subseteq Passed(job, s, stream'[s])
                  /\ ToSet(PageAt(job, s, stream[s].key)) \cap Wants(job, s) \subseteq Passed(job, s, stream'[s])
                  /\ Plain(job) => Passed(job, s, stream'[s]) =
                                     Passed(job, s, stream[s]) \cup (ToSet(PageAt(job, s, stream[s].key)) \cap Wants(job, s))
                  /\ ~Plain(job) /\ stream'[s].status = "done" =>
                       Passed(job, s, stream'[s]) = ToSet(PageAt(job, s, stream[s].key)) \cap Wants(job, s)
  <2> DEFINE st == stream[s]
             new == Turned(job, s, st)
  <2>1. st \in StreamType /\ st.status \in {"open", "done"} /\ (st.status = "open" => GoodKey(job, s, st.key))
    BY <1>2
  <2> HIDE DEF st
  <2>2. /\ new.status \in {"open", "done", "invalid"}
        /\ new.status = "open" => GoodKey(job, s, new.key)
        /\ st.status = "done" => new = st
        /\ st.status = "open" /\ new.status # "invalid" =>
             /\ Passed(job, s, st) \subseteq Passed(job, s, new)
             /\ ToSet(PageAt(job, s, st.key)) \cap Wants(job, s) \subseteq Passed(job, s, new)
             /\ Plain(job) => Passed(job, s, new) = Passed(job, s, st) \cup (ToSet(PageAt(job, s, st.key)) \cap Wants(job, s))
             /\ ~Plain(job) /\ new.status = "done" =>
                  Passed(job, s, new) = ToSet(PageAt(job, s, st.key)) \cap Wants(job, s)
    BY <2>1, <1>1, TurnedIs
  <2>3. stream'[s] = new /\ new.status # "invalid"
    BY <1>2 DEF st
  <2> HIDE DEF new
  <2> QED BY <2>2, <2>3 DEF st
<1>4. ASSUME NEW s \in Streams(job)
      PROVE  Covers(job, s, stream'[s], listed')
  <2> SUFFICES ASSUME Plain(job) \/ stream'[s].status = "done",
                      NEW r \in Passed(job, s, stream'[s]), NewestIn(job, r)
               PROVE  r \in ToSet(listed')
    BY DEF Covers
  <2>1. CASE stream[s].status = "done"
    BY <2>1, <1>2, <1>3 DEF Covers
  <2>2. CASE stream[s].status = "open"
    <3>1. \/ Plain(job) /\ r \in Passed(job, s, stream[s])
          \/ r \in ToSet(PageAt(job, s, stream[s].key)) \cap Wants(job, s)
      BY <2>2, <1>3
    <3>2. CASE Plain(job) /\ r \in Passed(job, s, stream[s])
      BY <3>2, <1>2 DEF Covers
    <3>3. CASE r \in ToSet(PageAt(job, s, stream[s].key)) \cap Wants(job, s)
      BY <3>3, <2>2, PageItemsAre
    <3> QED BY <3>1, <3>2, <3>3
  <2> QED BY <2>1, <2>2, <1>2
<1>5. ASSUME NEW r \in ToSet(listed')
      PROVE  \E s \in Streams(job) : r \in Passed(job, s, stream'[s])
  <2>1. CASE r \in ToSet(listed)
    <3>1. PICK s \in Streams(job) : r \in Passed(job, s, stream[s])
      BY <2>1, <1>1 DEF PlacesInv
    <3> QED BY <3>1, <1>2, <1>3
  <2>2. CASE r \in ToSet(PageItems)
    <3>1. PICK s \in Streams(job) : stream[s].status = "open" /\ r \in ToSet(PageAt(job, s, stream[s].key)) \cap Wants(job, s)
      BY <2>2, PageItemsAre
    <3> QED BY <3>1, <1>3
  <2> QED BY <2>1, <2>2
<1>6. job' = job
  BY DEF Turns
<1> QED BY <1>3, <1>4, <1>5, <1>6 DEF PlacesInv

\* A page for a caller.
LEMMA ListKeeps ==
  ASSUME PagesInv, ListPage
  PROVE  PagesInv'
<1>1. Between /\ Turns /\ job.mode = "pages"
  BY DEF ListPage, Between, Turns
<1>2. /\ job \in Jobs /\ listed \in Seq(Row) /\ ListedInv /\ job' = job
  BY <1>1 DEF PagesInv, PagesType, Turns
<1>3. /\ stream' \in [Streams(job) -> StreamType]
      /\ HonestKeys(job) => ~\E s \in Streams(job) : stream'[s].status = "invalid"
  BY <1>1, StreamsTurn
<1>4. CASE \E s \in Streams(job) : stream'[s].status = "invalid"
  <2>1. call' = "invalid" /\ listed' = listed
    BY <1>4 DEF ListPage
  <2>2. ListedInv'
    BY <2>1, <1>1, <1>2, <1>3, <1>4 DEF ListedInv, PlacesInv
  <2>3. PagesType'
    BY <2>1, <1>2, <1>3 DEF PagesType, Ended, Failures
  <2> QED BY <2>2, <2>3, <1>1, <1>2 DEF PagesInv
<1>5. CASE ~\E s \in Streams(job) : stream'[s].status = "invalid"
  <2>1. listed' = listed \o PageItems /\ call' = IF AllDone(stream') THEN "returned" ELSE "running"
    BY <1>5 DEF ListPage
  <2>2. /\ PageItems \in Seq(Row) /\ Injective(PageItems) /\ ToSet(PageItems) \subseteq Asked(job)
    BY <1>1, PageItemsAre
  <2>3. /\ listed' \in Seq(Row) /\ ToSet(listed') = ToSet(listed) \cup ToSet(PageItems)
        /\ Injective(listed) /\ ToSet(listed) \cap ToSet(PageItems) = {} => Injective(listed')
    BY <2>1, <2>2, <1>2, ListsAfterAnother
  <2>4. PlacesInv'
    BY <2>3, <1>1, <1>5, PlacesKept
  <2>5. Plain(job) => Injective(listed') \/ Repeats(job)
    BY <2>3, <1>1, <1>2, PagesApart DEF ListedInv
  <2>6. ASSUME NEW r \in ToSet(listed') PROVE r \in Asked(job) /\ ~r.outside
    <3>1. r \in Asked(job)
      BY <2>2, <2>3, <1>2 DEF ListedInv
    <3>2. r \in ToSet(job.rows)
      BY <3>1 DEF Asked
    <3> QED BY <3>1, <3>2, <1>1, <1>2, RowsAre
  <2>7. ListedInv'
    BY <2>1, <2>4, <2>5, <2>6, <1>2 DEF ListedInv
  <2>8. PagesType'
    BY <2>1, <2>3, <1>2, <1>3 DEF PagesType, Ended
  <2> QED BY <2>7, <2>8, <1>1, <1>2 DEF PagesInv
<1> QED BY <1>4, <1>5

\* A page for AddressService.
LEMMA FollowKeeps ==
  ASSUME PagesInv, FollowCursor
  PROVE  PagesInv'
<1>1. Between /\ Turns /\ job.mode = "address"
  BY DEF FollowCursor, Between, Turns
<1>2. /\ job \in Jobs /\ listed \in Seq(Row) /\ ListedInv /\ job' = job
  BY <1>1 DEF PagesInv, PagesType, Turns
<1>3. /\ stream' \in [Streams(job) -> StreamType]
      /\ HonestKeys(job) => ~\E s \in Streams(job) : stream'[s].status = "invalid"
  BY <1>1, StreamsTurn
<1> DEFINE items == PageItems
           more == Unseen(items, listed)
<1>4. items \in Seq(Row) /\ Injective(items) /\ ToSet(items) \subseteq Asked(job)
  BY <1>1, PageItemsAre
<1>5. /\ \/ call' = "invalid" /\ listed' = listed /\ \E s \in Streams(job) : stream'[s].status = "invalid"
         \/ call' = "stalled" /\ listed' = listed
         \/ call' = "too_large" /\ listed' = listed /\ Len(listed \o more) > MaxRecords
         \/ /\ ~\E s \in Streams(job) : stream'[s].status = "invalid"
            /\ \A r \in ToSet(items) : ~r.outside
            /\ listed' = listed \o more
            /\ call' = IF AllDone(stream') THEN "returned" ELSE "running"
  BY DEF FollowCursor, Recorded
<1> HIDE DEF items
<1>6. more \in Seq(Row) /\ Injective(more) /\ ToSet(more) = ToSet(items) \ ToSet(listed)
  BY <1>2, <1>4, UnseenIs
<1> HIDE DEF more
<1>7. /\ listed \o more \in Seq(Row) /\ ToSet(listed \o more) = ToSet(listed) \cup ToSet(more)
      /\ Injective(listed) /\ ToSet(listed) \cap ToSet(more) = {} => Injective(listed \o more)
  BY <1>2, <1>6, ListsAfterAnother
<1>8. ToSet(listed \o more) = ToSet(listed) \cup ToSet(items)
  BY <1>6, <1>7
<1>9. Plain(job) => Injective(listed) /\ Injective(listed \o more)
  <2>1. Plain(job) => Injective(listed)
    BY <1>1, <1>2 DEF ListedInv, Repeats
  <2>2. ToSet(listed) \cap ToSet(more) = {}
    BY <1>6
  <2> QED BY <2>1, <2>2, <1>7
<1>10. \A r \in ToSet(listed \o more) : r \in Asked(job)
  BY <1>2, <1>4, <1>8 DEF ListedInv
<1>11. ASSUME Len(listed \o more) > MaxRecords, HonestKeys(job)
       PROVE  TooMany(job)
  <2> DEFINE all == listed \o more
  <2>1. Plain(job)
    BY <1>11 DEF HonestKeys, Plain
  <2>2. all \in Seq(Row) /\ Injective(all) /\ ToSet(all) \in SUBSET ToSet(job.rows)
    BY <2>1, <1>7, <1>9, <1>10 DEF Asked
  <2> HIDE DEF all
  <2>3. Cardinality(ToSet(all)) = Len(all) /\ Len(all) \in Nat
    BY <2>2, MembersAreFinite
  <2>4. /\ job.rows \in Seq(Row) /\ Len(job.rows) \in Nat
        /\ IsFiniteSet(ToSet(job.rows)) /\ Cardinality(ToSet(job.rows)) <= Len(job.rows)
    <3>1. job.rows \in Seq(Row)
      BY <1>2, RowsAre
    <3> QED BY <3>1, MembersAreFinite
  <2>5. Cardinality(ToSet(all)) <= Cardinality(ToSet(job.rows)) /\ Cardinality(ToSet(job.rows)) \in Nat
    BY <2>2, <2>4, FS_Subset, FS_CardinalityType
  <2>6. Len(all) > MaxRecords /\ MaxRecords \in Nat
    BY <1>11, PagesAssumption DEF all
  <2>7. Len(job.rows) > MaxRecords
    BY <2>3, <2>4, <2>5, <2>6
  <2> QED BY <2>7, <1>1 DEF TooMany
<1>12. CASE listed' = listed /\ call' \in {"invalid", "stalled", "too_large"}
  <2>1. call' \in {"too_large", "invalid"} /\ HonestKeys(job) => TooMany(job)
    BY <1>3, <1>5, <1>11
  <2>2. ListedInv'
    BY <2>1, <1>2, <1>12 DEF ListedInv
  <2>3. PagesType'
    BY <1>2, <1>3, <1>12 DEF PagesType, Ended, Failures
  <2> QED BY <2>2, <2>3, <1>1, <1>2 DEF PagesInv
<1>13. CASE /\ ~\E s \in Streams(job) : stream'[s].status = "invalid"
            /\ \A r \in ToSet(items) : ~r.outside
            /\ listed' = listed \o more
            /\ call' = IF AllDone(stream') THEN "returned" ELSE "running"
  <2>1. PlacesInv'
    BY <1>1, <1>8, <1>13, PlacesKept DEF items
  <2>2. \A r \in ToSet(listed') : r \in Asked(job) /\ ~r.outside
    BY <1>2, <1>8, <1>10, <1>13 DEF ListedInv
  <2>3. ListedInv'
    BY <2>1, <2>2, <1>2, <1>9, <1>13 DEF ListedInv
  <2>4. PagesType'
    BY <1>2, <1>3, <1>7, <1>13 DEF PagesType, Ended
  <2> QED BY <2>3, <2>4, <1>1, <1>2 DEF PagesInv
<1> QED BY <1>5, <1>12, <1>13

\* At first nothing is read.
LEMMA PagesBegin == Init => PagesInv
<1> SUFFICES ASSUME Init PROVE PagesInv
  OBVIOUS
<1>1. /\ job \in Jobs /\ call = "running" /\ listed = <<>>
      /\ stream = [s \in Streams(job) |-> [key |-> 1, pages |-> 0, rows |-> <<>>, status |-> "open"]]
  BY DEF Init
<1>2. listed \in Seq(Row) /\ Len(listed) = 0 /\ ToSet(listed) = {} /\ Injective(listed)
  BY <1>1, NothingListed
<1>3. stream \in [Streams(job) -> StreamType]
  <2>1. <<>> \in Seq(Row)
    BY NothingListed
  <2>2. [key |-> 1, pages |-> 0, rows |-> <<>>, status |-> "open"] \in StreamType
    BY <2>1 DEF StreamType
  <2> QED BY <2>2, <1>1
<1>4. PagesType
  BY <1>1, <1>2, <1>3 DEF PagesType
<1>5. Before(job, 1) = 0 /\ At(job, 1) = 1
  BY PagesAssumption DEF Before, At
<1>6. \A s \in Streams(job) : GoodKey(job, s, 1) /\ First(Upstream(job, s), 0) = {}
  <2> SUFFICES ASSUME NEW s \in Streams(job) PROVE GoodKey(job, s, 1) /\ First(Upstream(job, s), 0) = {}
    OBVIOUS
  <2>1. Len(Upstream(job, s)) \in Nat
    BY <1>1, UpstreamIs
  <2>2. First(Upstream(job, s), 0) = {}
    BY <1>1, FirstIs
  <2> QED BY <2>1, <2>2, <1>5 DEF GoodKey
<1>7. CompleteInv
  <2>1. ASSUME NEW s \in Streams(job)
        PROVE  Has(job, s, <<>>, Before(job, 1))
    <3>1. /\ <<>> \in Seq(Row) /\ Len(<<>>) <= 0 /\ ToSet(<<>>) = {} /\ Injective(<<>>)
      BY <1>1, <1>2
    <3>2. First(Upstream(job, s), 0) \cap Gathers(job, s) = {}
      BY <1>6
    <3> QED BY <3>1, <3>2, <1>5 DEF Has
  <2>2. ASSUME NEW s \in Streams(job)
        PROVE  StreamGood(job, s, stream[s])
    <3>1. stream[s].key = 1 /\ stream[s].pages = 0 /\ stream[s].rows = <<>> /\ stream[s].status = "open"
      BY <1>1
    <3> QED BY <3>1, <2>1, <1>6 DEF StreamGood
  <2> QED BY <2>2, <1>1 DEF CompleteInv
<1>8. ListedInv
  <2>1. ASSUME NEW s \in Streams(job)
        PROVE  Covers(job, s, stream[s], listed)
    <3>1. stream[s].key = 1 /\ stream[s].status = "open"
      BY <1>1
    <3>2. Plain(job) => Passed(job, s, stream[s]) = {}
      BY <3>1, <1>5, <1>6 DEF Passed, Reached
    <3> QED BY <3>1, <3>2 DEF Covers
  <2>2. PlacesInv
    BY <2>1, <1>1, <1>2, <1>6 DEF PlacesInv
  <2> QED BY <2>2, <1>1, <1>2 DEF ListedInv
<1> QED BY <1>4, <1>7, <1>8 DEF PagesInv

\* What is left of the steps: a call of AddressService that fails or is aborted.
LEMMA EndKeeps ==
  ASSUME PagesInv, FailCursor \/ StopScan \/ Abort
  PROVE  PagesInv'
<1>1. /\ job.mode = "address" /\ job' = job /\ stream' = stream /\ listed' = listed /\ call = "running"
      /\ call' \in {"failed", "aborted", "running"}
  BY DEF FailCursor, StopScan, Abort
<1>2. ListedInv /\ PagesType
  BY <1>1 DEF PagesInv
<1>3. PlacesInv'
  BY <1>1, <1>2 DEF ListedInv, PlacesInv
<1>4. ListedInv'
  BY <1>1, <1>2, <1>3 DEF ListedInv
<1>5. PagesType'
  BY <1>1, <1>2 DEF PagesType, Ended, Failures
<1> QED BY <1>1, <1>4, <1>5 DEF PagesInv

\* The invariant of every read.
LEMMA PagesInvHolds == Spec => []PagesInv
<1>1. Init => PagesInv
  BY PagesBegin
<1>2. PagesInv /\ [Next]_vars => PagesInv'
  <2> SUFFICES ASSUME PagesInv, [Next]_vars PROVE PagesInv'
    OBVIOUS
  <2>1. CASE \E s \in Streams(job) : FetchPage(s) \/ FailPage(s)
    BY <2>1, FetchKeeps, FailKeeps
  <2>2. CASE ListPage
    BY <2>2, ListKeeps
  <2>3. CASE FollowCursor
    BY <2>3, FollowKeeps
  <2>4. CASE FailCursor \/ StopScan \/ Abort
    BY <2>4, EndKeeps
  <2>5. CASE UNCHANGED vars
    <3>1. job' = job /\ stream' = stream /\ listed' = listed /\ call' = call
      BY <2>5 DEF vars
    <3>2. PagesType'
      BY <3>1 DEF PagesInv, PagesType
    <3>3. CompleteInv => CompleteInv'
      BY <3>1 DEF CompleteInv, AllDone
    <3>4. ListedInv => ListedInv'
      <4>1. PlacesInv => PlacesInv'
        BY <3>1 DEF PlacesInv
      <4> QED BY <3>1, <4>1 DEF ListedInv, AllDone
    <3> QED BY <3>1, <3>2, <3>3, <3>4 DEF PagesInv
  <2> QED BY <2>1, <2>2, <2>3, <2>4, <2>5 DEF Next
<1> QED BY <1>1, <1>2, PTL DEF Spec

\* Whatever is read of whatever index: what a complete read or a followed cursor returns is what was
\* asked for, each row once and without the copies it can tell are outdated, and no page repeats a
\* row (AlchemyAdapter, EtherscanAdapter, MoralisAdapter, AddressService).
THEOREM ListingsAreExact == Spec => []ListingIsExact
<1>1. PagesInv => ListingIsExact
  <2> SUFFICES ASSUME PagesInv PROVE ListingIsExact
    OBVIOUS
  <2>1. job \in Jobs /\ listed \in Seq(Row)
    BY DEF PagesInv, PagesType
  <2>2. Injective(listed) => NoRowTwice
    BY <2>1, MembersAreFinite DEF NoRowTwice
  <2>3. \A r : Newest(r) <=> NewestIn(job, r)
    BY DEF Newest, NewestIn
  <2>4. Honest => Plain(job)
    BY DEF Honest, Plain
  <2> DEFINE wanted == {r \in ToSet(job.rows) : DirectionMatches(r, job.direction) /\ ~r.outside}
  <2>5. CASE job.mode = "complete"
    <3>1. CompleteInv
      BY <2>5 DEF PagesInv
    <3>2. CASE call # "returned"
      <4>1. listed = <<>>
        BY <3>1, <3>2 DEF CompleteInv
      <4>2. NoRowTwice
        BY <4>1, <2>2, NothingListed
      <4> QED BY <4>2, <3>2 DEF ListingIsExact
    <3>3. CASE call = "returned"
      <4> DEFINE rows == [s \in Streams(job) |-> stream[s].rows]
      <4>1. listed = Merged(job, rows) /\ AllDone(stream) /\ DOMAIN stream = Streams(job)
        BY <3>1, <3>3 DEF CompleteInv, PagesInv, PagesType
      <4>2. \A s \in Streams(job) : Has(job, s, rows[s], Len(Upstream(job, s)))
        BY <3>1, <4>1 DEF CompleteInv, StreamGood, AllDone
      <4> HIDE DEF rows
      <4>3. Injective(listed) /\ ToSet(listed) = {r \in Asked(job) : NewestIn(job, r)}
        BY <2>1, <2>5, <4>1, <4>2, MergedRange
      <4>4. NoRowTwice
        BY <4>3, <2>2
      <4>5. wanted = Asked(job)
        BY <2>1, <2>5, RowsAre DEF Asked
      <4>6. /\ ToSet(listed) \subseteq wanted
            /\ \A r \in wanted : Newest(r) => r \in ToSet(listed)
            /\ \A r \in ToSet(listed) : Newest(r)
        BY <4>3, <4>5, <2>3
      <4> QED BY <4>4, <4>6 DEF ListingIsExact
    <3> QED BY <3>2, <3>3
  <2>6. CASE job.mode # "complete"
    <3>1. ListedInv
      BY <2>6 DEF PagesInv
    <3>2. Honest => NoRowTwice \/ (TwoStreams(job) /\ job.subject = "transactions")
      BY <3>1, <2>2, <2>4 DEF ListedInv, Repeats
    <3>3. ASSUME call = "returned"
          PROVE  /\ ToSet(listed) \subseteq wanted
                 /\ \A r \in wanted : Newest(r) => r \in ToSet(listed)
      <4>1. ToSet(listed) \subseteq wanted
        BY <3>1 DEF ListedInv, Asked
      <4>2. ASSUME NEW r \in wanted, Newest(r) PROVE r \in ToSet(listed)
        <5>1. r \in Asked(job)
          BY DEF Asked
        <5>2. PICK s \in Streams(job) : r \in ToSet(Upstream(job, s)) \cap Wants(job, s)
          BY <5>1, <2>1, StreamsCover
        <5>3. stream[s].status = "done" /\ Covers(job, s, stream[s], listed)
          BY <3>1, <3>3 DEF ListedInv, PlacesInv, AllDone, PagesInv, PagesType
        <5>4. r \in Passed(job, s, stream[s])
          <6>1. Reached(job, s, stream[s]) = Len(Upstream(job, s))
            BY <5>3 DEF Reached
          <6>2. First(Upstream(job, s), Len(Upstream(job, s))) = ToSet(Upstream(job, s))
            BY <2>1, FirstIs
          <6> QED BY <5>2, <6>1, <6>2 DEF Passed
        <5> QED BY <4>2, <5>3, <5>4, <2>3 DEF Covers
      <4> QED BY <4>1, <4>2
    <3> QED BY <3>2, <3>3, <2>6 DEF ListingIsExact
  <2> QED BY <2>5, <2>6
<1> QED BY <1>1, PagesInvHolds, PTL

\* For any limits with room for the empty page, a service that ends its listing honestly is read to
\* the end, or holds more rows than the record limit; only token holdings are refused at the limit
\* (the loops over ALCHEMY_MAX_RANGE_PAGES and over 1,000 or 10,001 pages).
THEOREM LimitsLeaveRoom == Spec => []LimitsAreWideEnough
<1>1. PagesInv => LimitsAreWideEnough
  BY DEF PagesInv, CompleteInv, ListedInv, LimitsAreWideEnough, TooMany, HonestKeys, Honest
<1> QED BY <1>1, PagesInvHolds, PTL

=============================================================================
