----------------------------- MODULE ClientProofs -----------------------------
(***************************************************************************)
(* Theorems about a client: ClientSetup, for any configurations, env files *)
(* and environments - what is found, merged, banned, derived and shared    *)
(* still leaves every reader an attended pool with an endpoint;            *)
(* ClientUpkeep, for any pools and keys, any number of checks that overlap *)
(* and restarts, and both drivers - outside the races that "murky"         *)
(* remembers, the count in memory, the row on disk or on its way there,    *)
(* and what a restore has read are the failures since the last success;    *)
(* ProviderRouting, for any providers, chains and requests - a cursor      *)
(* continues the listing it began, and the spelling of a request is free;  *)
(* and PriceReads, for any manifests, questions, endpoints and sizes of a  *)
(* batch - each part of a read comes to what it would come to by itself.   *)
(***************************************************************************)
EXTENDS ProviderRouting, ClientSetup, ClientUpkeep, PriceReads, FiniteSetTheorems, WellFoundedInduction, TLAPS

-----------------------------------------------------------------------------
(* Lists *)

\* A set of numbers has a smallest.
LEMMA Smallest ==
  ASSUME NEW S \in SUBSET Nat, S # {}
  PROVE  \E n \in S : \A m \in S : n <= m
<1>1. PICK n \in S : \A m \in S : ~(<<m, n>> \in OpToRel(<, Nat))
  BY NatLessThanWellFounded, WFMin, Zenon
<1>2. ASSUME NEW m \in S PROVE n <= m
  <2>1. m \in Nat /\ n \in Nat
    OBVIOUS
  <2>2. ~(m < n)
    BY <1>1, <2>1 DEF OpToRel
  <2> QED BY <2>1, <2>2
<1> QED BY <1>2

\* A list is a function on 1..n.
LEMMA ListShape ==
  ASSUME NEW s
  PROVE  IsList(s) <=> Len(s) \in Nat /\ DOMAIN s = 1..Len(s) /\ s = [i \in 1..Len(s) |-> s[i]]
<1>1. ASSUME IsList(s) PROVE Len(s) \in Nat /\ DOMAIN s = 1..Len(s) /\ s = [i \in 1..Len(s) |-> s[i]]
  BY <1>1 DEF IsList
<1>2. ASSUME Len(s) \in Nat, DOMAIN s = 1..Len(s), s = [i \in 1..Len(s) |-> s[i]]
      PROVE  IsList(s)
  <2>1. \A i \in 1..Len(s) : s[i] \in Range(s)
    BY <1>2 DEF Range
  <2> QED BY <1>2, <2>1 DEF IsList
<1> QED BY <1>1, <1>2

\* What is a sequence of anything is a list.
LEMMA SeqIsList ==
  ASSUME NEW E, NEW s \in Seq(E)
  PROVE  IsList(s)
  BY ListShape

\* Lists one after the other.
LEMMA ListsJoin ==
  ASSUME NEW s, NEW t, IsList(s), IsList(t)
  PROVE  /\ IsList(s \o t) /\ Len(s \o t) = Len(s) + Len(t)
         /\ \A i \in 1..Len(s) : (s \o t)[i] = s[i]
         /\ \A i \in 1..Len(t) : (s \o t)[Len(s) + i] = t[i]
         /\ Range(s \o t) = Range(s) \cup Range(t)
<1> DEFINE E == Range(s) \cup Range(t)
<1>1. s \in Seq(E) /\ t \in Seq(E)
  <2>1. s \in Seq(Range(s)) /\ t \in Seq(Range(t)) BY DEF IsList
  <2> HIDE DEF E
  <2>2. Range(s) \subseteq E /\ Range(t) \subseteq E BY DEF E
  <2> QED BY <2>1, <2>2
<1> HIDE DEF E
<1>2. /\ s \o t \in Seq(E) /\ Len(s \o t) = Len(s) + Len(t)
      /\ \A i \in 1..Len(s) : (s \o t)[i] = s[i]
      /\ \A i \in 1..Len(t) : (s \o t)[Len(s) + i] = t[i]
  BY <1>1
<1>3. IsList(s \o t)
  BY <1>2, SeqIsList
<1>4. Range(s \o t) = Range(s) \cup Range(t)
  <2>1. Len(s) \in Nat /\ Len(t) \in Nat /\ DOMAIN s = 1..Len(s) /\ DOMAIN t = 1..Len(t)
    BY ListShape
  <2>2. DOMAIN (s \o t) = 1..(Len(s) + Len(t))
    BY <1>2, <1>3, ListShape
  <2>3. \A i \in 1..(Len(s) + Len(t)) : i \notin 1..Len(s) => i - Len(s) \in 1..Len(t) /\ i = Len(s) + (i - Len(s))
    BY <2>1
  <2>4. \A i \in DOMAIN (s \o t) : (s \o t)[i] \in Range(s) \cup Range(t)
    BY <1>2, <2>1, <2>2, <2>3 DEF Range
  <2>5. \A i \in DOMAIN s : i \in DOMAIN (s \o t) /\ s[i] = (s \o t)[i]
    BY <1>2, <2>1, <2>2
  <2>6. \A i \in DOMAIN t : Len(s) + i \in DOMAIN (s \o t) /\ t[i] = (s \o t)[Len(s) + i]
    BY <1>2, <2>1, <2>2
  <2>7. Range(s \o t) \subseteq Range(s) \cup Range(t)
    BY <2>4 DEF Range
  <2>8. Range(s) \subseteq Range(s \o t)
    BY <2>5 DEF Range
  <2>9. Range(t) \subseteq Range(s \o t)
    BY <2>6 DEF Range
  <2> QED BY <2>7, <2>8, <2>9
<1> QED BY <1>2, <1>3, <1>4

\* A list with one more member.
LEMMA ListGrows ==
  ASSUME NEW s, NEW x, IsList(s)
  PROVE  /\ IsList(Append(s, x)) /\ Len(Append(s, x)) = Len(s) + 1
         /\ \A i \in 1..Len(s) : Append(s, x)[i] = s[i]
         /\ Append(s, x)[Len(s) + 1] = x
<1> DEFINE E == Range(s) \cup {x}
<1>1. s \in Seq(E)
  <2>1. s \in Seq(Range(s)) BY DEF IsList
  <2>2. Range(s) \subseteq E OBVIOUS
  <2> HIDE DEF E
  <2> QED BY <2>1, <2>2
<1>2. x \in E OBVIOUS
<1> HIDE DEF E
<1>3. /\ Append(s, x) \in Seq(E) /\ Len(Append(s, x)) = Len(s) + 1
      /\ \A i \in 1..Len(s) : Append(s, x)[i] = s[i]
      /\ Append(s, x)[Len(s) + 1] = x
  BY <1>1, <1>2
<1>4. IsList(Append(s, x))
  BY <1>3, SeqIsList
<1> QED BY <1>3, <1>4

-----------------------------------------------------------------------------
(* Unless and Among *)

\* kept begins with list; the rest of it is of the first n members of more and meets nothing before it; and each
\* of these is met by a member of list or one that came no later.
BeginsWith(list, kept) ==
  IsList(kept) /\ Len(kept) >= Len(list) /\ \A i \in 1..Len(list) : kept[i] = list[i]
AddsNew(fields, list, more, kept, n) ==
  \A i \in 1..Len(kept) : i > Len(list) =>
    /\ \E m \in 1..n : kept[i] = more[m]
    /\ \A j \in 1..(i - 1) : ~Meets(fields, kept[j], kept[i])
MeetsAll(fields, list, more, kept, n) ==
  \A m \in 1..n : \E i \in 1..Len(kept) :
    /\ Meets(fields, kept[i], more[m])
    /\ i <= Len(list) \/ \E k \in 1..m : kept[i] = more[k]
Kept(fields, list, more, kept, n) ==
  BeginsWith(list, kept) /\ AddsNew(fields, list, more, kept, n) /\ MeetsAll(fields, list, more, kept, n)

\* What one more member does to it.
LEMMA KeptGrows ==
  ASSUME NEW fields, fields # {}, NEW list, NEW more, NEW before, NEW n \in Nat \ {0},
         IsList(list), Kept(fields, list, more, before, n - 1),
         NEW after,
         after = IF \E i \in DOMAIN before : Meets(fields, before[i], more[n]) THEN before ELSE Append(before, more[n])
  PROVE  Kept(fields, list, more, after, n)
<1>1. /\ IsList(before) /\ Len(before) \in Nat /\ DOMAIN before = 1..Len(before)
      /\ Len(list) \in Nat /\ Len(before) >= Len(list)
  BY ListShape DEF Kept, BeginsWith
<1>2. CASE \E i \in DOMAIN before : Meets(fields, before[i], more[n])
  <2>1. after = before BY <1>2
  <2>2. PICK i \in 1..Len(before) : Meets(fields, before[i], more[n])
    BY <1>1, <1>2
  <2>3. i <= Len(list) \/ \E k \in 1..n : before[i] = more[k]
    <3>1. CASE i > Len(list)
      <4>1. PICK m \in 1..(n - 1) : before[i] = more[m]
        BY <3>1 DEF Kept, AddsNew
      <4>2. m \in 1..n
        OBVIOUS
      <4> QED BY <4>1, <4>2
    <3> QED BY <3>1, <1>1
  <2>4. \A m \in 1..n : m \in 1..(n - 1) \/ m = n
    OBVIOUS
  <2>5. \A m \in 1..n : \E k \in 1..Len(before) :
          /\ Meets(fields, before[k], more[m])
          /\ k <= Len(list) \/ \E l \in 1..m : before[k] = more[l]
    BY <2>2, <2>3, <2>4 DEF Kept, MeetsAll
  <2>6. \A k \in 1..Len(before) : k > Len(list) =>
           /\ \E m \in 1..n : before[k] = more[m]
           /\ \A j \in 1..(k - 1) : ~Meets(fields, before[j], before[k])
    <3>1. 1..(n - 1) \subseteq 1..n
      OBVIOUS
    <3> QED BY <3>1 DEF Kept, AddsNew
  <2>7. MeetsAll(fields, list, more, after, n)
    <3>1. MeetsAll(fields, list, more, before, n)
      BY <2>5, Zenon DEF MeetsAll
    <3> QED BY <3>1, <2>1
  <2>8. AddsNew(fields, list, more, after, n)
    BY <2>1, <2>6 DEF AddsNew
  <2> QED BY <2>1, <2>7, <2>8 DEF Kept
<1>3. CASE ~\E i \in DOMAIN before : Meets(fields, before[i], more[n])
  <2>1. /\ IsList(after) /\ Len(after) = Len(before) + 1
        /\ \A i \in 1..Len(before) : after[i] = before[i]
        /\ after[Len(before) + 1] = more[n]
    BY <1>1, <1>3, ListGrows
  <2>2. \A i \in 1..Len(after) : i \in 1..Len(before) \/ i = Len(before) + 1
    BY <1>1, <2>1
  <2>3. \A i \in 1..Len(list) : after[i] = list[i]
    BY <1>1, <2>1 DEF Kept, BeginsWith
  <2>4. ASSUME NEW i \in 1..Len(after), i > Len(list)
        PROVE  /\ \E m \in 1..n : after[i] = more[m]
               /\ \A j \in 1..(i - 1) : ~Meets(fields, after[j], after[i])
    <3>1. CASE i \in 1..Len(before)
      <4>1. PICK m \in 1..(n - 1) : before[i] = more[m]
        BY <3>1, <2>4 DEF Kept, AddsNew
      <4>2. m \in 1..n
        OBVIOUS
      <4>3. \A j \in 1..(i - 1) : ~Meets(fields, before[j], before[i])
        BY <3>1, <2>4 DEF Kept, AddsNew
      <4>4. \A j \in 1..(i - 1) : after[j] = before[j]
        BY <3>1, <2>1, <1>1
      <4> QED BY <4>1, <4>2, <4>3, <4>4, <3>1, <2>1
    <3>2. CASE i = Len(before) + 1
      <4>1. \A j \in 1..(i - 1) : j \in DOMAIN before /\ after[j] = before[j]
        BY <3>2, <2>1, <1>1
      <4> QED BY <4>1, <3>2, <2>1, <1>3
    <3> QED BY <3>1, <3>2, <2>2
  <2>5. ASSUME NEW m \in 1..n
        PROVE  \E i \in 1..Len(after) : /\ Meets(fields, after[i], more[m])
                                        /\ i <= Len(list) \/ \E k \in 1..m : after[i] = more[k]
    <3>1. CASE m = n
      <4>1. Meets(fields, more[n], more[n])
        BY DEF Meets
      <4> QED BY <4>1, <3>1, <2>1, <1>1
    <3>2. CASE m \in 1..(n - 1)
      <4>1. PICK i \in 1..Len(before) : /\ Meets(fields, before[i], more[m])
                                        /\ i <= Len(list) \/ \E k \in 1..m : before[i] = more[k]
        BY <3>2 DEF Kept, MeetsAll
      <4>2. i \in 1..Len(after) /\ after[i] = before[i]
        BY <2>1, <1>1
      <4> QED BY <4>1, <4>2
    <3> QED BY <3>1, <3>2
  <2>6. BeginsWith(list, after)
    BY <1>1, <2>1, <2>3 DEF BeginsWith
  <2>7. AddsNew(fields, list, more, after, n)
    BY <2>4 DEF AddsNew
  <2>8. MeetsAll(fields, list, more, after, n)
    BY <2>5 DEF MeetsAll
  <2> QED BY <2>6, <2>7, <2>8 DEF Kept
<1> QED BY <1>2, <1>3

\* What a merge keeps.
LEMMA UnlessKeeps ==
  ASSUME NEW fields, fields # {}, NEW list, NEW more, IsList(list), IsList(more)
  PROVE  Kept(fields, list, more, Unless(fields, list, more), Len(more))
<1> DEFINE Next(before, n) ==
             IF \E i \in DOMAIN before : Meets(fields, before[i], more[n]) THEN before ELSE Append(before, more[n])
           Builds(kept, l) == kept = [n \in 0..l |-> IF n = 0 THEN list ELSE Next(kept[n - 1], n)]
           Has(l) == \E kept : Builds(kept, l) /\ \A n \in 0..l : Kept(fields, list, more, kept[n], n)
           bad == {l \in 0..Len(more) : ~Has(l)}
<1>0. Len(more) \in Nat /\ Len(list) \in Nat
  BY ListShape
<1>1. bad = {}
  <2> SUFFICES ASSUME bad # {} PROVE FALSE
    OBVIOUS
  <2>1. PICK l \in bad : \A m \in bad : l <= m
    <3>1. bad \in SUBSET Nat
      OBVIOUS
    <3> HIDE DEF bad
    <3> QED BY <3>1, Smallest
  <2>2. l \in 0..Len(more) /\ ~Has(l)
    <3> HIDE DEF Has
    <3> QED OBVIOUS
  <2>3. l # 0
    <3> DEFINE k == [n \in 0..0 |-> list]
    <3>1. Builds(k, 0)
      OBVIOUS
    <3>2. Kept(fields, list, more, list, 0)
      BY <1>0, ListShape DEF Kept, BeginsWith, AddsNew, MeetsAll
    <3>3. \A n \in 0..0 : Kept(fields, list, more, k[n], n)
      BY <3>2
    <3> QED BY <3>1, <3>3, <2>2
  <2>4. l - 1 \in 0..Len(more) /\ l - 1 \notin bad
    <3>1. l - 1 \in 0..Len(more) /\ ~(l <= l - 1)
      BY <2>2, <2>3, <1>0
    <3> HIDE DEF bad
    <3> QED BY <3>1, <2>1
  <2>5. PICK k : Builds(k, l - 1) /\ \A n \in 0..(l - 1) : Kept(fields, list, more, k[n], n)
    <3>1. Has(l - 1)
      <4> HIDE DEF Has
      <4> QED BY <2>4
    <3> HIDE DEF Builds
    <3> QED BY <3>1
  <2> DEFINE j == [n \in 0..l |-> IF n = l THEN Next(k[l - 1], l) ELSE k[n]]
  <2>6. \A n \in 0..(l - 1) : j[n] = k[n]
    BY <2>2, <2>3
  <2>7. j[l] = Next(j[l - 1], l)
    BY <2>2, <2>3, <2>6
  <2>8. \A n \in 0..(l - 1) : j[n] = IF n = 0 THEN list ELSE Next(j[n - 1], n)
    <3> SUFFICES ASSUME NEW n \in 0..(l - 1) PROVE j[n] = IF n = 0 THEN list ELSE Next(j[n - 1], n)
      OBVIOUS
    <3>1. k[n] = IF n = 0 THEN list ELSE Next(k[n - 1], n)
      BY <2>5
    <3>2. n # 0 => n - 1 \in 0..(l - 1)
      BY <2>2
    <3> HIDE DEF Next, j
    <3> QED BY <3>1, <3>2, <2>6
  <2>9. Builds(j, l)
    <3>1. \A n \in 0..l : n \in 0..(l - 1) \/ (n = l /\ n # 0)
      BY <2>2, <2>3
    <3>2. \A n \in 0..l : j[n] = IF n = 0 THEN list ELSE Next(j[n - 1], n)
      <4> HIDE DEF j, Next
      <4> QED BY <2>7, <2>8, <3>1
    <3>3. j = [n \in 0..l |-> j[n]]
      OBVIOUS
    <3> HIDE DEF j, Next
    <3> QED BY <3>2, <3>3
  <2>10. Kept(fields, list, more, j[l], l)
    <3>1. l \in Nat \ {0} /\ l - 1 \in 0..(l - 1)
      BY <2>2, <2>3
    <3>2. Kept(fields, list, more, j[l - 1], l - 1)
      BY <3>1, <2>5, <2>6
    <3> HIDE DEF j, Builds, bad
    <3> QED BY <3>1, <3>2, <2>7, KeptGrows
  <2>11. \A n \in 0..l : Kept(fields, list, more, j[n], n)
    <3>1. \A n \in 0..l : n \in 0..(l - 1) \/ n = l
      BY <2>2, <2>3
    <3> HIDE DEF j, Builds, bad
    <3> QED BY <3>1, <2>5, <2>6, <2>10
  <2> HIDE DEF j, Builds
  <2> QED BY <2>2, <2>9, <2>11
<1>2. PICK some : Builds(some, Len(more)) /\ \A n \in 0..Len(more) : Kept(fields, list, more, some[n], n)
  <2>1. Len(more) \in 0..Len(more)
    BY <1>0
  <2>2. Has(Len(more))
    <3> HIDE DEF Has
    <3> QED BY <1>1, <2>1
  <2> HIDE DEF Builds
  <2> QED BY <2>2
<1> DEFINE k == CHOOSE kept : Builds(kept, Len(more))
<1>3. Unless(fields, list, more) = k[Len(more)]
  BY DEF Unless
<1>4. Builds(k, Len(more))
  <2> HIDE DEF Builds
  <2> QED BY <1>2
<1> HIDE DEF k
<1>5. \A n \in 0..Len(more) : k[n] = some[n]
  <2> DEFINE off == {n \in 0..Len(more) : k[n] # some[n]}
  <2> SUFFICES ASSUME off # {} PROVE FALSE
    OBVIOUS
  <2>1. off \in SUBSET Nat
    OBVIOUS
  <2>2. PICK n \in off : \A m \in off : n <= m
    <3> HIDE DEF off
    <3> QED BY <2>1, Smallest
  <2>3. n # 0
    BY <1>2, <1>4
  <2>4. n - 1 \in 0..Len(more) /\ n - 1 \notin off
    <3>1. n - 1 \in 0..Len(more) /\ ~(n <= n - 1)
      BY <2>3, <1>0
    <3> HIDE DEF off
    <3> QED BY <3>1, <2>2
  <2>5. k[n - 1] = some[n - 1]
    BY <2>4
  <2>6. k[n] = Next(k[n - 1], n) /\ some[n] = Next(some[n - 1], n)
    BY <2>3, <1>2, <1>4
  <2> QED BY <2>5, <2>6
<1> QED BY <1>0, <1>2, <1>3, <1>5

\* The filter, a member at a time.
AmongBy(set, list, kept) ==
  /\ Among(set, list) = kept[Len(list)]
  /\ kept[0] = <<>>
  /\ \A n \in 1..Len(list) : kept[n] = IF list[n] \in set THEN Append(kept[n - 1], list[n]) ELSE kept[n - 1]
  /\ \A n \in 0..Len(list) : IsList(kept[n])

\* What a filter keeps.
LEMMA AmongKeeps ==
  ASSUME NEW set, NEW list, IsList(list)
  PROVE  /\ IsList(Among(set, list)) /\ Range(Among(set, list)) = Range(list) \cap set
         /\ \E kept : AmongBy(set, list, kept)
<1> DEFINE Next(before, n) == IF list[n] \in set THEN Append(before, list[n]) ELSE before
           Seen(n) == {list[i] : i \in 1..n} \cap set
           Good(kept, n) == IsList(kept) /\ Range(kept) = Seen(n)
           Builds(kept, l) == kept = [n \in 0..l |-> IF n = 0 THEN <<>> ELSE Next(kept[n - 1], n)]
           Has(l) == \E kept : Builds(kept, l) /\ \A n \in 0..l : Good(kept[n], n)
           bad == {l \in 0..Len(list) : ~Has(l)}
<1>0. Len(list) \in Nat /\ DOMAIN list = 1..Len(list)
  BY ListShape
<1>a. Good(<<>>, 0)
  <2>1. IsList(<<>>)
    <3>1. <<>> \in Seq({})
      OBVIOUS
    <3> QED BY <3>1, SeqIsList
  <2>2. Range(<<>>) = {}
    BY DEF Range
  <2>3. Seen(0) = {}
    <3>1. 1..0 = {}
      OBVIOUS
    <3> QED BY <3>1
  <2> HIDE DEF Seen
  <2> QED BY <2>1, <2>2, <2>3
<1>b. ASSUME NEW before, NEW n \in Nat \ {0}, Good(before, n - 1)
      PROVE  Good(Next(before, n), n)
  <2>1. IsList(before) /\ Range(before) = Seen(n - 1)
    BY <1>b
  <2>2. \A i \in 1..n : i \in 1..(n - 1) \/ i = n
    OBVIOUS
  <2>3. Seen(n) = Seen(n - 1) \cup ({list[n]} \cap set)
    <3>1. 1..n = 1..(n - 1) \cup {n}
      OBVIOUS
    <3>2. {list[i] : i \in 1..n} = {list[i] : i \in 1..(n - 1)} \cup {list[n]}
      BY <3>1
    <3> QED BY <3>2
  <2>4. CASE list[n] \in set
    <3>1. IsList(<<list[n]>>) /\ Range(<<list[n]>>) = {list[n]}
      <4>1. <<list[n]>> \in Seq({list[n]})
        OBVIOUS
      <4>2. Range(<<list[n]>>) = {list[n]}
        <5> DEFINE x == list[n]
        <5> HIDE DEF x
        <5>1. DOMAIN <<x>> = {1} /\ <<x>>[1] = x
          OBVIOUS
        <5>2. Range(<<x>>) = {x}
          BY <5>1 DEF Range
        <5> QED BY <5>2 DEF x
      <4> QED BY <4>1, <4>2, SeqIsList
    <3>2. Append(before, list[n]) = before \o <<list[n]>>
      BY <2>1 DEF IsList
    <3>3. IsList(Append(before, list[n])) /\ Range(Append(before, list[n])) = Range(before) \cup {list[n]}
      BY <2>1, <3>1, <3>2, ListsJoin
    <3> HIDE DEF Seen
    <3> QED BY <2>1, <2>3, <2>4, <3>3
  <2>5. CASE list[n] \notin set
    <3>1. {list[n]} \cap set = {}
      BY <2>5
    <3> HIDE DEF Seen
    <3> QED BY <2>1, <2>3, <2>5, <3>1
  <2> QED BY <2>4, <2>5
<1>1. bad = {}
  <2> SUFFICES ASSUME bad # {} PROVE FALSE
    OBVIOUS
  <2> HIDE DEF Good
  <2>1. PICK l \in bad : \A m \in bad : l <= m
    <3>1. bad \in SUBSET Nat
      OBVIOUS
    <3> HIDE DEF bad
    <3> QED BY <3>1, Smallest
  <2>2. l \in 0..Len(list) /\ ~Has(l)
    <3> HIDE DEF Has
    <3> QED OBVIOUS
  <2>3. l # 0
    <3> DEFINE k == [n \in 0..0 |-> <<>>]
    <3>1. Builds(k, 0)
      OBVIOUS
    <3>2. \A n \in 0..0 : Good(k[n], n)
      BY <1>a
    <3> QED BY <3>1, <3>2, <2>2
  <2>4. l - 1 \in 0..Len(list) /\ l - 1 \notin bad
    <3>1. l - 1 \in 0..Len(list) /\ ~(l <= l - 1)
      BY <2>2, <2>3, <1>0
    <3> HIDE DEF bad
    <3> QED BY <3>1, <2>1
  <2>5. PICK k : Builds(k, l - 1) /\ \A n \in 0..(l - 1) : Good(k[n], n)
    <3>1. Has(l - 1)
      <4> HIDE DEF Has
      <4> QED BY <2>4
    <3> HIDE DEF Builds
    <3> QED BY <3>1
  <2> DEFINE j == [n \in 0..l |-> IF n = l THEN Next(k[l - 1], l) ELSE k[n]]
  <2>6. \A n \in 0..(l - 1) : j[n] = k[n]
    BY <2>2, <2>3
  <2>7. j[l] = Next(j[l - 1], l)
    BY <2>2, <2>3, <2>6
  <2>8. \A n \in 0..(l - 1) : j[n] = IF n = 0 THEN <<>> ELSE Next(j[n - 1], n)
    <3> SUFFICES ASSUME NEW n \in 0..(l - 1) PROVE j[n] = IF n = 0 THEN <<>> ELSE Next(j[n - 1], n)
      OBVIOUS
    <3>1. k[n] = IF n = 0 THEN <<>> ELSE Next(k[n - 1], n)
      BY <2>5
    <3>2. n # 0 => n - 1 \in 0..(l - 1)
      BY <2>2
    <3> HIDE DEF Next, j
    <3> QED BY <3>1, <3>2, <2>6
  <2>9. Builds(j, l)
    <3>1. \A n \in 0..l : n \in 0..(l - 1) \/ (n = l /\ n # 0)
      BY <2>2, <2>3
    <3>2. \A n \in 0..l : j[n] = IF n = 0 THEN <<>> ELSE Next(j[n - 1], n)
      <4> HIDE DEF j, Next
      <4> QED BY <2>7, <2>8, <3>1
    <3>3. j = [n \in 0..l |-> j[n]]
      OBVIOUS
    <3> HIDE DEF j, Next
    <3> QED BY <3>2, <3>3
  <2>10. Good(j[l], l)
    <3>1. l \in Nat \ {0} /\ l - 1 \in 0..(l - 1)
      BY <2>2, <2>3
    <3>2. Good(j[l - 1], l - 1)
      BY <3>1, <2>5, <2>6
    <3> HIDE DEF j, Builds, bad, Next
    <3> QED BY <3>1, <3>2, <2>7, <1>b
  <2>11. \A n \in 0..l : Good(j[n], n)
    <3>1. \A n \in 0..l : n \in 0..(l - 1) \/ n = l
      BY <2>2, <2>3
    <3> HIDE DEF j, Builds, bad
    <3> QED BY <3>1, <2>5, <2>6, <2>10
  <2> HIDE DEF j, Builds
  <2> QED BY <2>2, <2>9, <2>11
<1>2. PICK some : Builds(some, Len(list)) /\ \A n \in 0..Len(list) : Good(some[n], n)
  <2>1. Len(list) \in 0..Len(list)
    BY <1>0
  <2>2. Has(Len(list))
    <3> HIDE DEF Has
    <3> QED BY <1>1, <2>1
  <2> HIDE DEF Builds, Good
  <2> QED BY <2>2
<1> DEFINE k == CHOOSE kept : Builds(kept, Len(list))
<1>3. Among(set, list) = k[Len(list)]
  BY DEF Among
<1>4. Builds(k, Len(list))
  <2> HIDE DEF Builds, Good
  <2> QED BY <1>2
<1> HIDE DEF k, Good
<1>5. \A n \in 0..Len(list) : k[n] = some[n]
  <2> DEFINE off == {n \in 0..Len(list) : k[n] # some[n]}
  <2> SUFFICES ASSUME off # {} PROVE FALSE
    OBVIOUS
  <2>1. off \in SUBSET Nat
    OBVIOUS
  <2>2. PICK n \in off : \A m \in off : n <= m
    <3> HIDE DEF off
    <3> QED BY <2>1, Smallest
  <2>3. n # 0
    BY <1>2, <1>4
  <2>4. n - 1 \in 0..Len(list) /\ n - 1 \notin off
    <3>1. n - 1 \in 0..Len(list) /\ ~(n <= n - 1)
      BY <2>3, <1>0
    <3> HIDE DEF off
    <3> QED BY <3>1, <2>2
  <2>5. k[n - 1] = some[n - 1]
    BY <2>4
  <2>6. k[n] = Next(k[n - 1], n) /\ some[n] = Next(some[n - 1], n)
    BY <2>3, <1>2, <1>4
  <2> QED BY <2>5, <2>6
<1>6. Good(Among(set, list), Len(list))
  BY <1>0, <1>2, <1>3, <1>5
<1>7. {list[i] : i \in 1..Len(list)} = Range(list)
  BY <1>0 DEF Range
<1>8. AmongBy(set, list, some)
  <2>1. Among(set, list) = some[Len(list)]
    BY <1>0, <1>3, <1>5
  <2>2. some[0] = <<>> /\ \A n \in 1..Len(list) : n \in 0..Len(list) /\ n # 0
    BY <1>0, <1>2
  <2>3. \A n \in 1..Len(list) : some[n] = Next(some[n - 1], n)
    BY <1>2, <2>2
  <2>4. \A n \in 0..Len(list) : IsList(some[n])
    BY <1>2 DEF Good
  <2> QED BY <2>1, <2>2, <2>3, <2>4 DEF AmongBy
<1> QED BY <1>6, <1>7, <1>8 DEF Good

-----------------------------------------------------------------------------
(* What EnvLoader finds *)

SetupType == given \in Given /\ file \in Files \cup {None} /\ process \in Processes

\* Whatever is looked for in the file or the environment is a list.
LEMMA PatternIsList ==
  ASSUME SetupType, NEW family
  PROVE  IsList(GetKeysByPattern(family))
<1>1. ASSUME NEW env, IsFiniteSet(DOMAIN env)
      PROVE  IsList(Named(env, family))
  <2> DEFINE found == {k \in DOMAIN env : k[1] = family /\ env[k] # Empty}
             keys  == SetToSortSeq(found, LAMBDA a, b : a[2] < b[2])
  <2>1. IsFiniteSet(found)
    BY <1>1, FS_Subset
  <2>2. Cardinality(found) \in Nat
    BY <2>1, FS_CardinalityType
  <2> DEFINE C == Cardinality(found)
             L == [i \in 1..C |-> [name |-> keys[i], value |-> env[keys[i]]]]
  <2>3. Named(env, family) = L
    BY DEF Named
  <2> HIDE DEF keys, C
  <2>4. C \in Nat
    BY <2>2 DEF C
  <2>5. L \in Seq({[name |-> keys[i], value |-> env[keys[i]]] : i \in 1..C})
    BY <2>4
  <2> QED BY <2>3, <2>5, SeqIsList
<1>2. IsFiniteSet(DOMAIN FileMap)
  <2>1. CASE file = None
    <3>1. DOMAIN FileMap = {}
      BY <2>1 DEF FileMap
    <3> QED BY <3>1, FS_EmptySet
  <2>2. CASE file # None
    <3>1. IsList(file)
      BY <2>2, SetupAssumption DEF SetupType
    <3>2. Len(file) \in Nat /\ DOMAIN file = 1..Len(file)
      BY <3>1, ListShape
    <3>3. IsFiniteSet(DOMAIN file)
      BY <3>2, FS_Interval
    <3>4. DOMAIN FileMap = {file[i].key : i \in DOMAIN file}
      BY <2>2 DEF FileMap, ParseEnvContent
    <3> DEFINE f == [i \in DOMAIN file |-> file[i].key]
    <3>5. f \in Surjection(DOMAIN file, DOMAIN FileMap)
      BY <3>4 DEF Surjection
    <3> QED BY <3>3, <3>5, FS_Surjection
  <2> QED BY <2>1, <2>2
<1>3. IsFiniteSet(DOMAIN process)
  BY SetupAssumption DEF SetupType
<1> QED BY <1>1, <1>2, <1>3 DEF GetKeysByPattern

\* A function on 1..n is a list.
LEMMA FcnIsList ==
  ASSUME NEW n \in Nat, NEW f, f = [i \in 1..n |-> f[i]]
  PROVE  IsList(f) /\ Len(f) = n
<1>1. f \in Seq({f[i] : i \in 1..n}) /\ Len(f) = n
  OBVIOUS
<1> QED BY <1>1, SeqIsList

\* What a merge is made of.
LEMMA UnlessMembers ==
  ASSUME NEW fields, fields # {}, NEW list, NEW more, IsList(list), IsList(more)
  PROVE  /\ IsList(Unless(fields, list, more))
         /\ Range(list) \subseteq Range(Unless(fields, list, more))
         /\ \A x \in Range(Unless(fields, list, more)) :
              \/ x \in Range(list)
              \/ x \in Range(more) /\ \A y \in Range(list) : ~Meets(fields, y, x)
<1> DEFINE u == Unless(fields, list, more)
<1>1. BeginsWith(list, u) /\ AddsNew(fields, list, more, u, Len(more))
  BY UnlessKeeps DEF Kept
<1> HIDE DEF u
<1>2. /\ IsList(u) /\ Len(u) >= Len(list) /\ DOMAIN u = 1..Len(u) /\ Len(u) \in Nat
      /\ Len(list) \in Nat /\ DOMAIN list = 1..Len(list) /\ DOMAIN more = 1..Len(more)
      /\ \A i \in 1..Len(list) : u[i] = list[i]
  BY <1>1, ListShape DEF BeginsWith
<1>3. \A i \in DOMAIN list : i \in DOMAIN u /\ u[i] = list[i]
  BY <1>2
<1>4. Range(list) \subseteq Range(u)
  BY <1>3 DEF Range
<1>5. ASSUME NEW x \in Range(u)
      PROVE  x \in Range(list) \/ (x \in Range(more) /\ \A y \in Range(list) : ~Meets(fields, y, x))
  <2>1. PICK i \in 1..Len(u) : x = u[i]
    BY <1>2 DEF Range
  <2>2. CASE i <= Len(list)
    <3>1. i \in DOMAIN list /\ u[i] = list[i]
      BY <2>2, <1>2
    <3> QED BY <3>1, <2>1 DEF Range
  <2>3. CASE i > Len(list)
    <3>1. /\ \E m \in 1..Len(more) : u[i] = more[m]
          /\ \A j \in 1..(i - 1) : ~Meets(fields, u[j], u[i])
      BY <2>3, <1>1 DEF AddsNew
    <3>2. x \in Range(more)
      BY <3>1, <2>1, <1>2 DEF Range
    <3>3. ASSUME NEW y \in Range(list) PROVE ~Meets(fields, y, x)
      <4>1. PICK j \in 1..Len(list) : y = list[j]
        BY <1>2 DEF Range
      <4>2. j \in 1..(i - 1) /\ u[j] = list[j]
        BY <2>3, <1>2
      <4> QED BY <4>1, <4>2, <3>1, <2>1
    <3> QED BY <3>2, <3>3
  <2> QED BY <2>2, <2>3, <1>2
<1> QED BY <1>2, <1>4, <1>5 DEF u

\* The empty list.
LEMMA NothingIsList == IsList(<<>>) /\ Len(<<>>) = 0 /\ Range(<<>>) = {}
<1>1. <<>> \in Seq({})
  OBVIOUS
<1>2. Range(<<>>) = {}
  BY DEF Range
<1> QED BY <1>1, <1>2, SeqIsList

\* A list of endpoints that are all enabled.
AllEnabled(list) == IsList(list) /\ \A e \in Range(list) : e.enabled

\* The endpoints found for a chain are such a list.
LEMMA FoundIsList ==
  ASSUME SetupType, NEW chain
  PROVE  AllEnabled(GetRpcEndpoints(chain))
<1>1. ASSUME NEW service PROVE AllEnabled(KeyedEndpoints(service, chain))
  <2> DEFINE keys == GetKeysByPattern(service)
  <2>1. Len(keys) \in Nat /\ DOMAIN keys = 1..Len(keys)
    BY PatternIsList, ListShape
  <2> DEFINE f == [i \in DOMAIN keys |-> Endpoint(<<service, chain, i>>, Text(<<service, chain>> \o keys[i].value.of, "https"))]
  <2>2. KeyedEndpoints(service, chain) = f
    BY DEF KeyedEndpoints
  <2>3. \A e \in Range(f) : e.enabled
    BY DEF Range, Endpoint
  <2> HIDE DEF keys
  <2>4. f = [i \in 1..Len(keys) |-> f[i]]
    BY <2>1
  <2> HIDE DEF f
  <2> QED BY <2>1, <2>2, <2>3, <2>4, FcnIsList DEF AllEnabled
<1>2. AllEnabled(DirectEndpoints(chain))
  <2> DEFINE urls == GetKeysByPattern(chain)
  <2>1. Len(urls) \in Nat /\ DOMAIN urls = 1..Len(urls)
    BY PatternIsList, ListShape
  <2> DEFINE f == [i \in DOMAIN urls |-> Endpoint(<<"custom", chain, i>>, urls[i].value)]
  <2>2. DirectEndpoints(chain) = f
    BY DEF DirectEndpoints
  <2>3. \A e \in Range(f) : e.enabled
    BY DEF Range, Endpoint
  <2> HIDE DEF urls
  <2>4. f = [i \in 1..Len(urls) |-> f[i]]
    BY <2>1
  <2> HIDE DEF f
  <2> QED BY <2>1, <2>2, <2>3, <2>4, FcnIsList DEF AllEnabled
<1>3. ASSUME NEW s, NEW t, AllEnabled(s), AllEnabled(t) PROVE AllEnabled(s \o t)
  BY <1>3, ListsJoin DEF AllEnabled
<1>4. AllEnabled(<<>>)
  BY NothingIsList DEF AllEnabled
<1> DEFINE a == KeyedEndpoints("nodereal", chain)
           b == KeyedEndpoints("ankr", chain)
           c == KeyedEndpoints("alchemy", chain)
           d == KeyedEndpoints("drpc", chain)
           e == IF chain = "bsc" THEN <<>> ELSE KeyedEndpoints("infura", chain)
           f == DirectEndpoints(chain)
           all == a \o b \o c \o d \o e \o f
<1>5. AllEnabled(a) /\ AllEnabled(b) /\ AllEnabled(c) /\ AllEnabled(d) /\ AllEnabled(e) /\ AllEnabled(f)
  BY <1>1, <1>2, <1>4
<1>6. GetRpcEndpoints(chain) = Unless({"url"}, <<>>, all)
  BY DEF GetRpcEndpoints
<1> HIDE DEF a, b, c, d, e, f
<1>7. AllEnabled(a \o b)
  BY <1>3, <1>5
<1>8. AllEnabled(a \o b \o c)
  BY <1>3, <1>5, <1>7
<1>9. AllEnabled(a \o b \o c \o d)
  BY <1>3, <1>5, <1>8
<1>10. AllEnabled(a \o b \o c \o d \o e)
  BY <1>3, <1>5, <1>9
<1>11. AllEnabled(all)
  BY <1>3, <1>5, <1>10
<1>12. {"url"} # {}
  OBVIOUS
<1> HIDE DEF all
<1>13. IsList(Unless({"url"}, <<>>, all)) /\ \A x \in Range(Unless({"url"}, <<>>, all)) : x \in Range(all)
  BY <1>11, <1>12, NothingIsList, UnlessMembers DEF AllEnabled
<1> QED BY <1>6, <1>11, <1>13 DEF AllEnabled

\* The providers found are a list, and so are the keys of each.
LEMMA ProvidersAreLists ==
  ASSUME SetupType
  PROVE  /\ IsList(GetProviderConfigs)
         /\ \A i \in DOMAIN GetProviderConfigs : IsList(GetProviderConfigs[i].keys) /\ GetProviderConfigs[i].url = None
<1> DEFINE Good(p) == IsList(p.keys) /\ p.url = None
<1>1. ASSUME NEW kind
      PROVE  IsList(ProviderFound(kind)) /\ \A p \in Range(ProviderFound(kind)) : Good(p)
  <2> DEFINE entries == GetKeyEntriesByPrefix(kind)
             p == [kind |-> kind, keys |-> Values(entries), url |-> None, insecure |-> FALSE]
  <2>1. IsList(entries)
    BY PatternIsList, NothingIsList, UnlessMembers DEF GetKeyEntriesByPrefix
  <2>2. ProviderFound(kind) = IF entries = <<>> THEN <<>> ELSE <<p>>
    BY DEF ProviderFound
  <2> HIDE DEF entries
  <2>3. IsList(Values(entries))
    <3>1. Len(entries) \in Nat /\ DOMAIN entries = 1..Len(entries)
      BY <2>1, ListShape
    <3> DEFINE f == [i \in DOMAIN entries |-> entries[i].value]
    <3>2. Values(entries) = f
      BY DEF Values
    <3>3. f = [i \in 1..Len(entries) |-> f[i]]
      BY <3>1
    <3> HIDE DEF f
    <3> QED BY <3>1, <3>2, <3>3, FcnIsList
  <2>4. Good(p)
    BY <2>3
  <2> HIDE DEF p, Good
  <2>5. <<p>> \in Seq({p}) /\ DOMAIN <<p>> = {1} /\ <<p>>[1] = p
    OBVIOUS
  <2>6. IsList(<<p>>) /\ Range(<<p>>) = {p}
    <3>1. IsList(<<p>>)
      BY <2>5, SeqIsList
    <3> QED BY <3>1, <2>5 DEF Range
  <2> QED BY <2>2, <2>4, <2>6, NothingIsList
<1> DEFINE a == ProviderFound("etherscan")
           b == ProviderFound("blockscout")
           c == ProviderFound("alchemy")
           d == ProviderFound("moralis")
<1>2. GetProviderConfigs = a \o b \o c \o d
  BY DEF GetProviderConfigs
<1>3. /\ IsList(a) /\ IsList(b) /\ IsList(c) /\ IsList(d)
      /\ \A p \in Range(a) \cup Range(b) \cup Range(c) \cup Range(d) : Good(p)
  BY <1>1
<1> HIDE DEF a, b, c, d, Good
<1>4. IsList(a \o b) /\ Range(a \o b) = Range(a) \cup Range(b)
  BY <1>3, ListsJoin
<1>5. IsList(a \o b \o c) /\ Range(a \o b \o c) = Range(a) \cup Range(b) \cup Range(c)
  BY <1>3, <1>4, ListsJoin
<1>6. IsList(a \o b \o c \o d) /\ Range(a \o b \o c \o d) = Range(a) \cup Range(b) \cup Range(c) \cup Range(d)
  BY <1>3, <1>5, ListsJoin
<1>7. \A p \in Range(GetProviderConfigs) : Good(p)
  BY <1>2, <1>3, <1>6
<1>8. \A i \in DOMAIN GetProviderConfigs : Good(GetProviderConfigs[i])
  BY <1>7 DEF Range
<1> QED BY <1>2, <1>6, <1>8 DEF Good

-----------------------------------------------------------------------------
(* What parseClientConfiguration makes of it *)

NetworksBuiltIn == {"ethereum", "base"}

\* A feature with its endpoints merged.
LEMMA WithIs ==
  ASSUME SetupType, NEW feature, IsFeature(feature), feature # None, NEW chains
  PROVE  /\ IsFeature(With(feature, chains))
         /\ With(feature, chains).enabled = feature.enabled
         /\ With(feature, chains).builtins = feature.builtins
         /\ With(feature, chains).chains = feature.chains
         /\ With(feature, chains).attemptMs = feature.attemptMs
         /\ With(feature, chains).totalMs = feature.totalMs
         /\ \A c \in NetworksBuiltIn : With(feature, chains).endpoints[c] =
              IF c \in chains THEN MergeEndpoints(feature.endpoints[c], GetRpcEndpoints(c)) ELSE feature.endpoints[c]
         /\ With(feature, chains) = [feature EXCEPT !.endpoints = With(feature, chains).endpoints]
<1> DEFINE merged == [c \in NetworksBuiltIn |-> IF c \in chains THEN MergeEndpoints(feature.endpoints[c], GetRpcEndpoints(c))
                                       ELSE feature.endpoints[c]]
           w == With(feature, chains)
<1>1. w = [feature EXCEPT !.endpoints = merged]
  BY DEF With, NetworksBuiltIn
<1>2. \A c \in NetworksBuiltIn : IsList(merged[c])
  <2> SUFFICES ASSUME NEW c \in NetworksBuiltIn PROVE IsList(merged[c])
    OBVIOUS
  <2>1. IsList(feature.endpoints[c]) /\ IsList(GetRpcEndpoints(c))
    BY FoundIsList DEF AllEnabled, IsFeature, NetworksBuiltIn
  <2>2. {"id", "url"} # {}
    OBVIOUS
  <2>3. IsList(MergeEndpoints(feature.endpoints[c], GetRpcEndpoints(c)))
    BY <2>1, <2>2, UnlessMembers DEF MergeEndpoints
  <2> QED BY <2>1, <2>3
<1>3. DOMAIN merged = NetworksBuiltIn /\ \A c \in NetworksBuiltIn : merged[c] =
              IF c \in chains THEN MergeEndpoints(feature.endpoints[c], GetRpcEndpoints(c)) ELSE feature.endpoints[c]
  OBVIOUS
<1> HIDE DEF merged, w
<1>4. /\ w = [enabled |-> w.enabled, builtins |-> w.builtins, endpoints |-> w.endpoints,
              chains |-> w.chains, attemptMs |-> w.attemptMs, totalMs |-> w.totalMs]
      /\ w.endpoints = merged /\ w.enabled = feature.enabled /\ w.builtins = feature.builtins
      /\ w.chains = feature.chains /\ w.attemptMs = feature.attemptMs /\ w.totalMs = feature.totalMs
  BY <1>1 DEF IsFeature
<1>5. IsFeature(w)
  BY <1>2, <1>3, <1>4 DEF IsFeature, NetworksBuiltIn
<1> QED BY <1>1, <1>3, <1>4, <1>5 DEF w

\* What the constructor is given.
LEMMA EffectiveIs ==
  ASSUME SetupType, NEW g \in Given
  PROVE  /\ file = None => Effective(g) = g
         /\ file # None =>
              /\ Effective(g).providers = Or(g.providers, Nonempty(GetProviderConfigs))
              /\ Effective(g).proxies = Or(g.proxies, Nonempty(GetProxies))
              /\ Effective(g).storage = Or(g.storage, Truthy(GetStorageUrl))
              /\ Effective(g).price = g.price /\ Effective(g).chains = g.chains /\ Effective(g).policy = g.policy
              /\ Effective(g).chainlink = With(g.chainlink, {"ethereum"})
              /\ Effective(g).defi = With(g.defi, {"ethereum", "base"})
              /\ Effective(g).uniswapV3 = With(g.uniswapV3, {"ethereum"})
              /\ Effective(g).uniswapV4 = With(g.uniswapV4, {"ethereum"})
<1>1. IsConfiguration(g)
  BY SetupAssumption
<1>2. g = [providers |-> g.providers, proxies |-> g.proxies, storage |-> g.storage, alert |-> g.alert, price |-> g.price,
          chains |-> g.chains, policy |-> g.policy, chainlink |-> g.chainlink, defi |-> g.defi,
          uniswapV3 |-> g.uniswapV3, uniswapV4 |-> g.uniswapV4]
  BY <1>1 DEF IsConfiguration
<1> QED BY <1>2 DEF Effective

\* Its features are of their shape, and serve Ethereum where they must.
WellMade(c) ==
  /\ c.providers # None => IsList(c.providers) /\ \A i \in DOMAIN c.providers : IsList(c.providers[i].keys)
  /\ \A feature \in {c.chainlink, c.defi, c.uniswapV3, c.uniswapV4} \ {None} : IsFeature(feature)
  /\ \A feature \in {c.chainlink, c.uniswapV3, c.uniswapV4} \ {None} : "ethereum" \in Range(feature.chains)

\* What the parser makes of a caller's configuration has that shape, for every file and environment.
LEMMA EffectiveIsWellMade ==
  ASSUME SetupType, NEW g \in Given
  PROVE  WellMade(Effective(g))
<1>1. WellMade(g)
  BY SetupAssumption DEF IsConfiguration, WellMade
<1>2. ASSUME NEW feature, NEW chains, With(feature, chains) # None, feature # None => IsFeature(feature)
      PROVE  /\ IsFeature(With(feature, chains)) /\ feature # None
             /\ With(feature, chains).chains = feature.chains
  <2>1. feature # None
    BY <1>2 DEF With
  <2> QED BY <1>2, <2>1, WithIs
<1>3. CASE file # None
  <2> DEFINE c == Effective(g)
  <2>1. /\ c.providers = Or(g.providers, Nonempty(GetProviderConfigs))
        /\ c.chainlink = With(g.chainlink, {"ethereum"})
        /\ c.defi = With(g.defi, {"ethereum", "base"})
        /\ c.uniswapV3 = With(g.uniswapV3, {"ethereum"})
        /\ c.uniswapV4 = With(g.uniswapV4, {"ethereum"})
    BY <1>3, EffectiveIs
  <2> HIDE DEF c
  <2>2. c.chainlink # None => IsFeature(c.chainlink) /\ "ethereum" \in Range(c.chainlink.chains)
    BY <1>1, <1>2, <2>1 DEF WellMade
  <2>3. c.defi # None => IsFeature(c.defi)
    BY <1>1, <1>2, <2>1 DEF WellMade
  <2>4. c.uniswapV3 # None => IsFeature(c.uniswapV3) /\ "ethereum" \in Range(c.uniswapV3.chains)
    BY <1>1, <1>2, <2>1 DEF WellMade
  <2>5. c.uniswapV4 # None => IsFeature(c.uniswapV4) /\ "ethereum" \in Range(c.uniswapV4.chains)
    BY <1>1, <1>2, <2>1 DEF WellMade
  <2>6. c.providers # None => IsList(c.providers) /\ \A i \in DOMAIN c.providers : IsList(c.providers[i].keys)
    BY <1>1, <2>1, ProvidersAreLists DEF WellMade, Or, Nonempty
  <2>7. WellMade(c)
    BY <2>2, <2>3, <2>4, <2>5, <2>6 DEF WellMade
  <2> QED BY <2>7 DEF c
<1> QED BY <1>1, <1>3, EffectiveIs

-----------------------------------------------------------------------------
(* The pools *)

\* The smallest member of a set of numbers is one of it.
LEMMA MinIsIn ==
  ASSUME NEW S \in SUBSET Nat, S # {}
  PROVE  Min(S) \in S
  BY Smallest DEF Min

\* The endpoints that come with Alchemy's keys are a list.
LEMMA DerivedIsList ==
  ASSUME NEW c, WellMade(c)
  PROVE  IsList(AlchemyDerived(c))
<1> DEFINE known == Or(c.providers, <<>>)
           I == {i \in 1..Len(known) : known[i].kind = "alchemy"}
           first == IF I # {} THEN Min(I) ELSE 0
           keys == c.providers[first].keys
           f == [i \in DOMAIN keys |-> Endpoint(<<"alchemy", "ethereum", i>>, Text(<<"alchemy", "ethereum">> \o keys[i].of, "https"))]
<1>1. AlchemyDerived(c) = IF first = 0 THEN <<>> ELSE f
  BY DEF AlchemyDerived, SelectInSeq
<1>2. CASE first = 0
  BY <1>1, <1>2, NothingIsList
<1>3. CASE first # 0
  <2>1. IsList(known) /\ Len(known) \in Nat
    BY NothingIsList, ListShape DEF WellMade, Or
  <2>2. I \in SUBSET Nat /\ I # {}
    BY <1>3
  <2>3. first \in 1..Len(known)
    <3>1. Min(I) \in I
      <4> HIDE DEF I
      <4> QED BY <2>2, MinIsIn
    <3> QED BY <2>2, <3>1
  <2>4. c.providers # None
    <3>1. 1..0 = {}
      OBVIOUS
    <3> QED BY <2>3, <3>1, NothingIsList DEF Or
  <2>5. first \in DOMAIN c.providers
    BY <2>1, <2>3, <2>4, ListShape DEF Or
  <2>6. IsList(keys)
    <3> HIDE DEF first
    <3> QED BY <2>4, <2>5 DEF WellMade
  <2> HIDE DEF keys
  <2>7. Len(keys) \in Nat /\ DOMAIN keys = 1..Len(keys)
    BY <2>6, ListShape
  <2>8. f = [i \in 1..Len(keys) |-> f[i]]
    BY <2>7
  <2> HIDE DEF f, first
  <2> QED BY <1>1, <1>3, <2>7, <2>8, FcnIsList
<1> QED BY <1>2, <1>3

\* What is in service.
LEMMA InUseIs ==
  ASSUME NEW feature, IsFeature(feature), NEW chain \in NetworksBuiltIn
  PROVE  /\ IsList(InUse(feature, chain)) /\ IsList(feature.endpoints[chain])
         /\ Range(InUse(feature, chain)) = {e \in Range(feature.endpoints[chain]) : e.enabled}
<1>1. IsList(feature.endpoints[chain])
  BY DEF IsFeature, NetworksBuiltIn
<1> QED BY <1>1, AmongKeeps DEF InUse

\* The built-in endpoints of a feature are a list.
LEMMA BuiltinsAreList ==
  ASSUME NEW feature, NEW chain \in NetworksBuiltIn
  PROVE  IsList(BuiltinsFor(feature, chain))
  BY SetupAssumption, NothingIsList DEF BuiltinsFor, NetworksBuiltIn

\* A feature in use has an endpoint of its own.
LEMMA FeatureHasEndpoints ==
  ASSUME NEW feature, IsFeature(feature), FeatureIsSound(feature), Enabled(feature),
         NEW chain \in NetworksBuiltIn, chain \in Range(feature.chains)
  PROVE  /\ IsList(BuiltinsFor(feature, chain) \o InUse(feature, chain))
         /\ BuiltinsFor(feature, chain) \o InUse(feature, chain) # <<>>
<1> DEFINE b == BuiltinsFor(feature, chain)
           u == InUse(feature, chain)
<1>1. IsList(b) /\ IsList(u)
  BY BuiltinsAreList, InUseIs
<1>2. b # <<>> \/ u # <<>>
  <2>1. CASE UsesBuiltins(feature)
    BY <2>1, SetupAssumption DEF BuiltinsFor, NetworksBuiltIn
  <2>2. CASE ~UsesBuiltins(feature)
    BY <2>2 DEF FeatureIsSound, Enabled
  <2> QED BY <2>1, <2>2
<1> HIDE DEF b, u
<1>3. Len(b) \in Nat /\ Len(u) \in Nat /\ (b # <<>> => Len(b) > 0) /\ (u # <<>> => Len(u) > 0)
  BY <1>1 DEF IsList
<1>4. IsList(b \o u) /\ Len(b \o u) = Len(b) + Len(u)
  BY <1>1, ListsJoin
<1>5. Len(b \o u) # 0
  BY <1>2, <1>3, <1>4
<1> QED BY <1>4, <1>5, NothingIsList DEF b, u

\* A merge of something is something.
LEMMA MergeIsNotEmpty ==
  ASSUME NEW some, IsList(some), some # <<>>
  PROVE  MergeEndpoints(<<>>, some) # <<>>
<1>1. Kept({"id", "url"}, <<>>, some, MergeEndpoints(<<>>, some), Len(some))
  <2>1. {"id", "url"} # {}
    OBVIOUS
  <2> QED BY <2>1, UnlessKeeps, NothingIsList DEF MergeEndpoints
<1>2. 1 \in 1..Len(some)
  BY DEF IsList
<1>3. \E i \in 1..Len(MergeEndpoints(<<>>, some)) : TRUE
  BY <1>1, <1>2 DEF Kept, MeetsAll
<1> QED BY <1>3, NothingIsList

\* One list after another is not empty if the first is not.
LEMMA JoinIsNotEmpty ==
  ASSUME NEW s, NEW t, IsList(s), IsList(t), s # <<>>
  PROVE  IsList(s \o t) /\ s \o t # <<>>
<1>1. Len(s) \in Nat /\ Len(t) \in Nat /\ Len(s) # 0
  BY DEF IsList
<1>2. IsList(s \o t) /\ Len(s \o t) # 0
  BY <1>1, ListsJoin
<1> QED BY <1>2, NothingIsList

\* Each pool of a sound configuration has an endpoint.
LEMMA PoolsAreNotEmpty ==
  ASSUME NEW c, WellMade(c), Accepts(c), NEW user \in Users(c)
  PROVE  EndpointsOf(c, PoolOf(c, user)) # <<>>
<1>1. /\ \A f \in {c.chainlink, c.defi, c.uniswapV3, c.uniswapV4} : FeatureIsSound(f)
      /\ \A f \in {c.chainlink, c.defi, c.uniswapV3, c.uniswapV4} \ {None} : IsFeature(f)
      /\ \A f \in {c.chainlink, c.uniswapV3, c.uniswapV4} \ {None} : "ethereum" \in Range(f.chains)
  BY DEF Accepts, WellMade
<1>2. Enabled(c.chainlink) => ChainlinkEndpoints(c) # <<>>
  <2> SUFFICES ASSUME Enabled(c.chainlink) PROVE ChainlinkEndpoints(c) # <<>>
    OBVIOUS
  <2> DEFINE banned == {e.id : e \in {e \in Range(c.chainlink.endpoints["ethereum"]) : ~e.enabled}}
             own  == BuiltinsFor(c.chainlink, "ethereum") \o InUse(c.chainlink, "ethereum")
             defi == IF Enabled(c.defi) /\ Contains(c.defi.chains, "ethereum") THEN InUse(c.defi, "ethereum") ELSE <<>>
             rest == Among({e \in Range(AlchemyDerived(c)) : e.id \notin banned}, AlchemyDerived(c))
  <2>1. ChainlinkEndpoints(c) = MergeEndpoints(<<>>, own \o defi \o rest)
    BY DEF ChainlinkEndpoints
  <2>2. c.chainlink # None
    BY DEF Enabled
  <2>3. IsList(own) /\ own # <<>>
    BY <1>1, <2>2, FeatureHasEndpoints DEF NetworksBuiltIn
  <2>4. IsList(defi)
    BY <1>1, InUseIs, NothingIsList DEF NetworksBuiltIn, Enabled
  <2>5. IsList(rest)
    BY DerivedIsList, AmongKeeps
  <2> HIDE DEF own, defi, rest
  <2>6. IsList(own \o defi) /\ own \o defi # <<>>
    BY <2>3, <2>4, JoinIsNotEmpty
  <2>7. IsList(own \o defi \o rest) /\ own \o defi \o rest # <<>>
    BY <2>5, <2>6, JoinIsNotEmpty
  <2> QED BY <2>1, <2>7, MergeIsNotEmpty
<1>3. ASSUME NEW chain \in NetworksBuiltIn, Enabled(c.defi), chain \in Range(c.defi.chains)
      PROVE  DeFiEndpoints(c, chain) # <<>>
  <2> DEFINE own  == BuiltinsFor(c.defi, chain) \o InUse(c.defi, chain)
             rest == IF chain = "ethereum" THEN AlchemyDerived(c) ELSE <<>>
  <2>1. DeFiEndpoints(c, chain) = MergeEndpoints(<<>>, own \o rest)
    BY DEF DeFiEndpoints
  <2>2. c.defi # None
    BY <1>3 DEF Enabled
  <2>3. IsList(own) /\ own # <<>>
    BY <1>1, <1>3, <2>2, FeatureHasEndpoints
  <2>4. IsList(rest)
    BY DerivedIsList, NothingIsList
  <2> HIDE DEF own, rest
  <2>5. IsList(own \o rest) /\ own \o rest # <<>>
    BY <2>3, <2>4, JoinIsNotEmpty
  <2> QED BY <2>1, <2>5, MergeIsNotEmpty
<1>4. ASSUME NEW f \in {c.uniswapV3, c.uniswapV4}, Enabled(f)
      PROVE  UniswapEndpoints(f) # <<>>
  <2>1. f # None
    BY <1>4 DEF Enabled
  <2>2. /\ IsList(BuiltinsFor(f, "ethereum") \o InUse(f, "ethereum"))
        /\ BuiltinsFor(f, "ethereum") \o InUse(f, "ethereum") # <<>>
    BY <1>1, <1>4, <2>1, FeatureHasEndpoints DEF NetworksBuiltIn
  <2> QED BY <2>2, MergeIsNotEmpty DEF UniswapEndpoints
<1>5. \/ user = "chainlink" /\ Enabled(c.chainlink)
      \/ user = "uniswapV3" /\ Enabled(c.uniswapV3)
      \/ user = "uniswapV4" /\ Enabled(c.uniswapV4)
      \/ user = "defi-base" /\ Enabled(c.defi) /\ "base" \in Range(c.defi.chains)
      \/ user = "defi-ethereum" /\ Enabled(c.defi) /\ "ethereum" \in Range(c.defi.chains)
  <2>1. CASE user \in {"chainlink", "uniswapV3", "uniswapV4"}
    BY <2>1 DEF Users
  <2>2. CASE user \notin {"chainlink", "uniswapV3", "uniswapV4"}
    <3>1. /\ Enabled(c.defi)
          /\ user \in {IF chain = "base" THEN "defi-base" ELSE "defi-ethereum" : chain \in Range(c.defi.chains)}
      BY <2>2 DEF Users
    <3>2. Range(c.defi.chains) \subseteq NetworksBuiltIn
      BY <1>1, <3>1 DEF Enabled, IsFeature, NetworksBuiltIn
    <3> QED BY <3>1, <3>2 DEF NetworksBuiltIn
  <2> QED BY <2>1, <2>2
<1>6. CASE user = "chainlink" /\ Enabled(c.chainlink)
  BY <1>2, <1>6 DEF PoolOf, EndpointsOf
<1>7. CASE user = "uniswapV3" /\ Enabled(c.uniswapV3)
  BY <1>2, <1>4, <1>7 DEF PoolOf, EndpointsOf
<1>8. CASE user = "uniswapV4" /\ Enabled(c.uniswapV4)
  BY <1>2, <1>4, <1>8 DEF PoolOf, EndpointsOf
<1>9. CASE user = "defi-base" /\ Enabled(c.defi) /\ "base" \in Range(c.defi.chains)
  BY <1>3, <1>9 DEF PoolOf, EndpointsOf, NetworksBuiltIn
<1>10. CASE user = "defi-ethereum" /\ Enabled(c.defi) /\ "ethereum" \in Range(c.defi.chains)
  BY <1>2, <1>3, <1>10 DEF PoolOf, EndpointsOf, NetworksBuiltIn
<1> QED BY <1>5, <1>6, <1>7, <1>8, <1>9, <1>10

\* The pools that are attended are those in use but for Uniswap V4's own.
LEMMA PoolsAreAttended ==
  ASSUME NEW c, NEW user \in Users(c), WellMade(c)
  PROVE  PoolOf(c, user) \in Attended(c) \/ PoolOf(c, user) = "uniswapV4"
<1>1. CASE user = "chainlink"
  BY <1>1 DEF Users, PoolOf, Attended
<1>2. CASE user = "uniswapV3"
  BY <1>2 DEF Users, Attended
<1>3. CASE user = "uniswapV4"
  BY <1>3 DEF PoolOf, Attended
<1>4. CASE user \in {"defi-ethereum", "defi-base"}
  <2>1. PoolOf(c, user) \in {PoolOf(c, u) : u \in Users(c) \cap {"defi-ethereum", "defi-base"}}
    BY <1>4
  <2> QED BY <2>1, <1>4 DEF PoolOf, Attended
<1>5. user \in {"chainlink", "uniswapV3", "uniswapV4", "defi-ethereum", "defi-base"}
  BY DEF Users
<1> QED BY <1>1, <1>2, <1>3, <1>4, <1>5

\* A client that is there was made from its configuration.
MadeInv ==
  /\ SetupType
  /\ client # None =>
       client = IF Accepts(Effective(given))
                THEN [refused |-> FALSE, pools |-> Pools(Effective(given)), attended |-> Attended(Effective(given))]
                ELSE [refused |-> TRUE, pools |-> <<>>, attended |-> {}]

\* Nothing changes what it was made from.
LEMMA MadeInvHolds == SetupSpec => []MadeInv
<1>1. SetupInit => MadeInv
  BY DEF SetupInit, MadeInv, SetupType
<1>2. MadeInv /\ [SetupNext]_setupVars => MadeInv'
  <2> SUFFICES ASSUME MadeInv, [SetupNext]_setupVars PROVE MadeInv'
    OBVIOUS
  <2>1. UNCHANGED <<given, file, process>>
    BY DEF SetupNext, Construct, setupVars
  <2>2. SetupType'
    BY <2>1 DEF MadeInv, SetupType
  <2>3. /\ Effective(given)' = Effective(given)
        /\ Accepts(Effective(given))' = Accepts(Effective(given))
        /\ Pools(Effective(given))' = Pools(Effective(given))
        /\ Attended(Effective(given))' = Attended(Effective(given))
    <3>1. FileMap' = FileMap
      BY <2>1 DEF FileMap
    <3>2. \A key : Get(key)' = Get(key)
      BY <2>1, <3>1 DEF Get
    <3>3. \A family : GetKeysByPattern(family)' = GetKeysByPattern(family)
      BY <2>1, <3>1 DEF GetKeysByPattern
    <3>4. \A chain : GetRpcEndpoints(chain)' = GetRpcEndpoints(chain)
      BY <3>3 DEF GetRpcEndpoints, KeyedEndpoints, DirectEndpoints
    <3>5. GetProviderConfigs' = GetProviderConfigs
      BY <3>3 DEF GetProviderConfigs, ProviderFound, GetKeyEntriesByPrefix
    <3>6. GetProxies' = GetProxies
      BY <3>3 DEF GetProxies
    <3>7. GetStorageUrl' = GetStorageUrl /\ GetWebhook' = GetWebhook
      <4>1. ASSUME NEW names PROVE FirstOf(names)' = FirstOf(names)
        <5>1. {i \in DOMAIN names : Get(names[i]) # None}' = {i \in DOMAIN names : Get(names[i]) # None}
          BY <3>2
        <5>2. (Get(names[Min({i \in DOMAIN names : Get(names[i]) # None})]))' = Get(names[Min({i \in DOMAIN names : Get(names[i]) # None})])
          BY <3>2, <5>1
        <5> QED BY <5>1, <5>2 DEF FirstOf
      <4> QED BY <4>1 DEF GetStorageUrl, GetWebhook
    <3>8. Effective(given)' = Effective(given)
      BY <2>1, <3>4, <3>5, <3>6, <3>7 DEF Effective, With
    <3>9. Accepts(Effective(given))' = Accepts(Effective(given))
      BY <3>8 DEF Accepts
    <3>10. Pools(Effective(given))' = Pools(Effective(given))
      BY <3>8 DEF Pools
    <3>11. Attended(Effective(given))' = Attended(Effective(given))
      BY <3>8 DEF Attended
    <3> QED BY <3>8, <3>9, <3>10, <3>11
  <2> QED BY <2>1, <2>2, <2>3 DEF MadeInv, SetupNext, Construct, setupVars
<1> QED BY <1>1, <1>2, PTL DEF SetupSpec

\* Whoever reads prices or rates reads through a pool that has an endpoint and,
\* Uniswap V4's own aside, is probed, restored and watched: for any
\* configuration, file and environment, whatever is merged, banned or shared.
THEOREM EveryReaderIsServed == SetupSpec => []ReadersAreServed
<1>1. MadeInv => ReadersAreServed
  <2> SUFFICES ASSUME MadeInv, Made, NEW user \in Users(Effective(given))
               PROVE  LET pool == PoolOf(Effective(given), user)
                      IN  client.pools[pool] # <<>> /\ (pool \in client.attended \/ pool = "uniswapV4")
    BY DEF ReadersAreServed
  <2> DEFINE c == Effective(given)
  <2>1. Accepts(c) /\ client.pools = Pools(c) /\ client.attended = Attended(c)
    BY DEF MadeInv, Made
  <2>2. WellMade(c)
    BY EffectiveIsWellMade DEF MadeInv, SetupType
  <2> HIDE DEF c
  <2>3. user \in Users(c)
    BY DEF c
  <2>4. Pools(c)[PoolOf(c, user)] = EndpointsOf(c, PoolOf(c, user))
    BY <2>3 DEF Pools
  <2>5. Pools(c)[PoolOf(c, user)] # <<>>
    BY <2>1, <2>2, <2>3, <2>4, PoolsAreNotEmpty
  <2>6. PoolOf(c, user) \in Attended(c) \/ PoolOf(c, user) = "uniswapV4"
    BY <2>2, <2>3, PoolsAreAttended
  <2> QED BY <2>1, <2>5, <2>6 DEF c
<1> QED BY <1>1, MadeInvHolds, PTL

-----------------------------------------------------------------------------
(* What begins with what *)

\* One list after another begins with the one.
LEMMA JoinBegins ==
  ASSUME NEW s, NEW t, IsList(s), IsList(t)
  PROVE  BeginsWith(s, s \o t)
  BY ListsJoin, ListShape DEF BeginsWith

\* What begins with a list also does after another.
LEMMA JoinedBegins ==
  ASSUME NEW b, NEW u, NEW v, IsList(b), IsList(u), BeginsWith(u, v)
  PROVE  BeginsWith(b \o u, b \o v)
<1>1. /\ IsList(v) /\ Len(b) \in Nat /\ Len(u) \in Nat /\ Len(v) \in Nat /\ Len(v) >= Len(u)
      /\ \A i \in 1..Len(u) : v[i] = u[i]
  BY ListShape DEF BeginsWith
<1>2. /\ IsList(b \o u) /\ Len(b \o u) = Len(b) + Len(u)
      /\ \A i \in 1..Len(b) : (b \o u)[i] = b[i]
      /\ \A i \in 1..Len(u) : (b \o u)[Len(b) + i] = u[i]
  BY ListsJoin
<1>3. /\ IsList(b \o v) /\ Len(b \o v) = Len(b) + Len(v)
      /\ \A i \in 1..Len(b) : (b \o v)[i] = b[i]
      /\ \A i \in 1..Len(v) : (b \o v)[Len(b) + i] = v[i]
  BY <1>1, ListsJoin
<1>4. \A i \in 1..(Len(b) + Len(u)) : i \in 1..Len(b) \/ (i - Len(b) \in 1..Len(u) /\ i - Len(b) \in 1..Len(v) /\ i = Len(b) + (i - Len(b)))
  BY <1>1
<1>5. \A i \in 1..Len(b \o u) : (b \o v)[i] = (b \o u)[i]
  <2> SUFFICES ASSUME NEW i \in 1..(Len(b) + Len(u)) PROVE (b \o v)[i] = (b \o u)[i]
    BY <1>2
  <2>1. CASE i \in 1..Len(b)
    BY <2>1, <1>2, <1>3
  <2>2. CASE i - Len(b) \in 1..Len(u)
    BY <2>2, <1>1, <1>2, <1>3, <1>4
  <2> QED BY <2>1, <2>2, <1>4
<1> QED BY <1>1, <1>2, <1>3, <1>5 DEF BeginsWith

\* It does after what itself begins with it.
LEMMA BeginsThrough ==
  ASSUME NEW p, NEW q, NEW r, IsList(p), BeginsWith(p, q), BeginsWith(q, r)
  PROVE  BeginsWith(p, r)
<1>1. Len(p) \in Nat /\ Len(q) \in Nat /\ Len(r) \in Nat
  BY ListShape DEF BeginsWith
<1> QED BY <1>1 DEF BeginsWith

\* A filter of a longer list begins with that of what it begins with.
LEMMA AmongGrows ==
  ASSUME NEW S, NEW T, NEW u, NEW v, IsList(u), BeginsWith(u, v), \A x \in Range(u) : x \in S <=> x \in T
  PROVE  BeginsWith(Among(S, u), Among(T, v))
<1>1. /\ IsList(v) /\ Len(u) \in Nat /\ Len(v) \in Nat /\ Len(v) >= Len(u)
      /\ DOMAIN u = 1..Len(u) /\ \A i \in 1..Len(u) : v[i] = u[i]
  BY ListShape DEF BeginsWith
<1>2. PICK ku : AmongBy(S, u, ku)
  BY AmongKeeps
<1>3. PICK kv : AmongBy(T, v, kv)
  BY <1>1, AmongKeeps
<1>4. \A n \in 0..Len(u) : kv[n] = ku[n]
  <2> DEFINE off == {n \in 0..Len(u) : kv[n] # ku[n]}
  <2> SUFFICES ASSUME off # {} PROVE FALSE
    OBVIOUS
  <2>1. PICK n \in off : \A m \in off : n <= m
    <3>1. off \in SUBSET Nat
      OBVIOUS
    <3> HIDE DEF off
    <3> QED BY <3>1, Smallest
  <2>2. n # 0
    BY <1>2, <1>3 DEF AmongBy
  <2>3. n \in 1..Len(u) /\ n \in 1..Len(v) /\ n - 1 \in 0..Len(u) /\ ~(n <= n - 1)
    BY <1>1, <2>2
  <2>4. kv[n - 1] = ku[n - 1]
    BY <2>1, <2>3
  <2>5. v[n] = u[n] /\ (u[n] \in S <=> u[n] \in T)
    BY <1>1, <2>3 DEF Range
  <2>6. kv[n] = ku[n]
    BY <1>2, <1>3, <2>3, <2>4, <2>5 DEF AmongBy
  <2> QED BY <2>6
<1>5. \A n \in 0..Len(v) : n >= Len(u) => BeginsWith(ku[Len(u)], kv[n])
  <2> DEFINE off == {n \in 0..Len(v) : n >= Len(u) /\ ~BeginsWith(ku[Len(u)], kv[n])}
  <2> SUFFICES ASSUME off # {} PROVE FALSE
    OBVIOUS
  <2>1. PICK n \in off : \A m \in off : n <= m
    <3>1. off \in SUBSET Nat
      OBVIOUS
    <3> HIDE DEF off
    <3> QED BY <3>1, Smallest
  <2>2. IsList(ku[Len(u)]) /\ kv[Len(u)] = ku[Len(u)]
    <3>1. Len(u) \in 0..Len(u)
      BY <1>1
    <3> QED BY <3>1, <1>2, <1>4 DEF AmongBy
  <2>3. BeginsWith(ku[Len(u)], ku[Len(u)])
    BY <2>2, ListShape DEF BeginsWith
  <2>4. n # Len(u)
    BY <2>2, <2>3
  <2>5. n \in 1..Len(v) /\ n - 1 \in 0..Len(v) /\ n - 1 >= Len(u) /\ ~(n <= n - 1)
    <3>1. n \in 0..Len(v) /\ n >= Len(u) /\ Len(u) \in Nat /\ Len(v) \in Nat
      BY <1>1
    <3> HIDE DEF off
    <3> QED BY <2>4, <3>1
  <2>6. BeginsWith(ku[Len(u)], kv[n - 1])
    BY <2>1, <2>5
  <2>7. IsList(kv[n - 1]) /\ kv[n] = IF v[n] \in T THEN Append(kv[n - 1], v[n]) ELSE kv[n - 1]
    BY <1>3, <2>5 DEF AmongBy
  <2>8. BeginsWith(kv[n - 1], Append(kv[n - 1], v[n]))
    BY <2>7, ListGrows, ListShape DEF BeginsWith
  <2>9. BeginsWith(ku[Len(u)], kv[n])
    BY <2>2, <2>6, <2>7, <2>8, BeginsThrough
  <2> QED BY <2>9
<1>6. Len(v) \in 0..Len(v)
  BY <1>1
<1> QED BY <1>1, <1>2, <1>3, <1>5, <1>6 DEF AmongBy

\* A merge of endpoints is of these.
LEMMA MergedFrom ==
  ASSUME NEW list, IsList(list), NEW url, Serves(MergeEndpoints(<<>>, list), url)
  PROVE  \E x \in Range(list) : x.url = url
<1>1. {"id", "url"} # {}
  OBVIOUS
<1>2. \A x \in Range(MergeEndpoints(<<>>, list)) : x \in Range(list)
  BY <1>1, NothingIsList, UnlessMembers DEF MergeEndpoints
<1> QED BY <1>2 DEF Serves, Range

\* An endpoint is served if nothing up to it has its id and another URL.
LEMMA ServedInMerge ==
  ASSUME NEW p, NEW list, IsList(p), BeginsWith(p, list), NEW x \in Range(p),
         \A y \in Range(p) : y.id = x.id => y.url = x.url
  PROVE  Serves(MergeEndpoints(<<>>, list), x.url)
<1>1. Len(p) \in Nat /\ DOMAIN p = 1..Len(p) /\ IsList(list) /\ Len(list) \in Nat /\ Len(list) >= Len(p)
  BY ListShape DEF BeginsWith
<1>2. PICK m \in 1..Len(p) : x = p[m]
  BY <1>1 DEF Range
<1> DEFINE merged == MergeEndpoints(<<>>, list)
<1>3. IsList(merged) /\ MeetsAll({"id", "url"}, <<>>, list, merged, Len(list))
  <2>1. {"id", "url"} # {}
    OBVIOUS
  <2> QED BY <1>1, <2>1, UnlessKeeps, NothingIsList DEF MergeEndpoints, Kept, BeginsWith
<1> HIDE DEF merged
<1>4. m \in 1..Len(list) /\ list[m] = x
  BY <1>1, <1>2 DEF BeginsWith
<1>5. PICK i \in 1..Len(merged) : /\ Meets({"id", "url"}, merged[i], x)
                                  /\ i <= Len(<<>>) \/ \E k \in 1..m : merged[i] = list[k]
  BY <1>3, <1>4 DEF MeetsAll
<1>6. PICK k \in 1..m : merged[i] = list[k]
  <2>1. ~(i <= Len(<<>>))
    BY NothingIsList
  <2> QED BY <1>5, <2>1
<1>7. k \in 1..Len(p) /\ list[k] = p[k]
  BY <1>1, <1>2 DEF BeginsWith
<1>8. merged[i] \in Range(p)
  BY <1>1, <1>6, <1>7 DEF Range
<1>9. merged[i].url = x.url
  BY <1>5, <1>8 DEF Meets
<1>10. i \in DOMAIN merged
  BY <1>3, ListShape
<1> QED BY <1>9, <1>10 DEF Serves, merged

-----------------------------------------------------------------------------
(* What discovery does to a feature *)

\* An endpoint found for a chain that meets none of those listed.
Discovered(feature, chain, y) ==
  /\ y \in Range(GetRpcEndpoints(chain)) /\ y.enabled
  /\ \A x \in Range(feature.endpoints[chain]) : x.id # y.id /\ x.url # y.url

\* What is listed stays in front, what is found comes after, and what is out of service stays out of it.
LEMMA MergedIs ==
  ASSUME SetupType, NEW feature, IsFeature(feature), feature # None, NEW chains, NEW chain \in NetworksBuiltIn
  PROVE  /\ BeginsWith(feature.endpoints[chain], With(feature, chains).endpoints[chain])
         /\ \A y \in Range(With(feature, chains).endpoints[chain]) :
              y \in Range(feature.endpoints[chain]) \/ Discovered(feature, chain, y)
         /\ Range(feature.endpoints[chain]) \subseteq Range(With(feature, chains).endpoints[chain])
<1> DEFINE e == feature.endpoints[chain]
           m == With(feature, chains).endpoints[chain]
<1>1. IsList(e) /\ AllEnabled(GetRpcEndpoints(chain))
  BY FoundIsList DEF IsFeature, NetworksBuiltIn
<1>2. m = IF chain \in chains THEN MergeEndpoints(e, GetRpcEndpoints(chain)) ELSE e
  BY WithIs
<1> HIDE DEF e, m
<1>3. CASE chain \in chains
  <2>1. {"id", "url"} # {}
    OBVIOUS
  <2>2. BeginsWith(e, m)
    BY <1>1, <1>2, <1>3, <2>1, UnlessKeeps DEF MergeEndpoints, Kept, AllEnabled
  <2>3. /\ Range(e) \subseteq Range(m)
        /\ \A y \in Range(m) : \/ y \in Range(e)
                               \/ y \in Range(GetRpcEndpoints(chain)) /\ \A x \in Range(e) : ~Meets({"id", "url"}, x, y)
    BY <1>1, <1>2, <1>3, <2>1, UnlessMembers DEF MergeEndpoints, AllEnabled
  <2>4. \A x, y : ~Meets({"id", "url"}, x, y) => x.id # y.id /\ x.url # y.url
    BY DEF Meets
  <2>5. ASSUME NEW y \in Range(m), y \notin Range(e) PROVE Discovered(feature, chain, y)
    BY <1>1, <2>3, <2>4, <2>5 DEF Discovered, AllEnabled, e
  <2> QED BY <2>2, <2>3, <2>5 DEF e, m
<1>4. CASE chain \notin chains
  <2>1. BeginsWith(e, e)
    BY <1>1, ListShape DEF BeginsWith
  <2> QED BY <1>2, <1>4, <2>1 DEF e, m
<1> QED BY <1>3, <1>4

\* What is in service stays so, in front, and what comes is what is found.
LEMMA MergedInUse ==
  ASSUME SetupType, NEW feature, IsFeature(feature), feature # None, NEW chains, NEW chain \in NetworksBuiltIn
  PROVE  /\ BeginsWith(InUse(feature, chain), InUse(With(feature, chains), chain))
         /\ \A y \in Range(InUse(With(feature, chains), chain)) :
              y \in Range(InUse(feature, chain)) \/ Discovered(feature, chain, y)
         /\ \A y : (y \in Range(With(feature, chains).endpoints[chain]) /\ ~y.enabled)
                     <=> (y \in Range(feature.endpoints[chain]) /\ ~y.enabled)
<1> DEFINE w == With(feature, chains)
           e == feature.endpoints[chain]
           m == w.endpoints[chain]
           S == {x \in Range(e) : x.enabled}
           T == {x \in Range(m) : x.enabled}
<1>1. IsFeature(w) /\ IsList(e)
  BY WithIs DEF IsFeature, NetworksBuiltIn
<1>2. /\ BeginsWith(e, m) /\ Range(e) \subseteq Range(m)
      /\ \A y \in Range(m) : y \in Range(e) \/ Discovered(feature, chain, y)
  BY MergedIs
<1>3. InUse(feature, chain) = Among(S, e) /\ InUse(w, chain) = Among(T, m)
  BY DEF InUse
<1>4. Range(InUse(feature, chain)) = S /\ Range(InUse(w, chain)) = T
  BY <1>1, InUseIs
<1> HIDE DEF w, e, m
<1>5. \A x \in Range(e) : x \in S <=> x \in T
  BY <1>2
<1>6. BeginsWith(Among(S, e), Among(T, m))
  <2> HIDE DEF S, T
  <2> QED BY <1>1, <1>2, <1>5, AmongGrows
<1>7. \A y \in T : y \in S \/ Discovered(feature, chain, y)
  BY <1>2
<1>8. \A y : (y \in Range(m) /\ ~y.enabled) <=> (y \in Range(e) /\ ~y.enabled)
  BY <1>2 DEF Discovered
<1> HIDE DEF S, T
<1> QED BY <1>3, <1>4, <1>6, <1>7, <1>8 DEF w, e, m

\* What is found can be added to a sound feature whose URLs are written the way they are in a file.
LEMMA MergeIsSound ==
  ASSUME SetupType, NEW feature, IsFeature(feature), feature # None, NEW chains, FeatureIsSound(feature),
         Fits(With(feature, chains)),
         \A e \in Found : e.url = Text(e.url.of, "https"),
         \A chain \in NetworksBuiltIn : \A e \in Range(feature.endpoints[chain]) : e.url = Text(e.url.of, e.url.scheme)
  PROVE  FeatureIsSound(With(feature, chains))
<1> DEFINE w == With(feature, chains)
<1>1. /\ IsFeature(w) /\ w.enabled = feature.enabled /\ w.builtins = feature.builtins /\ w.chains = feature.chains
      /\ w.attemptMs = feature.attemptMs /\ w.totalMs = feature.totalMs
  BY WithIs
<1>2. ASSUME NEW chain \in NetworksBuiltIn PROVE EndpointsAreSound(w.endpoints[chain])
  <2> DEFINE e == feature.endpoints[chain]
             m == w.endpoints[chain]
             found == GetRpcEndpoints(chain)
  <2>1. IsList(e) /\ EndpointsAreSound(e) /\ AllEnabled(found)
    BY FoundIsList DEF IsFeature, NetworksBuiltIn, FeatureIsSound
  <2>2. m = IF chain \in chains THEN MergeEndpoints(e, found) ELSE e
    BY WithIs
  <2>3. CASE chain \notin chains
    BY <2>1, <2>2, <2>3
  <2>4. CASE chain \in chains
    <3>1. Kept({"id", "url"}, e, found, m, Len(found))
      <4>1. {"id", "url"} # {}
        OBVIOUS
      <4> HIDE DEF e, m, found
      <4> QED BY <2>1, <2>2, <2>4, <4>1, UnlessKeeps DEF MergeEndpoints, AllEnabled
    <3>2. \A y \in Range(m) : y \in Range(e) \/ y \in Found
      BY MergedIs DEF Discovered, Found, NetworksBuiltIn
    <3>3. \A y \in Range(e) : y.url.scheme = "https" /\ y.url = Text(y.url.of, y.url.scheme)
      BY <2>1 DEF EndpointsAreSound, Range
    <3>4. \A y \in Range(m) : y.url = Text(y.url.of, "https")
      BY <3>2, <3>3
    <3> HIDE DEF e, m, found, w
    <3>5. /\ DOMAIN m = 1..Len(m) /\ Len(m) \in Nat /\ DOMAIN e = 1..Len(e) /\ Len(e) \in Nat
          /\ \A i \in 1..Len(e) : m[i] = e[i]
      BY <2>1, <3>1, ListShape DEF Kept, BeginsWith
    <3>6. \A i \in 1..Len(m) : m[i].url = Text(m[i].url.of, "https")
      BY <3>4, <3>5 DEF Range
    <3>7. \A i \in DOMAIN m : m[i].url.scheme = "https"
      <4>1. \A of : Text(of, "https").scheme = "https"
        BY DEF Text
      <4> QED BY <3>5, <3>6, <4>1
    <3>8. ASSUME NEW i \in 1..Len(m), NEW j \in 1..Len(m), i < j
          PROVE  m[i].id # m[j].id /\ m[i].url.of # m[j].url.of
      <4>1. CASE j <= Len(e)
        <5>1. i \in DOMAIN e /\ j \in DOMAIN e /\ m[i] = e[i] /\ m[j] = e[j] /\ i # j
          BY <4>1, <3>5, <3>8
        <5> QED BY <5>1, <2>1 DEF EndpointsAreSound
      <4>2. CASE j > Len(e)
        <5>1. ~Meets({"id", "url"}, m[i], m[j])
          <6>1. i \in 1..(j - 1)
            BY <3>8
          <6> QED BY <4>2, <6>1, <3>1 DEF Kept, AddsNew
        <5>2. m[i].id # m[j].id /\ m[i].url # m[j].url
          BY <5>1 DEF Meets
        <5> QED BY <5>2, <3>6
      <4> QED BY <4>1, <4>2, <3>5
    <3>9. \A i, j \in DOMAIN m : m[i].id = m[j].id \/ m[i].url.of = m[j].url.of => i = j
      <4> SUFFICES ASSUME NEW i \in 1..Len(m), NEW j \in 1..Len(m), i # j
                   PROVE  m[i].id # m[j].id /\ m[i].url.of # m[j].url.of
        BY <3>5
      <4>1. i < j \/ j < i
        BY <3>5
      <4> QED BY <4>1, <3>8
    <3>10. EndpointsAreSound(m)
      BY <3>7, <3>9 DEF EndpointsAreSound
    <3> QED BY <3>10 DEF m, w
  <2> QED BY <2>3, <2>4
<1>3. ASSUME NEW chain \in NetworksBuiltIn, InUse(feature, chain) # <<>> PROVE InUse(w, chain) # <<>>
  <2>1. BeginsWith(InUse(feature, chain), InUse(w, chain)) /\ IsList(InUse(feature, chain))
    BY MergedInUse, InUseIs
  <2>2. Len(InUse(feature, chain)) # 0 /\ Len(InUse(feature, chain)) \in Nat /\ Len(InUse(w, chain)) >= Len(InUse(feature, chain))
    BY <1>3, <2>1, ListShape, NothingIsList DEF BeginsWith, IsList
  <2> QED BY <2>2, NothingIsList
<1> HIDE DEF w
<1>4. DOMAIN w.endpoints = NetworksBuiltIn /\ Range(w.chains) \subseteq NetworksBuiltIn
  BY <1>1 DEF IsFeature, NetworksBuiltIn
<1>5. UsesBuiltins(w) = UsesBuiltins(feature)
  BY <1>1 DEF UsesBuiltins
<1>6. /\ feature.attemptMs <= feature.totalMs /\ IsInjective(feature.chains)
      /\ feature.enabled /\ ~UsesBuiltins(feature) => \A c \in Range(feature.chains) : InUse(feature, c) # <<>>
  BY DEF FeatureIsSound
<1>7. Fits(w)
  BY DEF w
<1>8. w.enabled /\ ~UsesBuiltins(w) => \A c \in Range(w.chains) : InUse(w, c) # <<>>
  BY <1>1, <1>3, <1>4, <1>5, <1>6
<1>9. FeatureIsSound(w)
  BY <1>1, <1>2, <1>4, <1>6, <1>7, <1>8 DEF FeatureIsSound
<1> QED BY <1>9 DEF w

-----------------------------------------------------------------------------
(* What discovery does to a configuration *)

FeaturesOf(c) == {c.chainlink, c.defi, c.uniswapV3, c.uniswapV4}

\* What is left out is not a feature.
NoneIsNoFeature ==
  \A enabled, builtins, endpoints, chains, attemptMs, totalMs :
    None # [enabled |-> enabled, builtins |-> builtins, endpoints |-> endpoints,
            chains |-> chains, attemptMs |-> attemptMs, totalMs |-> totalMs]

\* A caller writes a URL the way it is written in a file: mergeEndpointConfigs compares what is written,
\* the validation that follows what is meant.
PlainlyListed ==
  \A g \in Given : \A feature \in FeaturesOf(g) \ {None} : \A chain \in NetworksBuiltIn :
    \A e \in Range(feature.endpoints[chain]) : e.url = Text(e.url.of, e.url.scheme)

\* What a caller, the library and Alchemy's keys name for a chain's readers.
NamedFor(g, chain) ==
  Range(Builtins[chain])
    \cup (IF g.chainlink = None THEN {} ELSE Range(g.chainlink.endpoints[chain]))
    \cup (IF g.defi = None THEN {} ELSE Range(g.defi.endpoints[chain]))
    \cup (IF chain = "ethereum" THEN Range(AlchemyDerived(g)) ELSE {})

\* They have one id for one endpoint.
OneNamePerEndpoint ==
  \A g \in Given : \A chain \in NetworksBuiltIn : \A x, y \in NamedFor(g, chain) : x.id = y.id <=> x.url = y.url

\* A feature that is there stays, enabled or not.
LEMMA FeatureStays ==
  ASSUME SetupType, NoneIsNoFeature, NEW feature, feature # None => IsFeature(feature), NEW chains
  PROVE  /\ feature = None <=> With(feature, chains) = None
         /\ Enabled(With(feature, chains)) = Enabled(feature)
         /\ Enabled(feature) => With(feature, chains).chains = feature.chains
<1>1. CASE feature = None
  BY <1>1 DEF With, Enabled
<1>2. CASE feature # None
  <2>1. /\ IsFeature(With(feature, chains)) /\ With(feature, chains).enabled = feature.enabled
        /\ With(feature, chains).chains = feature.chains
    BY <1>2, WithIs
  <2> DEFINE w == With(feature, chains)
  <2>2. w = [enabled |-> w.enabled, builtins |-> w.builtins, endpoints |-> w.endpoints,
             chains |-> w.chains, attemptMs |-> w.attemptMs, totalMs |-> w.totalMs]
    BY <2>1 DEF IsFeature
  <2> HIDE DEF w
  <2>3. w # None
    BY <2>2 DEF NoneIsNoFeature
  <2> QED BY <1>2, <2>1, <2>3 DEF Enabled, w
<1> QED BY <1>1, <1>2

\* The proxies found are proxies' URLs.
LEMMA ProxiesAreSound ==
  ASSUME SetupType
  PROVE  \A i \in DOMAIN GetProxies : ProxyUrl(GetProxies[i])
<1> DEFINE all   == GetKeysByPattern("proxy")
           set   == {entry \in Range(all) : ProxyUrl(entry.value)}
           found == Among(set, all)
           f     == [i \in DOMAIN found |-> [value |-> Text(found[i].value.of, found[i].value.scheme)]]
           u     == Unless({"value"}, <<>>, f)
<1>1. GetProxies = Values(u)
  BY DEF GetProxies
<1>2. IsList(found) /\ \A entry \in Range(found) : ProxyUrl(entry.value)
  <2>1. IsList(all)
    BY PatternIsList
  <2> HIDE DEF all
  <2> QED BY <2>1, AmongKeeps
<1> HIDE DEF found
<1>3. \A x \in Range(f) : ProxyUrl(x.value)
  <2>1. \A i \in DOMAIN found : ProxyUrl(found[i].value)
    BY <1>2 DEF Range
  <2>2. \A i \in DOMAIN found : ProxyUrl(f[i].value)
    BY <2>1 DEF ProxyUrl, Text
  <2> HIDE DEF f
  <2>3. DOMAIN f = DOMAIN found
    BY DEF f
  <2> QED BY <2>2, <2>3 DEF Range
<1>4. IsList(f)
  <2>1. Len(found) \in Nat /\ DOMAIN found = 1..Len(found)
    BY <1>2, ListShape
  <2>2. f = [i \in 1..Len(found) |-> f[i]]
    BY <2>1
  <2> HIDE DEF f
  <2> QED BY <2>1, <2>2, FcnIsList
<1> HIDE DEF f
<1>5. \A x \in Range(u) : x \in Range(f)
  <2>1. {"value"} # {}
    OBVIOUS
  <2> QED BY <1>4, <2>1, NothingIsList, UnlessMembers
<1> HIDE DEF u
<1>6. \A i \in DOMAIN u : ProxyUrl(u[i].value)
  BY <1>3, <1>5 DEF Range
<1> QED BY <1>1, <1>6 DEF Values

\* A configuration that stands without what is found stands with it.
LEMMA DiscoveryIsAccepted ==
  ASSUME SetupType, NoneIsNoFeature, PlainlyListed, file # None, FoundIsClean, Accepts(given)
  PROVE  Accepts(Effective(given))
<1> DEFINE c == Effective(given)
<1>1. /\ c.providers = Or(given.providers, Nonempty(GetProviderConfigs))
      /\ c.proxies = Or(given.proxies, Nonempty(GetProxies))
      /\ c.storage = Or(given.storage, Truthy(GetStorageUrl))
      /\ c.price = given.price /\ c.chains = given.chains /\ c.policy = given.policy
      /\ c.chainlink = With(given.chainlink, {"ethereum"})
      /\ c.defi = With(given.defi, {"ethereum", "base"})
      /\ c.uniswapV3 = With(given.uniswapV3, {"ethereum"})
      /\ c.uniswapV4 = With(given.uniswapV4, {"ethereum"})
  BY EffectiveIs DEF SetupType
<1>2. /\ \A e \in Found : e.url = Text(e.url.of, "https")
      /\ \A i \in DOMAIN GetProviderConfigs : SoundKeys(GetProviderConfigs[i].keys)
      /\ Len(GetProxies) <= MaxListed
      /\ \A feature \in FeaturesOf(c) \ {None} : Fits(feature)
  BY DEF FoundIsClean, FeaturesOf
<1>3. \A feature \in FeaturesOf(given) \ {None} : IsFeature(feature)
  BY SetupAssumption DEF SetupType, IsConfiguration, FeaturesOf
<1> HIDE DEF c
<1>4. \A i \in DOMAIN c.providers : c.providers # None => SoundProvider(c.providers[i])
  <2>1. \A i \in DOMAIN GetProviderConfigs : SoundProvider(GetProviderConfigs[i])
    BY <1>2, ProvidersAreLists DEF SoundProvider, ValidateBaseUrl
  <2>2. given.providers # None => \A i \in DOMAIN given.providers : SoundProvider(given.providers[i])
    BY DEF Accepts
  <2> QED BY <1>1, <2>1, <2>2 DEF Or, Nonempty
<1>5. c.proxies # None => Len(c.proxies) <= MaxListed /\ \A i \in DOMAIN c.proxies : ProxyUrl(c.proxies[i])
  <2>1. given.proxies # None => Len(given.proxies) <= MaxListed /\ \A i \in DOMAIN given.proxies : ProxyUrl(given.proxies[i])
    BY DEF Accepts
  <2> QED BY <1>1, <1>2, <2>1, ProxiesAreSound DEF Or, Nonempty
<1>6. ASSUME NEW feature \in FeaturesOf(given), NEW chains, With(feature, chains) \in FeaturesOf(c)
      PROVE  FeatureIsSound(With(feature, chains))
  <2>1. CASE feature = None
    BY <2>1 DEF With, FeatureIsSound
  <2>2. CASE feature # None
    <3>1. IsFeature(feature) /\ FeatureIsSound(feature)
      BY <1>3, <2>2 DEF Accepts, FeaturesOf
    <3>2. Fits(With(feature, chains))
      BY <1>2, <1>6, <2>2, <3>1, FeatureStays
    <3>3. \A chain \in NetworksBuiltIn : \A e \in Range(feature.endpoints[chain]) : e.url = Text(e.url.of, e.url.scheme)
      BY <2>2 DEF PlainlyListed, SetupType
    <3> QED BY <1>2, <2>2, <3>1, <3>2, <3>3, MergeIsSound
  <2> QED BY <2>1, <2>2
<1>7. \A f \in {c.chainlink, c.defi, c.uniswapV3, c.uniswapV4} : FeatureIsSound(f)
  BY <1>1, <1>6 DEF FeaturesOf
<1>8. /\ SoundPolicy(c.policy) /\ SoundPrice(c.price)
      /\ \A i \in DOMAIN c.chains : ParseChainDefinition(c.chains[i])
      /\ RegistersAll(BuiltinChains \o c.chains)
  BY <1>1 DEF Accepts
<1>9. \A feature \in FeaturesOf(given) : \A chains : Enabled(feature) => Enabled(With(feature, chains))
  BY <1>3, FeatureStays
<1>10. \/ Or(c.providers, <<>>) # <<>> \/ c.storage # None \/ c.price \notin {None, <<>>}
       \/ \E f \in {c.chainlink, c.defi, c.uniswapV3, c.uniswapV4} : Enabled(f)
  <2>1. CASE Or(given.providers, <<>>) # <<>>
    BY <2>1, <1>1 DEF Or
  <2>2. CASE given.storage # None
    BY <2>2, <1>1 DEF Or
  <2>3. CASE given.price \notin {None, <<>>}
    BY <2>3, <1>1
  <2>4. CASE \E f \in {given.chainlink, given.defi, given.uniswapV3, given.uniswapV4} : Enabled(f)
    BY <2>4, <1>1, <1>9 DEF FeaturesOf
  <2> QED BY <2>1, <2>2, <2>3, <2>4 DEF Accepts
<1>11. Accepts(c)
  BY <1>4, <1>5, <1>7, <1>8, <1>10 DEF Accepts
<1> QED BY <1>11 DEF c

-----------------------------------------------------------------------------
(* What discovery does to a pool *)

\* A pool of named endpoints keeps serving one of them when what is found is put after each of its parts:
\* built-in endpoints, two lists, and what is derived.
LEMMA PoolKeeps ==
  ASSUME NEW b, NEW u, NEW v, NEW w, NEW z, NEW a, NEW d, NEW N, NEW e \in N,
         IsList(b), IsList(u), IsList(w), IsList(a), IsList(d), BeginsWith(u, v), BeginsWith(w, z),
         Range(b) \subseteq N, Range(u) \subseteq N, Range(w) \subseteq N, Range(a) \subseteq N,
         \A x, y \in N : x.id = y.id <=> x.url = y.url,
         \A y \in Range(v) : y \in N \/ y.id # e.id,
         \/ e \in Range(u)
         \/ \A x \in Range(a) : x.id # e.id
         \/ d = a /\ \A y \in Range(z) : y \in N \/ y.id # e.id,
         Serves(MergeEndpoints(<<>>, b \o u \o w \o a), e.url)
  PROVE  Serves(MergeEndpoints(<<>>, b \o v \o z \o d), e.url)
<1> DEFINE all == b \o v \o z \o d
           bv  == b \o v
           bvz == b \o v \o z
<1>1. IsList(v) /\ IsList(z)
  BY DEF BeginsWith
<1>2. /\ IsList(bv) /\ Range(bv) = Range(b) \cup Range(v)
      /\ IsList(b \o u) /\ Range(b \o u) = Range(b) \cup Range(u)
  BY <1>1, ListsJoin
<1>3. /\ IsList(bvz) /\ Range(bvz) = Range(bv) \cup Range(z)
      /\ IsList(bv \o w) /\ Range(bv \o w) = Range(bv) \cup Range(w)
      /\ IsList(b \o u \o w) /\ Range(b \o u \o w) = Range(b) \cup Range(u) \cup Range(w)
  <2> HIDE DEF bv
  <2>1. bvz = bv \o z
    BY DEF bv
  <2> HIDE DEF bvz
  <2> QED BY <1>1, <1>2, <2>1, ListsJoin
<1>4. /\ IsList(all) /\ Range(all) = Range(bvz) \cup Range(d)
      /\ IsList(b \o u \o w \o a) /\ Range(b \o u \o w \o a) = Range(b) \cup Range(u) \cup Range(w) \cup Range(a)
  <2>1. all = bvz \o d
    OBVIOUS
  <2> HIDE DEF all, bvz, bv
  <2> QED BY <1>3, <2>1, ListsJoin
<1>5. BeginsWith(b, bv) /\ BeginsWith(bv, bvz) /\ BeginsWith(bvz, all)
  <2>1. bvz = bv \o z /\ all = bvz \o d
    OBVIOUS
  <2>2. BeginsWith(b, bv)
    BY <1>1, JoinBegins
  <2> HIDE DEF bv, bvz, all
  <2> QED BY <1>1, <1>2, <1>3, <2>1, <2>2, JoinBegins
<1>6. BeginsWith(b \o u, bv)
  BY JoinedBegins
<1>7. BeginsWith(bv \o w, bvz)
  <2>1. bvz = bv \o z
    OBVIOUS
  <2> HIDE DEF bv, bvz
  <2> QED BY <1>2, <2>1, JoinedBegins
<1>8. MergeEndpoints(<<>>, b \o v \o z \o d) = MergeEndpoints(<<>>, all)
  OBVIOUS
<1> HIDE DEF bv, bvz, all
<1>9. BeginsWith(bv, all) /\ BeginsWith(b, all) /\ BeginsWith(b \o u, all) /\ BeginsWith(bv \o w, all)
  BY <1>2, <1>3, <1>5, <1>6, <1>7, BeginsThrough
<1>10. PICK x \in Range(b) \cup Range(u) \cup Range(w) \cup Range(a) : x.url = e.url
  BY <1>4, MergedFrom
<1>11. x \in N /\ x.id = e.id /\ \A y \in N : y.id = x.id => y.url = x.url
  BY <1>10
<1>12. CASE x \in Range(b)
  BY <1>8, <1>9, <1>10, <1>11, <1>12, ServedInMerge
<1>13. ASSUME NEW served \in Range(u), served.url = e.url PROVE Serves(MergeEndpoints(<<>>, all), e.url)
  <2>1. \A y \in Range(b \o u) : y.id = served.id => y.url = served.url
    BY <1>2
  <2>2. served \in Range(b \o u)
    BY <1>2
  <2> QED BY <1>2, <1>9, <1>13, <2>1, <2>2, ServedInMerge
<1>14. CASE x \in Range(w)
  <2>1. \A y \in Range(bv \o w) : y.id = x.id => y.url = x.url
    BY <1>2, <1>3, <1>11
  <2>2. x \in Range(bv \o w)
    BY <1>3, <1>14
  <2>3. Serves(MergeEndpoints(<<>>, all), x.url)
    BY <1>3, <1>9, <2>1, <2>2, ServedInMerge
  <2> QED BY <1>8, <1>10, <2>3
<1>15. CASE x \in Range(a) /\ d = a /\ \A y \in Range(z) : y \in N \/ y.id # e.id
  <2>1. \A y \in Range(all) : y.id = x.id => y.url = x.url
    BY <1>2, <1>3, <1>4, <1>11, <1>15
  <2>2. x \in Range(all)
    BY <1>4, <1>15
  <2>3. BeginsWith(all, all)
    BY <1>4, ListShape DEF BeginsWith
  <2>4. Serves(MergeEndpoints(<<>>, all), x.url)
    BY <1>4, <2>1, <2>2, <2>3, ServedInMerge
  <2> QED BY <1>8, <1>10, <2>4
<1>16. CASE x \in Range(a) /\ e \in Range(u)
  BY <1>8, <1>13, <1>16
<1> QED BY <1>8, <1>10, <1>11, <1>12, <1>13, <1>14, <1>15, <1>16

\* What comes with Alchemy's keys is what the caller's come with, where the caller has any.
LEMMA DerivedStays ==
  ASSUME SetupType, file # None
  PROVE  AlchemyDerived(given) = <<>> \/ AlchemyDerived(Effective(given)) = AlchemyDerived(given)
<1>1. Effective(given).providers = Or(given.providers, Nonempty(GetProviderConfigs))
  BY EffectiveIs DEF SetupType
<1>2. CASE given.providers = None
  <2>1. Or(given.providers, <<>>) = <<>>
    BY <1>2 DEF Or
  <2>2. 1..0 = {} /\ Len(<<>>) = 0
    OBVIOUS
  <2> QED BY <2>1, <2>2 DEF AlchemyDerived, SelectInSeq
<1>3. CASE given.providers # None
  BY <1>1, <1>3 DEF AlchemyDerived, Or
<1> QED BY <1>2, <1>3

\* No list after a list changes it.
LEMMA NothingAfter ==
  ASSUME NEW s, IsList(s)
  PROVE  s \o <<>> = s
<1>1. s \in Seq(Range(s))
  BY DEF IsList
<1> QED BY <1>1

\* The features of a configuration with what is found.
LEMMA FeaturesAre ==
  ASSUME SetupType, NoneIsNoFeature, file # None
  PROVE  /\ Effective(given).chainlink = With(given.chainlink, {"ethereum"})
         /\ Effective(given).defi = With(given.defi, {"ethereum", "base"})
         /\ \A feature \in FeaturesOf(given) \ {None} : IsFeature(feature)
         /\ Enabled(Effective(given).chainlink) = Enabled(given.chainlink)
         /\ Enabled(Effective(given).defi) = Enabled(given.defi)
         /\ Enabled(Effective(given).uniswapV3) = Enabled(given.uniswapV3)
         /\ Enabled(Effective(given).uniswapV4) = Enabled(given.uniswapV4)
         /\ Enabled(given.defi) => Effective(given).defi.chains = given.defi.chains
<1>1. \A feature \in FeaturesOf(given) \ {None} : IsFeature(feature)
  BY SetupAssumption DEF SetupType, IsConfiguration, FeaturesOf
<1>2. /\ Effective(given).chainlink = With(given.chainlink, {"ethereum"})
      /\ Effective(given).defi = With(given.defi, {"ethereum", "base"})
      /\ Effective(given).uniswapV3 = With(given.uniswapV3, {"ethereum"})
      /\ Effective(given).uniswapV4 = With(given.uniswapV4, {"ethereum"})
  BY EffectiveIs DEF SetupType
<1> QED BY <1>1, <1>2, FeatureStays DEF FeaturesOf

\* Built-in endpoints stay with a feature, and are named.
LEMMA BuiltinsStay ==
  ASSUME SetupType, NEW feature, IsFeature(feature), feature # None, NEW chains, NEW chain \in NetworksBuiltIn
  PROVE  /\ BuiltinsFor(With(feature, chains), chain) = BuiltinsFor(feature, chain)
         /\ Range(BuiltinsFor(feature, chain)) \subseteq NamedFor(given, chain)
<1>1. UsesBuiltins(With(feature, chains)) = UsesBuiltins(feature)
  BY WithIs DEF UsesBuiltins
<1> QED BY <1>1, NothingIsList DEF BuiltinsFor, NamedFor

\* The archive pool keeps serving what is listed for Chainlink, or for DeFi under an id of its own.
LEMMA ArchiveKeeps ==
  ASSUME SetupType, NoneIsNoFeature, OneNamePerEndpoint, file # None, Enabled(given.chainlink),
         NEW e \in NamedFor(given, "ethereum"),
         e \in Range(given.chainlink.endpoints["ethereum"]) \/ e.id \notin {x.id : x \in Found},
         Serves(ChainlinkEndpoints(given), e.url)
  PROVE  Serves(ChainlinkEndpoints(Effective(given)), e.url)
<1> DEFINE c  == Effective(given)
           cl == given.chainlink
           cc == c.chainlink
           N  == NamedFor(given, "ethereum")
           reads(g) == Enabled(g.defi) /\ Contains(g.defi.chains, "ethereum")
           banned(g) == {x.id : x \in {x \in Range(g.chainlink.endpoints["ethereum"]) : ~x.enabled}}
           derived(g) == Among({x \in Range(AlchemyDerived(g)) : x.id \notin banned(g)}, AlchemyDerived(g))
           b == BuiltinsFor(cl, "ethereum")
           u == InUse(cl, "ethereum")
           v == InUse(cc, "ethereum")
           w == IF reads(given) THEN InUse(given.defi, "ethereum") ELSE <<>>
           z == IF reads(c) THEN InUse(c.defi, "ethereum") ELSE <<>>
           a == derived(given)
           d == derived(c)
<1>1. ChainlinkEndpoints(given) = MergeEndpoints(<<>>, b \o u \o w \o a)
  BY DEF ChainlinkEndpoints
<1>2. /\ cl # None /\ IsFeature(cl) /\ cc = With(cl, {"ethereum"}) /\ "ethereum" \in NetworksBuiltIn
      /\ given.defi # None => IsFeature(given.defi)
      /\ c.defi = With(given.defi, {"ethereum", "base"})
      /\ Enabled(c.defi) = Enabled(given.defi) /\ (Enabled(given.defi) => c.defi.chains = given.defi.chains)
  BY FeaturesAre DEF Enabled, FeaturesOf, NetworksBuiltIn
<1>3. ChainlinkEndpoints(c) = MergeEndpoints(<<>>, b \o v \o z \o d)
  <2>1. BuiltinsFor(cc, "ethereum") = b
    BY <1>2, BuiltinsStay
  <2> QED BY <2>1 DEF ChainlinkEndpoints
<1>4. IsList(b) /\ Range(b) \subseteq N
  BY <1>2, BuiltinsAreList, BuiltinsStay
<1>5. /\ IsList(u) /\ Range(u) = {x \in Range(cl.endpoints["ethereum"]) : x.enabled} /\ Range(u) \subseteq N
      /\ BeginsWith(u, v) /\ \A y \in Range(v) : y \in Range(u) \/ Discovered(cl, "ethereum", y)
  BY <1>2, InUseIs, MergedInUse DEF NamedFor
<1>6. /\ IsList(w) /\ Range(w) \subseteq N
      /\ BeginsWith(w, z) /\ \A y \in Range(z) : y \in Range(w) \/ Discovered(given.defi, "ethereum", y)
  <2>1. CASE reads(given)
    <3>1. given.defi # None /\ reads(c)
      BY <1>2, <2>1 DEF Enabled
    <3> QED BY <1>2, <2>1, <3>1, InUseIs, MergedInUse DEF NamedFor
  <2>2. CASE ~reads(given)
    <3>1. w = <<>> /\ z = <<>>
      BY <1>2, <2>2
    <3> HIDE DEF w, z
    <3> QED BY <3>1, NothingIsList DEF BeginsWith
  <2> QED BY <2>1, <2>2
<1>7. WellMade(given) /\ WellMade(c)
  BY SetupAssumption, EffectiveIsWellMade DEF SetupType, IsConfiguration, WellMade
<1>8. /\ IsList(a) /\ Range(a) \subseteq N /\ \A x \in Range(a) : x.id \notin banned(given)
      /\ IsList(d)
  <2>1. IsList(AlchemyDerived(given)) /\ IsList(AlchemyDerived(c))
    BY <1>7, DerivedIsList
  <2> HIDE DEF c
  <2> QED BY <2>1, AmongKeeps DEF NamedFor
<1>9. banned(c) = banned(given)
  <2>1. \A y : (y \in Range(cc.endpoints["ethereum"]) /\ ~y.enabled) <=> (y \in Range(cl.endpoints["ethereum"]) /\ ~y.enabled)
    BY <1>2, MergedInUse
  <2>2. {x \in Range(cc.endpoints["ethereum"]) : ~x.enabled} = {x \in Range(cl.endpoints["ethereum"]) : ~x.enabled}
    BY <2>1
  <2> QED BY <2>2
<1>10. Range(a) = {} \/ d = a
  <2>1. CASE AlchemyDerived(given) = <<>>
    <3>1. IsList(AlchemyDerived(given)) /\ Range(AlchemyDerived(given)) = {}
      BY <2>1, NothingIsList
    <3>2. Range(a) = {}
      BY <3>1, AmongKeeps
    <3> QED BY <3>2
  <2>2. CASE AlchemyDerived(c) = AlchemyDerived(given)
    BY <1>9, <2>2
  <2> QED BY <2>1, <2>2, DerivedStays
<1>11. \A x, y \in N : x.id = y.id <=> x.url = y.url
  BY <1>2 DEF OneNamePerEndpoint, SetupType
<1> HIDE DEF b, u, v, w, z, a, d, cc, cl
<1>12. \A feature, y : Discovered(feature, "ethereum", y) => y \in Found
  BY DEF Discovered, Found
<1>13. \A y \in Range(v) : y \in N \/ y.id # e.id
  <2>1. ASSUME NEW y, Discovered(cl, "ethereum", y) PROVE y.id # e.id
    BY <1>12, <2>1 DEF Discovered, cl
  <2> QED BY <1>5, <2>1
<1>14. \/ e \in Range(u)
       \/ \A x \in Range(a) : x.id # e.id
       \/ d = a /\ \A y \in Range(z) : y \in N \/ y.id # e.id
  <2>1. CASE e \in Range(cl.endpoints["ethereum"]) /\ e.enabled
    BY <1>5, <2>1
  <2>2. CASE e \in Range(cl.endpoints["ethereum"]) /\ ~e.enabled
    <3>1. e.id \in banned(given)
      BY <2>2 DEF cl
    <3> QED BY <1>8, <3>1
  <2>3. CASE e.id \notin {x.id : x \in Found}
    <3>1. \A y \in Range(z) : y \in N \/ y.id # e.id
      BY <1>6, <1>12, <2>3
    <3> QED BY <1>10, <3>1
  <2> QED BY <2>1, <2>2, <2>3 DEF cl
<1> HIDE DEF c, N, banned, reads, derived
<1>15. Serves(MergeEndpoints(<<>>, b \o u \o w \o a), e.url)
  BY <1>1
<1>16. Serves(MergeEndpoints(<<>>, b \o v \o z \o d), e.url)
  <2>1. e \in N
    BY DEF N
  <2> QED BY <1>4, <1>5, <1>6, <1>8, <1>11, <1>13, <1>14, <1>15, <2>1, PoolKeeps
<1> QED BY <1>3, <1>16 DEF c

\* DeFi's own pools keep serving what is listed for them.
LEMMA DeFiKeeps ==
  ASSUME SetupType, NoneIsNoFeature, OneNamePerEndpoint, file # None, Enabled(given.defi), NEW chain \in NetworksBuiltIn,
         NEW e \in Range(given.defi.endpoints[chain]),
         Serves(DeFiEndpoints(given, chain), e.url)
  PROVE  Serves(DeFiEndpoints(Effective(given), chain), e.url)
<1> DEFINE c  == Effective(given)
           N  == NamedFor(given, chain)
           derived(g) == IF chain = "ethereum" THEN AlchemyDerived(g) ELSE <<>>
           b == BuiltinsFor(given.defi, chain)
           u == InUse(given.defi, chain)
           v == InUse(c.defi, chain)
           n == <<>>
           a == derived(given)
           d == derived(c)
<1>1. /\ given.defi # None /\ IsFeature(given.defi) /\ c.defi = With(given.defi, {"ethereum", "base"})
  BY FeaturesAre DEF Enabled, FeaturesOf
<1>2. IsList(b) /\ Range(b) \subseteq N /\ BuiltinsFor(c.defi, chain) = b
  BY <1>1, BuiltinsAreList, BuiltinsStay
<1>3. /\ IsList(u) /\ Range(u) = {x \in Range(given.defi.endpoints[chain]) : x.enabled} /\ Range(u) \subseteq N /\ e \in N
      /\ BeginsWith(u, v) /\ \A y \in Range(v) : y \in Range(u) \/ Discovered(given.defi, chain, y)
  BY <1>1, InUseIs, MergedInUse DEF NamedFor
<1>4. WellMade(given) /\ WellMade(c)
  BY SetupAssumption, EffectiveIsWellMade DEF SetupType, IsConfiguration, WellMade
<1>5. /\ IsList(a) /\ Range(a) \subseteq N /\ IsList(d) /\ (Range(a) = {} \/ d = a)
  BY <1>4, DerivedIsList, DerivedStays, NothingIsList DEF NamedFor
<1>6. \A x, y \in N : x.id = y.id <=> x.url = y.url
  BY DEF OneNamePerEndpoint, SetupType
<1>7. \A y \in Range(v) : y \in N \/ y.id # e.id
  BY <1>3 DEF Discovered
<1>8. IsList(n) /\ Range(n) = {} /\ BeginsWith(n, n)
  BY NothingIsList DEF BeginsWith
<1>9. IsList(v)
  BY <1>3 DEF BeginsWith
<1>10. /\ DeFiEndpoints(given, chain) = MergeEndpoints(<<>>, b \o u \o a)
       /\ DeFiEndpoints(c, chain) = MergeEndpoints(<<>>, b \o v \o d)
  BY <1>2 DEF DeFiEndpoints
<1> HIDE DEF b, u, v, a, d, N, c
<1>11. b \o u \o n = b \o u /\ b \o v \o n = b \o v
  <2>1. IsList(b \o u) /\ IsList(b \o v)
    BY <1>2, <1>3, <1>9, ListsJoin
  <2> QED BY <2>1, NothingAfter
<1>12. Serves(MergeEndpoints(<<>>, b \o u \o n \o a), e.url)
  BY <1>10, <1>11
<1> HIDE DEF n
<1>13. \/ \A x \in Range(a) : x.id # e.id
       \/ d = a /\ \A y \in Range(n) : y \in N \/ y.id # e.id
  BY <1>5, <1>8
<1>14. Serves(MergeEndpoints(<<>>, b \o v \o n \o d), e.url)
  BY <1>2, <1>3, <1>5, <1>6, <1>7, <1>8, <1>12, <1>13, PoolKeeps
<1> QED BY <1>10, <1>11, <1>14 DEF c

\* The same readers read through pools of the same names.
LEMMA ReadersStay ==
  ASSUME SetupType, NoneIsNoFeature, file # None
  PROVE  /\ Users(given) \subseteq Users(Effective(given))
         /\ \A user \in Users(given) : PoolOf(Effective(given), user) = PoolOf(given, user)
  BY FeaturesAre DEF Users, PoolOf

\* Whatever a file holds, a configuration that stands without it stands with
\* it, and serves each endpoint its caller listed and had in service: where
\* callers write URLs as files do and have one name for an endpoint.
THEOREM DiscoveryKeepsWhatStands ==
  ASSUME NoneIsNoFeature, PlainlyListed, OneNamePerEndpoint
  PROVE  SetupSpec => []DiscoveryOnlyAdds
<1>1. MadeInv => DiscoveryOnlyAdds
  <2> SUFFICES ASSUME MadeInv, client # None, file # None, FoundIsClean, Accepts(given)
               PROVE  /\ Made
                      /\ \A user \in Users(given) : \A e \in ListedFor(user) :
                           Serves(Pools(given)[PoolOf(given, user)], e.url) => Serves(client.pools[PoolOf(given, user)], e.url)
    BY DEF DiscoveryOnlyAdds
  <2> DEFINE c == Effective(given)
  <2>1. SetupType
    BY DEF MadeInv
  <2>2. Accepts(c)
    BY <2>1, DiscoveryIsAccepted
  <2>3. Made /\ client.pools = Pools(c)
    BY <2>2 DEF MadeInv, Made
  <2>4. ASSUME NEW user \in Users(given), NEW e \in ListedFor(user), Serves(Pools(given)[PoolOf(given, user)], e.url)
        PROVE  Serves(client.pools[PoolOf(given, user)], e.url)
    <3> DEFINE pool == PoolOf(given, user)
    <3>1. Pools(given)[pool] = EndpointsOf(given, pool)
      BY DEF Pools
    <3>2. Pools(c)[pool] = EndpointsOf(c, pool)
      <4>1. user \in Users(c) /\ pool = PoolOf(c, user)
        BY <2>1, ReadersStay
      <4> HIDE DEF c, pool
      <4> QED BY <4>1 DEF Pools
    <3>3. user \in {"chainlink", "defi-ethereum", "defi-base"}
      BY DEF ListedFor
    <3>4. CASE user = "chainlink"
      <4>1. Enabled(given.chainlink) /\ pool = "archive" /\ e \in Range(given.chainlink.endpoints["ethereum"])
        BY <2>4, <3>4 DEF Users, PoolOf, ListedFor
      <4>2. e \in NamedFor(given, "ethereum")
        BY <4>1 DEF NamedFor, Enabled
      <4>3. Serves(ChainlinkEndpoints(given), e.url)
        BY <2>4, <3>1, <4>1 DEF EndpointsOf
      <4>4. Serves(ChainlinkEndpoints(c), e.url)
        BY <2>1, <4>1, <4>2, <4>3, ArchiveKeeps
      <4> QED BY <2>3, <3>2, <4>1, <4>4 DEF EndpointsOf
    <3>5. CASE user = "defi-ethereum"
      <4>1. /\ Enabled(given.defi) /\ given.defi # None /\ e \in Range(given.defi.endpoints["ethereum"])
            /\ e.id \notin {x.id : x \in Found}
        BY <2>4, <3>5 DEF Users, ListedFor, Enabled
      <4>2. e \in NamedFor(given, "ethereum")
        BY <4>1 DEF NamedFor
      <4>3. CASE Enabled(given.chainlink)
        <5>1. pool = "archive"
          BY <3>5, <4>3 DEF PoolOf
        <5>2. Serves(ChainlinkEndpoints(given), e.url)
          BY <2>4, <3>1, <5>1 DEF EndpointsOf
        <5>3. Serves(ChainlinkEndpoints(c), e.url)
          BY <2>1, <4>1, <4>2, <4>3, <5>2, ArchiveKeeps
        <5> QED BY <2>3, <3>2, <5>1, <5>3 DEF EndpointsOf
      <4>4. CASE ~Enabled(given.chainlink)
        <5>1. pool = "defi-ethereum"
          BY <3>5, <4>4 DEF PoolOf
        <5>2. Serves(DeFiEndpoints(given, "ethereum"), e.url)
          BY <2>4, <3>1, <5>1 DEF EndpointsOf
        <5>3. Serves(DeFiEndpoints(c, "ethereum"), e.url)
          BY <2>1, <4>1, <5>2, DeFiKeeps DEF NetworksBuiltIn
        <5> QED BY <2>3, <3>2, <5>1, <5>3 DEF EndpointsOf
      <4> QED BY <4>3, <4>4
    <3>6. CASE user = "defi-base"
      <4>1. Enabled(given.defi) /\ e \in Range(given.defi.endpoints["base"]) /\ pool = "defi-base"
        BY <2>4, <3>6 DEF Users, ListedFor, PoolOf
      <4>2. Serves(DeFiEndpoints(given, "base"), e.url)
        BY <2>4, <3>1, <4>1 DEF EndpointsOf
      <4>3. Serves(DeFiEndpoints(c, "base"), e.url)
        BY <2>1, <4>1, <4>2, DeFiKeeps DEF NetworksBuiltIn
      <4> QED BY <2>3, <3>2, <4>1, <4>3 DEF EndpointsOf
    <3> QED BY <3>3, <3>4, <3>5, <3>6
  <2> QED BY <2>3, <2>4
<1> QED BY <1>1, MadeInvHolds, PTL

-----------------------------------------------------------------------------
(* Cooldowns *)

\* No two attended pools have an endpoint or key of one id: they would share
\* its row, and the one's success delete the other's count.
RowsOfTheirOwn == \A r, s \in Watched : RowKey(r) = RowKey(s) => r = s

-----------------------------------------------------------------------------
(* Cooldowns: the inductive invariant *)

UpkeepType ==
  /\ setting \in Settings
  /\ tracker \in [R -> Nat] /\ actual \in [R -> Nat]
  /\ rows \in [RowKeys -> Nat]
  /\ inFlight \subseteq [key : RowKeys, count : Nat]
  /\ open \in BOOLEAN /\ restored \in BOOLEAN
  /\ at \in [Callers -> {"idle", "open", "read", "apply", "probe", "collect", "send"}]
  /\ DOMAIN read = Callers /\ \A c \in Restoring : read[c] \in [RowKeys -> Nat]
  /\ murky \subseteq R

\* What is on disk, or will be.
Stored(r) ==
  /\ \A s \in InFlightOn(r) : s.count = actual[r]
  /\ InFlightOn(r) = {} => rows[RowKey(r)] = actual[r]

\* What is in memory; before the restore of a start it may be missing.
Remembered(r) == tracker[r] = actual[r] \/ (~restored /\ tracker[r] = 0)

\* What a call that is about to restore has read; only a check's read may have failed.
ReadWell(r) ==
  \A c \in Restoring :
    /\ InFlightOn(r) = {}
    /\ read[c][RowKey(r)] = actual[r] \/ (c # "initialize" /\ read[c][RowKey(r)] = 0)

CountsInv ==
  /\ UpkeepType
  /\ \A r \in Watched \ murky : Stored(r) /\ Remembered(r) /\ ReadWell(r)

-----------------------------------------------------------------------------

\* The constants' types.
LEMMA ResourceFacts ==
  ASSUME NEW r \in R
  PROVE  RowKey(r) \in RowKeys /\ Resources[r].attended \in BOOLEAN
  BY UpkeepAssumption DEF RowKeys, R

\* Nothing is restored, nothing is under way, nothing has failed.
LEMMA CountsInit == UpkeepInit => CountsInv
<1> SUFFICES ASSUME UpkeepInit PROVE CountsInv
  OBVIOUS
<1>1. UpkeepType
  BY DEF UpkeepInit, UpkeepType, Restoring
<1>2. ASSUME NEW r \in Watched PROVE Stored(r) /\ Remembered(r) /\ ReadWell(r)
  <2>1. r \in R /\ RowKey(r) \in RowKeys
    BY ResourceFacts DEF Watched
  <2>2. InFlightOn(r) = {} /\ Restoring = {}
    BY DEF UpkeepInit, InFlightOn, Restoring
  <2> QED
    BY <2>1, <2>2 DEF UpkeepInit, Stored, Remembered, ReadWell
<1> QED
  BY <1>1, <1>2 DEF CountsInv

\* What an event of r leaves on disk or on its way there (CooldownStore.save, delete).
LEMMA StoreWrites ==
  ASSUME UpkeepType, NEW r \in R, NEW count \in Nat, Store(RowKey(r), count)
  PROVE  /\ rows' \in [RowKeys -> Nat]
         /\ inFlight' \subseteq [key : RowKeys, count : Nat]
         /\ \A key \in RowKeys \ {RowKey(r)} : /\ rows'[key] = rows[key]
                                                /\ \A s : s.key = key => (s \in inFlight' <=> s \in inFlight)
         /\ open /\ InFlightOn(r) = {} =>
              \/ InFlightOn(r)' = {} /\ rows'[RowKey(r)] = count
              \/ InFlightOn(r)' = {[key |-> RowKey(r), count |-> count]}
<1>1. RowKey(r) \in RowKeys
  BY ResourceFacts
<1>2. CASE ~open
  BY <1>1, <1>2 DEF Store, UpkeepType
<1>3. CASE open /\ setting.driver = "sqlite"
  BY <1>1, <1>3 DEF Store, UpkeepType, InFlightOn
<1>4. CASE open /\ setting.driver # "sqlite"
  <2>1. inFlight' = inFlight \cup {[key |-> RowKey(r), count |-> count]} /\ rows' = rows
    BY <1>4 DEF Store
  <2>2. InFlightOn(r) = {} => InFlightOn(r)' = {[key |-> RowKey(r), count |-> count]}
    BY <2>1 DEF InFlightOn
  <2> QED
    BY <1>1, <2>1, <2>2 DEF UpkeepType
<1> QED
  BY <1>2, <1>3, <1>4 DEF UpkeepType

\* For a resource that an event of another leaves alone, with what it reads and writes.
LEMMA Untouched ==
  ASSUME NEW r \in Watched,
         tracker'[r] = tracker[r], actual'[r] = actual[r], rows'[RowKey(r)] = rows[RowKey(r)],
         InFlightOn(r)' = InFlightOn(r), restored' = restored, Restoring' = Restoring, read' = read,
         Stored(r), Remembered(r), ReadWell(r)
  PROVE  Stored(r)' /\ Remembered(r)' /\ ReadWell(r)'
<1>1. RowKey(r)' = RowKey(r)
  BY DEF RowKey
<1> QED
  BY <1>1 DEF Stored, Remembered, ReadWell

\* An event of a pool without rows, or of one whose rows are its own, touches no other attended pool.
LEMMA OthersUntouched ==
  ASSUME RowsOfTheirOwn, UpkeepType, NEW r \in R, NEW count \in Nat, Change(r, count), NEW s \in Watched, s # r
  PROVE  /\ tracker'[s] = tracker[s] /\ rows'[RowKey(s)] = rows[RowKey(s)]
         /\ InFlightOn(s)' = InFlightOn(s)
         /\ restored' = restored /\ Restoring' = Restoring /\ read' = read
<1>1. s \in R /\ RowKey(s) \in RowKeys /\ Resources[s].attended
  BY ResourceFacts DEF Watched
<1>2. /\ tracker' = [tracker EXCEPT ![r] = count]
      /\ restored' = restored /\ at' = at /\ read' = read
  BY DEF Change
<1>3. tracker'[s] = tracker[s] /\ Restoring' = Restoring
  BY <1>1, <1>2 DEF UpkeepType, Restoring
<1>4. CASE ~Resources[r].attended
  BY <1>2, <1>3, <1>4 DEF Change, InFlightOn, RowKey
<1>5. CASE Resources[r].attended
  <2>1. r \in Watched
    BY <1>5 DEF Watched
  <2>2. RowKey(s) \in RowKeys \ {RowKey(r)}
    BY <1>1, <2>1 DEF RowsOfTheirOwn
  <2>3. Store(RowKey(r), count)
    BY <1>5 DEF Change
  <2>4. rows'[RowKey(s)] = rows[RowKey(s)] /\ \A x : x.key = RowKey(s) => (x \in inFlight' <=> x \in inFlight)
    BY <2>2, <2>3, StoreWrites
  <2>5. InFlightOn(s)' = InFlightOn(s)
    BY <2>4 DEF InFlightOn, RowKey
  <2> QED
    BY <1>2, <1>3, <2>4, <2>5
<1> QED
  BY <1>4, <1>5, ResourceFacts

\* An event in an open, quiet storage leaves memory and disk, or what is on its
\* way there, with the same count.
LEMMA QuietEventCounts ==
  ASSUME UpkeepType, NEW r \in Watched, NEW count \in Nat, Change(r, count), actual'[r] = count, Undisturbed(r)
  PROVE  Stored(r)' /\ Remembered(r)' /\ ReadWell(r)'
<1>1. r \in R /\ Resources[r].attended
  BY DEF Watched
<1>2. Store(RowKey(r), count) /\ tracker' = [tracker EXCEPT ![r] = count] /\ at' = at
  BY <1>1 DEF Change
<1>3. \/ InFlightOn(r)' = {} /\ rows'[RowKey(r)] = count
      \/ InFlightOn(r)' = {[key |-> RowKey(r), count |-> count]}
  BY <1>1, <1>2, StoreWrites DEF Undisturbed
<1>4. Stored(r)'
  <2>1. CASE InFlightOn(r)' = {} /\ rows'[RowKey(r)] = count
    <3>1. RowKey(r)' = RowKey(r)
      BY DEF RowKey
    <3> QED
      BY <2>1, <3>1 DEF Stored
  <2>2. CASE InFlightOn(r)' = {[key |-> RowKey(r), count |-> count]}
    <3>1. \A s \in InFlightOn(r)' : s.count = count
      BY <2>2
    <3>2. InFlightOn(r)' # {}
      BY <2>2
    <3> QED
      BY <3>1, <3>2 DEF Stored
  <2> QED
    BY <1>3, <2>1, <2>2
<1>5. tracker'[r] = count
  BY <1>1, <1>2 DEF UpkeepType
<1>6. Restoring' = {}
  BY <1>2 DEF Undisturbed, Restoring
<1> QED
  BY <1>4, <1>5, <1>6 DEF Remembered, ReadWell

\* A change of a count keeps the types.
LEMMA ChangeType ==
  ASSUME UpkeepType, NEW r \in R, NEW count \in Nat, Change(r, count), actual' \in [R -> Nat], murky' \subseteq R
  PROVE  UpkeepType'
<1>1. rows' \in [RowKeys -> Nat] /\ inFlight' \subseteq [key : RowKeys, count : Nat]
  <2>1. CASE Resources[r].attended
    BY <2>1, StoreWrites DEF Change
  <2>2. CASE ~Resources[r].attended
    BY <2>2 DEF Change, UpkeepType
  <2> QED
    BY <2>1, <2>2
<1>2. UNCHANGED <<setting, open, at, read, restored>> /\ tracker' \in [R -> Nat]
  BY DEF Change, UpkeepType
<1>3. Restoring' = Restoring
  BY <1>2 DEF Restoring
<1> QED
  BY <1>1, <1>2, <1>3 DEF UpkeepType

\* A failure is counted in memory and on its way to disk, or remembered as a race.
LEMMA FailCounts ==
  ASSUME RowsOfTheirOwn, CountsInv, NEW r \in R, Fail(r)
  PROVE  CountsInv'
<1>1. /\ tracker[r] + 1 \in Nat /\ Change(r, tracker[r] + 1)
      /\ actual' = [actual EXCEPT ![r] = @ + 1]
      /\ murky' = IF Undisturbed(r) /\ restored THEN murky ELSE murky \cup {r}
  BY DEF Fail, CountsInv, UpkeepType
<1>2. UpkeepType'
  <2>1. actual' \in [R -> Nat] /\ murky' \subseteq R
    BY <1>1 DEF CountsInv, UpkeepType
  <2> QED
    BY <1>1, <2>1, ChangeType DEF CountsInv
<1>3. ASSUME NEW s \in Watched \ murky' PROVE Stored(s)' /\ Remembered(s)' /\ ReadWell(s)'
  <2>1. s \in R /\ s \notin murky /\ Stored(s) /\ Remembered(s) /\ ReadWell(s)
    BY <1>1, <1>3 DEF CountsInv, Watched
  <2>2. CASE s = r
    <3>1. Undisturbed(r) /\ restored
      BY <1>1, <1>3, <2>2
    <3>2. tracker[r] = actual[r] /\ actual'[r] = tracker[r] + 1
      BY <1>1, <2>1, <2>2, <3>1 DEF Remembered, CountsInv, UpkeepType
    <3> QED
      BY <1>1, <1>3, <2>2, <3>1, <3>2, QuietEventCounts DEF CountsInv
  <2>3. CASE s # r
    <3>1. actual'[s] = actual[s]
      BY <1>1, <2>1, <2>3 DEF CountsInv, UpkeepType
    <3>2. /\ tracker'[s] = tracker[s] /\ rows'[RowKey(s)] = rows[RowKey(s)] /\ InFlightOn(s)' = InFlightOn(s)
          /\ restored' = restored /\ Restoring' = Restoring /\ read' = read
      BY <1>1, <1>3, <2>3, OthersUntouched DEF CountsInv
    <3> QED
      BY <1>3, <2>1, <3>1, <3>2, Untouched
  <2> QED
    BY <2>2, <2>3
<1> QED
  BY <1>2, <1>3 DEF CountsInv, Watched

\* A success mends what a race broke.
LEMMA SucceedCounts ==
  ASSUME RowsOfTheirOwn, CountsInv, NEW r \in R, Succeed(r)
  PROVE  CountsInv'
<1>1. /\ Change(r, 0)
      /\ actual' = [actual EXCEPT ![r] = 0]
      /\ murky' = IF Undisturbed(r) THEN murky \ {r} ELSE murky \cup {r}
  BY DEF Succeed
<1>2. UpkeepType'
  <2>1. actual' \in [R -> Nat] /\ murky' \subseteq R
    BY <1>1 DEF CountsInv, UpkeepType
  <2> QED
    BY <1>1, <2>1, ChangeType DEF CountsInv
<1>3. ASSUME NEW s \in Watched \ murky' PROVE Stored(s)' /\ Remembered(s)' /\ ReadWell(s)'
  <2>1. s \in R
    BY DEF Watched
  <2>2. CASE s = r
    <3>1. Undisturbed(r) /\ actual'[r] = 0
      BY <1>1, <1>3, <2>2 DEF CountsInv, UpkeepType
    <3> QED
      BY <1>1, <1>3, <2>2, <3>1, QuietEventCounts DEF CountsInv
  <2>3. CASE s # r
    <3>1. Stored(s) /\ Remembered(s) /\ ReadWell(s)
      BY <1>1, <1>3, <2>3 DEF CountsInv
    <3>2. actual'[s] = actual[s]
      BY <1>1, <2>1, <2>3 DEF CountsInv, UpkeepType
    <3>3. /\ tracker'[s] = tracker[s] /\ rows'[RowKey(s)] = rows[RowKey(s)] /\ InFlightOn(s)' = InFlightOn(s)
          /\ restored' = restored /\ Restoring' = Restoring /\ read' = read
      BY <1>1, <1>3, <2>3, OthersUntouched DEF CountsInv
    <3> QED
      BY <1>3, <3>1, <3>2, <3>3, Untouched
  <2> QED
    BY <2>2, <2>3
<1> QED
  BY <1>2, <1>3 DEF CountsInv, Watched

\* Steps that neither read nor write counts.
LEMMA CountsUntouched ==
  ASSUME CountsInv, UpkeepType', Restoring' = Restoring,
         UNCHANGED <<tracker, actual, rows, inFlight, read, restored, murky>>
  PROVE  CountsInv'
<1>1. ASSUME NEW r \in Watched \ murky PROVE Stored(r)' /\ Remembered(r)' /\ ReadWell(r)'
  <2>1. Stored(r) /\ Remembered(r) /\ ReadWell(r)
    BY DEF CountsInv
  <2>2. InFlightOn(r)' = InFlightOn(r)
    BY DEF InFlightOn, RowKey
  <2> QED
    BY <2>1, <2>2, Untouched
<1> QED
  BY <1>1 DEF CountsInv, Watched

\* Nobody begins or ends a restore.
LEMMA StepElsewhere ==
  ASSUME UpkeepType, NEW c \in Callers, NEW from, NEW to \in {"idle", "open", "read", "probe", "collect", "send"}, Step(c, from, to),
         from # "apply"
  PROVE  Restoring' = Restoring /\ at' \in [Callers -> {"idle", "open", "read", "apply", "probe", "collect", "send"}]
<1>1. at[c] # "apply" /\ at' = [at EXCEPT ![c] = to]
  BY DEF Step
<1> QED
  BY <1>1 DEF UpkeepType, Restoring

\* Every step but an event, a statement, a read, a restore and a restart.
LEMMA QuietSteps ==
  ASSUME CountsInv,
         \/ Initialize \/ OpenStorage \/ FailToOpen \/ AwaitProbes \/ Close \/ Tick
         \/ \E c \in Checkers : StartCheck(c) \/ Skip(c) \/ Send(c) \/ Answered(c, TRUE) \/ Answered(c, FALSE)
  PROVE  CountsInv'
<1>1. UNCHANGED <<setting, tracker, actual, rows, inFlight, read, restored, murky>> /\ open' \in BOOLEAN
  BY DEF Initialize, OpenStorage, FailToOpen, AwaitProbes, Close, Tick, StartCheck, Skip, Send, Answered, CountsInv, UpkeepType
<1>2. UpkeepType
  BY DEF CountsInv
<1>3. Restoring' = Restoring /\ at' \in [Callers -> {"idle", "open", "read", "apply", "probe", "collect", "send"}]
  <2>1. CASE Close \/ Tick
    BY <1>2, <2>1 DEF Close, Tick, Restoring, UpkeepType
  <2>2. CASE Initialize \/ OpenStorage \/ FailToOpen \/ AwaitProbes
    <3>1. "initialize" \in Callers
      BY DEF Callers
    <3> QED
      BY <1>2, <2>2, <3>1, StepElsewhere DEF Initialize, OpenStorage, FailToOpen, AwaitProbes
  <2>3. ASSUME NEW c \in Checkers, StartCheck(c) \/ Skip(c) \/ Send(c) \/ Answered(c, TRUE) \/ Answered(c, FALSE)
        PROVE  Restoring' = Restoring /\ at' \in [Callers -> {"idle", "open", "read", "apply", "probe", "collect", "send"}]
    <3>1. c \in Callers
      BY DEF Callers
    <3> QED
      BY <1>2, <2>3, <3>1, StepElsewhere DEF StartCheck, Skip, Send, Answered
  <2> QED
    BY <2>1, <2>2, <2>3
<1>4. UpkeepType'
  BY <1>1, <1>2, <1>3 DEF UpkeepType
<1> QED
  BY <1>1, <1>3, <1>4, CountsUntouched

\* PostgreSQL executes what was on its way; what it loses is remembered.
LEMMA StatementCounts ==
  ASSUME CountsInv, NEW s \in inFlight, Land(s) \/ Lose(s)
  PROVE  CountsInv'
<1>1. /\ UNCHANGED <<setting, tracker, actual, read, restored, at, open>>
      /\ inFlight' = inFlight \ {s}
      /\ s.key \in RowKeys /\ s.count \in Nat
      /\ rows' = [rows EXCEPT ![s.key] = s.count] \/ rows' = rows
      /\ murky \subseteq murky' /\ murky' \subseteq R
  BY DEF Land, Lose, OnRow, CountsInv, UpkeepType
<1>2. UpkeepType'
  <2>1. Restoring' = Restoring
    BY <1>1 DEF Restoring
  <2> QED
    BY <1>1, <2>1 DEF CountsInv, UpkeepType
<1>3. ASSUME NEW r \in Watched \ murky' PROVE Stored(r)' /\ Remembered(r)' /\ ReadWell(r)'
  <2>1. r \in R /\ RowKey(r) \in RowKeys /\ Stored(r) /\ Remembered(r) /\ ReadWell(r)
    BY <1>1, ResourceFacts DEF CountsInv, Watched
  <2>2. RowKey(r)' = RowKey(r) /\ InFlightOn(r)' = InFlightOn(r) \ {s}
    BY <1>1 DEF InFlightOn, RowKey
  <2>3. Restoring' = Restoring
    BY <1>1 DEF Restoring
  <2>4. Stored(r)'
    <3>1. CASE s.key = RowKey(r)
      <4>1. Land(s)
        BY <1>3, <2>1, <3>1 DEF Lose, OnRow
      <4>2. s \in InFlightOn(r)
        BY <3>1 DEF InFlightOn
      <4>3. rows'[RowKey(r)] = actual[r]
        BY <2>1, <3>1, <4>1, <4>2 DEF Land, Stored, CountsInv, UpkeepType
      <4> QED
        BY <1>1, <2>1, <2>2, <4>3 DEF Stored
    <3>2. CASE s.key # RowKey(r)
      <4>1. InFlightOn(r)' = InFlightOn(r)
        BY <2>2, <3>2 DEF InFlightOn
      <4>2. rows'[RowKey(r)] = rows[RowKey(r)]
        BY <1>1, <2>1, <3>2 DEF CountsInv, UpkeepType
      <4> QED
        BY <1>1, <2>1, <2>2, <4>1, <4>2 DEF Stored
    <3> QED
      BY <3>1, <3>2
  <2> QED
    BY <1>1, <2>1, <2>2, <2>3, <2>4 DEF Remembered, ReadWell
<1> QED
  BY <1>2, <1>3 DEF CountsInv, Watched

\* What is read while nothing is under way is what is on disk, or nothing.
LEMMA LoadCounts ==
  ASSUME CountsInv, NEW c \in Callers, LoadAll(c)
  PROVE  CountsInv'
<1>1. PICK found \in {[k \in RowKeys |-> 0]} \cup {rows} :
        /\ read' = [read EXCEPT ![c] = found]
        /\ murky' = murky \cup {r \in R : InFlightOn(r) # {} \/ (c = "initialize" /\ found # rows)}
  BY DEF LoadAll
<1>2. /\ UNCHANGED <<setting, tracker, actual, rows, inFlight, open, restored>>
      /\ at' = [at EXCEPT ![c] = "apply"]
  BY DEF LoadAll, Step
<1>3. UpkeepType'
  <2>1. found \in [RowKeys -> Nat]
    BY <1>1 DEF CountsInv, UpkeepType
  <2>2. ASSUME NEW d \in Restoring' PROVE read'[d] \in [RowKeys -> Nat]
    <3>1. CASE d = c
      BY <1>1, <2>1, <3>1 DEF CountsInv, UpkeepType
    <3>2. CASE d # c
      BY <1>1, <1>2, <2>2, <3>2 DEF CountsInv, UpkeepType, Restoring
    <3> QED
      BY <3>1, <3>2
  <2> QED
    BY <1>1, <1>2, <2>2 DEF CountsInv, UpkeepType
<1>4. ASSUME NEW r \in Watched \ murky' PROVE Stored(r)' /\ Remembered(r)' /\ ReadWell(r)'
  <2>1. r \in R /\ RowKey(r) \in RowKeys /\ Stored(r) /\ Remembered(r) /\ ReadWell(r)
    BY <1>1, <1>4, ResourceFacts DEF CountsInv, Watched
  <2>2. RowKey(r)' = RowKey(r) /\ InFlightOn(r)' = InFlightOn(r)
    BY <1>2 DEF InFlightOn, RowKey
  <2>3. InFlightOn(r) = {} /\ (c = "initialize" => found = rows)
    BY <1>1, <1>4, <2>1
  <2>4. found[RowKey(r)] = actual[r] \/ (c # "initialize" /\ found[RowKey(r)] = 0)
    BY <1>1, <2>1, <2>3 DEF Stored
  <2>5. ReadWell(r)'
    <3> SUFFICES ASSUME NEW d \in Restoring'
                 PROVE  read'[d][RowKey(r)] = actual[r] \/ (d # "initialize" /\ read'[d][RowKey(r)] = 0)
      BY <1>2, <2>2, <2>3 DEF ReadWell
    <3>1. CASE d = c
      BY <1>1, <2>4, <3>1 DEF CountsInv, UpkeepType
    <3>2. CASE d # c
      BY <1>1, <1>2, <2>1, <3>2 DEF CountsInv, UpkeepType, ReadWell, Restoring
    <3> QED
      BY <3>1, <3>2
  <2> QED
    BY <1>2, <2>1, <2>2, <2>5 DEF Stored, Remembered
<1> QED
  BY <1>3, <1>4 DEF CountsInv, Watched

\* A restore puts back what is missing and changes nothing else.
LEMMA RestoreCounts ==
  ASSUME CountsInv, NEW c \in Callers, RestorePersistedCooldowns(c)
  PROVE  CountsInv'
<1>1. /\ UNCHANGED <<setting, actual, rows, inFlight, open, murky>>
      /\ tracker' = [r \in R |-> RestoredBy(read[c], r)]
      /\ read' = [read EXCEPT ![c] = None]
      /\ restored' = (restored \/ c = "initialize")
      /\ c \in Restoring
      /\ at' = [at EXCEPT ![c] = IF c = "initialize" THEN "probe" ELSE "collect"]
  BY DEF RestorePersistedCooldowns, Step, Restoring
<1>2. \A d \in Restoring' : d \in Restoring /\ d # c /\ read'[d] = read[d]
  BY <1>1 DEF CountsInv, UpkeepType, Restoring
<1>3. UpkeepType'
  <2>1. read[c] \in [RowKeys -> Nat]
    BY <1>1 DEF CountsInv, UpkeepType
  <2>2. ASSUME NEW r \in R PROVE RestoredBy(read[c], r) \in Nat
    BY <2>1, ResourceFacts DEF RestoredBy, CountsInv, UpkeepType
  <2>3. tracker' \in [R -> Nat]
    BY <1>1, <2>2
  <2>4. at' \in [Callers -> {"idle", "open", "read", "apply", "probe", "collect", "send"}]
    BY <1>1 DEF CountsInv, UpkeepType
  <2> QED
    BY <1>1, <1>2, <2>3, <2>4 DEF CountsInv, UpkeepType
<1>4. ASSUME NEW r \in Watched \ murky' PROVE Stored(r)' /\ Remembered(r)' /\ ReadWell(r)'
  <2>1. /\ r \in R /\ RowKey(r) \in RowKeys /\ Resources[r].attended
        /\ Stored(r) /\ Remembered(r) /\ ReadWell(r)
    BY <1>1, <1>4, ResourceFacts DEF CountsInv, Watched
  <2>2. RowKey(r)' = RowKey(r) /\ InFlightOn(r)' = InFlightOn(r)
    BY <1>1 DEF InFlightOn, RowKey
  <2>3. Stored(r)' /\ ReadWell(r)'
    BY <1>1, <1>2, <2>1, <2>2 DEF Stored, ReadWell
  <2>4. tracker'[r] = IF read[c][RowKey(r)] > 0 THEN read[c][RowKey(r)] ELSE tracker[r]
    BY <1>1, <2>1 DEF RestoredBy
  <2>5. actual[r] \in Nat /\ (read[c][RowKey(r)] = actual[r] \/ (c # "initialize" /\ read[c][RowKey(r)] = 0))
    BY <1>1, <2>1 DEF ReadWell, CountsInv, UpkeepType
  <2>6. Remembered(r)'
    <3>1. read[c][RowKey(r)] \in Nat
      BY <1>1, <2>1 DEF CountsInv, UpkeepType
    <3>2. CASE read[c][RowKey(r)] > 0
      BY <1>1, <2>4, <2>5, <3>2 DEF Remembered
    <3>3. CASE read[c][RowKey(r)] = 0
      <4>1. tracker'[r] = tracker[r]
        BY <2>4, <3>3
      <4>2. CASE c = "initialize"
        <5>1. actual[r] = 0 /\ tracker[r] = 0
          BY <2>1, <2>5, <3>3, <4>2 DEF Remembered
        <5> QED
          BY <1>1, <4>1, <5>1 DEF Remembered
      <4>3. CASE c # "initialize"
        BY <1>1, <2>1, <4>1, <4>3 DEF Remembered
      <4> QED
        BY <4>2, <4>3
    <3> QED
      BY <3>1, <3>2, <3>3
  <2> QED
    BY <2>3, <2>6
<1> QED
  BY <1>3, <1>4 DEF CountsInv, Watched

\* A new process finds what the old one stored, and what was on its way is remembered.
LEMMA RestartCounts ==
  ASSUME CountsInv, Restart
  PROVE  CountsInv'
<1>1. /\ UNCHANGED <<setting, rows, actual>>
      /\ tracker' = [r \in R |-> 0] /\ inFlight' = {} /\ open' = FALSE /\ restored' = FALSE
      /\ at' = [c \in Callers |-> "idle"] /\ read' = [c \in Callers |-> None]
      /\ murky' = murky \cup UNION {OnRow(s.key) : s \in inFlight}
  BY DEF Restart
<1>2. Restoring' = {}
  BY <1>1 DEF Restoring
<1>3. UpkeepType'
  BY <1>1, <1>2 DEF CountsInv, UpkeepType, OnRow
<1>4. ASSUME NEW r \in Watched \ murky' PROVE Stored(r)' /\ Remembered(r)' /\ ReadWell(r)'
  <2>1. r \in R /\ r \notin murky /\ Stored(r)
    BY <1>1, <1>4 DEF CountsInv, Watched
  <2>2. InFlightOn(r) = {}
    BY <1>1, <1>4, <2>1 DEF InFlightOn, OnRow
  <2>3. InFlightOn(r)' = {} /\ RowKey(r)' = RowKey(r)
    BY <1>1 DEF InFlightOn, RowKey
  <2> QED
    BY <1>1, <1>2, <2>1, <2>2, <2>3 DEF Stored, Remembered, ReadWell
<1> QED
  BY <1>3, <1>4 DEF CountsInv, Watched

\* Every step keeps the invariant.
LEMMA CountsStep ==
  ASSUME RowsOfTheirOwn
  PROVE  CountsInv /\ [UpkeepNext]_upkeepVars => CountsInv'
<1> SUFFICES ASSUME CountsInv, [UpkeepNext]_upkeepVars PROVE CountsInv'
  OBVIOUS
<1>1. ASSUME NEW r \in R, Fail(r) \/ Succeed(r) PROVE CountsInv'
  BY <1>1, FailCounts, SucceedCounts
<1>2. ASSUME NEW s \in inFlight, Land(s) \/ Lose(s) PROVE CountsInv'
  BY <1>2, StatementCounts
<1>3. ASSUME NEW c \in Callers, LoadAll(c) \/ RestorePersistedCooldowns(c) PROVE CountsInv'
  BY <1>3, LoadCounts, RestoreCounts
<1>4. CASE Restart
  BY <1>4, RestartCounts
<1>5. CASE UNCHANGED upkeepVars
  <2>1. UpkeepType' /\ Restoring' = Restoring
    BY <1>5 DEF upkeepVars, CountsInv, UpkeepType, Restoring
  <2> QED
    BY <1>5, <2>1, CountsUntouched DEF upkeepVars
<1> QED
  BY <1>1, <1>2, <1>3, <1>4, <1>5, QuietSteps DEF UpkeepNext

\* A restored client goes by the failures since the last success, in this
\* process or an earlier one, and so does the database, wherever no race was
\* met since: for any resources with rows of their own, any checks that overlap,
\* any number of restarts and statements under way, and both drivers.
THEOREM CooldownsOutliveProcesses == RowsOfTheirOwn => (UpkeepSpec => []CooldownsSurviveRestarts)
<1> SUFFICES ASSUME RowsOfTheirOwn PROVE UpkeepSpec => []CooldownsSurviveRestarts
  OBVIOUS
<1>1. UpkeepInit => CountsInv
  BY CountsInit
<1>2. CountsInv /\ [UpkeepNext]_upkeepVars => CountsInv'
  BY CountsStep
<1>3. CountsInv => CooldownsSurviveRestarts
  BY DEF CountsInv, Stored, Remembered, CooldownsSurviveRestarts
<1> QED
  BY <1>1, <1>2, <1>3, PTL DEF UpkeepSpec

-----------------------------------------------------------------------------
(* Requests, their normal forms and their identities. *)

\* The chain a request is about.
ChainOf(raw) == Resolve(NormalizeChainReference(raw.chain))

\* The identity of the query a request asks, as its cursor would carry it.
IdentityOf(raw) == QueryFingerprint(Normalized(raw), ChainOf(raw))

\* A request that parses and that a cursor may continue.
Pageable(raw) == IsRequest(raw) /\ Complaint(raw) = None /\ raw.op \in Paged /\ ChainOf(raw) # None

\* What normalisation makes of each field (parse*Request).
LEMMA NormalForm ==
  ASSUME NEW raw, IsRequest(raw)
  PROVE  /\ Normalized(raw).op = raw.op
         /\ Normalized(raw).chain = NormalizeChainReference(raw.chain)
         /\ Normalized(raw).address = Canonical(raw.address)
         /\ Normalized(raw).token = Canonical(raw.token)
         /\ Normalized(raw).startBlock = Canonical(raw.startBlock)
         /\ Normalized(raw).endBlock = Canonical(raw.endBlock)
         /\ Normalized(raw).direction = IF "direction" \in Optional(raw.op) THEN Default(raw.direction, "both") ELSE None
         /\ raw.op \in Paged =>
              /\ Normalized(raw).fullData = Default(raw.fullData, FALSE)
              /\ Normalized(raw).order = Default(raw.order, "desc")
              /\ Normalized(raw).pageSize =
                   Default(raw.pageSize, IF Default(raw.fullData, FALSE) THEN MaxPageSize ELSE DefaultPageSize)
<1> DEFINE paged == raw.op \in Paged
           full  == Default(raw.fullData, FALSE)
           chain == NormalizeChainReference(raw.chain)
           dir   == IF "direction" \in Optional(raw.op) THEN Default(raw.direction, "both") ELSE None
           data  == IF paged THEN full ELSE None
           order == IF paged THEN Default(raw.order, "desc") ELSE None
           size  == IF paged THEN Default(raw.pageSize, IF full THEN MaxPageSize ELSE DefaultPageSize) ELSE None
           list  == IF raw.list = None THEN None ELSE Distinct(raw.list)
           address == Canonical(raw.address)
           token   == Canonical(raw.token)
           start   == Canonical(raw.startBlock)
           end     == Canonical(raw.endBlock)
           block   == Canonical(raw.block)
<1>1. Normalized(raw) =
        [raw EXCEPT !.chain = chain, !.address = address, !.token = token, !.startBlock = start, !.endBlock = end,
                    !.block = block, !.list = list, !.direction = dir, !.fullData = data, !.order = order, !.pageSize = size]
  BY DEF Normalized, IsRequest
<1>2. raw = [op |-> raw.op, chain |-> raw.chain, address |-> raw.address, token |-> raw.token, direction |-> raw.direction,
             pageSize |-> raw.pageSize, fullData |-> raw.fullData, order |-> raw.order, startBlock |-> raw.startBlock,
             endBlock |-> raw.endBlock, block |-> raw.block, list |-> raw.list, cursor |-> raw.cursor]
  BY DEF IsRequest
<1> HIDE DEF chain, address, token, start, end, block, list, dir, data, order, size
<1>3. /\ Normalized(raw).op = raw.op /\ Normalized(raw).chain = chain /\ Normalized(raw).address = address
      /\ Normalized(raw).token = token /\ Normalized(raw).startBlock = start /\ Normalized(raw).endBlock = end
      /\ Normalized(raw).direction = dir /\ Normalized(raw).fullData = data /\ Normalized(raw).order = order
      /\ Normalized(raw).pageSize = size
  BY <1>1, <1>2
<1> QED
  BY <1>3 DEF chain, address, token, start, end, dir, data, order, size

\* What a text denotes is what is left of it in its canonical form.
Denoted(text) == IF text = None THEN None ELSE text.of

\* Canonical forms agree exactly when texts denote the same (operations.ts's
\* transforms of addresses and block numbers).
LEMMA CanonicalDenotes ==
  ASSUME NEW a, NEW b, a # None => IsText(a), b # None => IsText(b)
  PROVE  Canonical(a) = Canonical(b) <=> Denoted(a) = Denoted(b)
<1>1. ASSUME NEW text, IsText(text)
      PROVE  Plain(text) = [of |-> text.of, spelt |-> "plain"] /\ Plain(text) # None /\ text.of # None
  BY <1>1 DEF IsText, Plain
<1>2. CASE a = None /\ b = None
  BY <1>2 DEF Canonical, Denoted
<1>3. CASE a = None /\ b # None
  BY <1>1, <1>3 DEF Canonical, Denoted
<1>4. CASE a # None /\ b = None
  BY <1>1, <1>4 DEF Canonical, Denoted
<1>5. CASE a # None /\ b # None
  <2>1. Canonical(a) = [of |-> a.of, spelt |-> "plain"] /\ Canonical(b) = [of |-> b.of, spelt |-> "plain"]
    BY <1>1, <1>5 DEF Canonical
  <2>2. Denoted(a) = a.of /\ Denoted(b) = b.of
    BY <1>5 DEF Denoted
  <2> QED
    BY <2>1, <2>2
<1> QED
  BY <1>2, <1>3, <1>4, <1>5

\* A request without complaint follows its schema: a chain, and a direction only
\* where there is one to choose, and a cursor only on a paged operation.
LEMMA SchemaHolds ==
  ASSUME NEW raw, IsRequest(raw), Complaint(raw) = None, RoutingAssumption
  PROVE  /\ raw.direction # None => "direction" \in Optional(raw.op)
         /\ raw.cursor # None => raw.op \in Paged
<1>1. ParseSchema(raw)
  BY DEF Complaint, RoutingAssumption
<1>2. {"direction", "cursor"} \subseteq DOMAIN raw \ {"op"}
  BY DEF IsRequest
<1>3. raw["direction"] = raw.direction /\ raw["cursor"] = raw.cursor
  OBVIOUS
<1>4. ASSUME NEW f \in {"direction", "cursor"} PROVE f \notin Required(raw.op)
  <2>1. CASE raw.op = RangeRead
    BY <1>4, <2>1 DEF Required, RangeRead
  <2>2. CASE raw.op # RangeRead
    BY <1>4, <2>2 DEF Required
  <2> QED
    BY <2>1, <2>2
<1>5. ASSUME NEW f \in {"direction", "cursor"}, raw[f] # None PROVE f \in Optional(raw.op)
  BY <1>1, <1>2, <1>4, <1>5 DEF ParseSchema
<1>6. "cursor" \in Optional(raw.op) => raw.op \in Paged
  BY DEF Optional
<1> QED
  BY <1>3, <1>5, <1>6

\* Two requests that may be paged have one identity exactly when they ask the
\* same of the same chain (semanticQueryShape).
LEMMA IdentityIsMeaning ==
  ASSUME NEW a, NEW b, Pageable(a), Pageable(b), RoutingAssumption
  PROVE  (IdentityOf(a) = IdentityOf(b)) <=> (Meaning(a) = Meaning(b))
<1> DEFINE full(raw) == Default(raw.fullData, FALSE)
           size(raw) == Default(raw.pageSize, IF full(raw) THEN MaxPageSize ELSE DefaultPageSize)
           way(raw)  == IF "direction" \in Optional(raw.op) THEN Default(raw.direction, "both") ELSE None
<1>1. ASSUME NEW raw, Pageable(raw)
      PROVE  IdentityOf(raw) =
               [operation |-> raw.op, chainId |-> ChainOf(raw).chainId, address |-> Canonical(raw.address),
                token |-> Canonical(raw.token), direction |-> way(raw),
                startBlock |-> Canonical(raw.startBlock), endBlock |-> Canonical(raw.endBlock),
                pageSize |-> size(raw), fullData |-> full(raw), order |-> Default(raw.order, "desc")]
  BY <1>1, NormalForm DEF Pageable, IdentityOf, QueryFingerprint
<1>2. ASSUME NEW raw, Pageable(raw)
      PROVE  Meaning(raw) =
               [op |-> raw.op, chain |-> ChainOf(raw).chainId, address |-> Denoted(raw.address), token |-> Denoted(raw.token),
                start |-> Denoted(raw.startBlock), end |-> Denoted(raw.endBlock),
                direction |-> Default(raw.direction, "both"), order |-> Default(raw.order, "desc"), full |-> full(raw),
                pageSize |-> size(raw)]
  <2>1. (raw.fullData # None /\ raw.fullData) = full(raw)
    <3>1. CASE raw.fullData = None
      BY <3>1 DEF Default
    <3>2. CASE raw.fullData # None
      BY <1>2, <3>2 DEF Default, Pageable, IsRequest
    <3> QED
      BY <3>1, <3>2
  <2> HIDE DEF full
  <2>2. ChainOf(raw) # None
    BY <1>2 DEF Pageable
  <2> QED
    BY <2>1, <2>2 DEF Meaning, ChainOf, Denoted
<1> HIDE DEF full, size
<1>3. /\ Canonical(a.address) = Canonical(b.address) <=> Denoted(a.address) = Denoted(b.address)
      /\ Canonical(a.token) = Canonical(b.token) <=> Denoted(a.token) = Denoted(b.token)
      /\ Canonical(a.startBlock) = Canonical(b.startBlock) <=> Denoted(a.startBlock) = Denoted(b.startBlock)
      /\ Canonical(a.endBlock) = Canonical(b.endBlock) <=> Denoted(a.endBlock) = Denoted(b.endBlock)
  <2>1. ASSUME NEW raw, Pageable(raw)
        PROVE  /\ raw.address # None => IsText(raw.address)
               /\ raw.token # None => IsText(raw.token)
               /\ raw.startBlock # None => IsText(raw.startBlock)
               /\ raw.endBlock # None => IsText(raw.endBlock)
    <3>1. \A f \in {"address", "token", "startBlock", "endBlock"} : raw[f] # None => IsText(raw[f])
      BY <2>1 DEF Pageable, IsRequest
    <3> QED
      BY <3>1
  <2> QED
    BY <2>1, CanonicalDenotes
<1>4. ASSUME a.op = b.op
      PROVE  way(a) = way(b) <=> Default(a.direction, "both") = Default(b.direction, "both")
  <2>1. CASE "direction" \in Optional(a.op)
    BY <1>4, <2>1
  <2>2. CASE "direction" \notin Optional(a.op)
    <3>1. a.direction = None /\ b.direction = None
      BY <1>4, <2>2, SchemaHolds DEF Pageable
    <3> QED
      BY <3>1, <1>4, <2>2
  <2> QED
    BY <2>1, <2>2
<1> HIDE DEF way
<1>5. IdentityOf(a) = IdentityOf(b) <=>
        /\ a.op = b.op /\ ChainOf(a).chainId = ChainOf(b).chainId
        /\ Canonical(a.address) = Canonical(b.address) /\ Canonical(a.token) = Canonical(b.token) /\ way(a) = way(b)
        /\ Canonical(a.startBlock) = Canonical(b.startBlock) /\ Canonical(a.endBlock) = Canonical(b.endBlock)
        /\ size(a) = size(b) /\ full(a) = full(b) /\ Default(a.order, "desc") = Default(b.order, "desc")
  BY <1>1
<1>6. Meaning(a) = Meaning(b) <=>
        /\ a.op = b.op /\ ChainOf(a).chainId = ChainOf(b).chainId
        /\ Denoted(a.address) = Denoted(b.address) /\ Denoted(a.token) = Denoted(b.token)
        /\ Default(a.direction, "both") = Default(b.direction, "both")
        /\ Denoted(a.startBlock) = Denoted(b.startBlock) /\ Denoted(a.endBlock) = Denoted(b.endBlock)
        /\ size(a) = size(b) /\ full(a) = full(b) /\ Default(a.order, "desc") = Default(b.order, "desc")
  BY <1>2
<1> QED
  BY <1>3, <1>4, <1>5, <1>6

-----------------------------------------------------------------------------
(* What a cursor says of the listing it continues. *)

\* The query and the entry a cursor carries are those of the listing's first page.
BeganWell(cursor) ==
  LET began == cursor.began
      chain == ChainOf(began.raw)
  IN  /\ Pageable(began.raw)
      /\ cursor.operation = began.raw.op
      /\ cursor.chainId = chain.chainId
      /\ cursor.queryFingerprint = IdentityOf(began.raw)
      /\ cursor.configurationId = began.by
      /\ cursor.provider = began.by[1]
      /\ \E i \in Candidates(began.providers, Normalized(began.raw), chain) : ConfigurationId(began.providers, i) = began.by

KeepsItsQuery == held # None => BeganWell(held)

RoutingInv == KeepsItsQuery /\ ContinuesWhatItBegan /\ SpellingIsFree

\* Whatever the caller asks is a request, and its cursor is the one it has kept.
LEMMA CallsAreRequests ==
  ASSUME RoutingAssumption, NEW raw \in Calls
  PROVE  IsRequest(raw) /\ (raw.cursor # None => held # None /\ raw.cursor = held)
<1>1. CASE raw \in Requests
  BY <1>1 DEF RoutingAssumption
<1>2. CASE raw \notin Requests
  <2>1. held # None
    BY <1>2 DEF Calls
  <2>2. PICK r \in Requests : raw = [r EXCEPT !.cursor = held]
    BY <1>2, <2>1 DEF Calls
  <2>3. IsRequest(r)
    BY DEF RoutingAssumption
  <2>4. r = [op |-> r.op, chain |-> r.chain, address |-> r.address, token |-> r.token, direction |-> r.direction,
             pageSize |-> r.pageSize, fullData |-> r.fullData, order |-> r.order, startBlock |-> r.startBlock,
             endBlock |-> r.endBlock, block |-> r.block, list |-> r.list, cursor |-> r.cursor]
    BY <2>3 DEF IsRequest
  <2>5. raw = [op |-> r.op, chain |-> r.chain, address |-> r.address, token |-> r.token, direction |-> r.direction,
               pageSize |-> r.pageSize, fullData |-> r.fullData, order |-> r.order, startBlock |-> r.startBlock,
               endBlock |-> r.endBlock, block |-> r.block, list |-> r.list, cursor |-> held]
    BY <2>2, <2>4
  <2>6. \A f \in {"chain", "address", "token", "startBlock", "endBlock", "block"} : raw[f] = r[f]
    BY <2>4, <2>5
  <2>7. IsRequest(raw)
    BY <2>3, <2>5, <2>6 DEF IsRequest
  <2> QED
    BY <2>1, <2>5, <2>7
<1> QED
  BY <1>1, <1>2

\* What a request without refusal has: it parses, its chain is known, and with a
\* cursor it can be paged.
LEMMA UnrefusedParses ==
  ASSUME RoutingAssumption, NEW raw, IsRequest(raw), Refusal(raw) = None
  PROVE  /\ Complaint(raw) = None
         /\ ChainOf(raw) # None
         /\ Resolve(Normalized(raw).chain) = ChainOf(raw)
         /\ raw.op \in Paged => Pageable(raw)
         /\ raw.cursor # None => Pageable(raw)
<1>1. Resolve(Normalized(raw).chain) = ChainOf(raw)
  BY NormalForm DEF ChainOf
<1>2. Complaint(raw) = None
  BY DEF Refusal
<1>3. ChainOf(raw) # None
  <2>1. None # "UNSUPPORTED_CHAIN" => ChainOf(raw) # None
    BY <1>1, <1>2 DEF Refusal
  <2> QED
    BY <2>1 DEF RoutingAssumption
<1> QED
  BY <1>1, <1>2, <1>3, SchemaHolds DEF Pageable

\* A continuation goes on with the query and the entry of the first page
\* (assertCursorMatches, routeContinuation).
LEMMA ContinuationGoesOn ==
  ASSUME RoutingAssumption, NEW raw, Pageable(raw), NEW cursor, BeganWell(cursor),
         NEW i \in ContinuationOf(cursor, Normalized(raw), ChainOf(raw))
  PROVE  /\ raw.op = cursor.operation
         /\ ChainOf(raw).chainId = cursor.chainId
         /\ IdentityOf(raw) = cursor.queryFingerprint
         /\ ConfigurationId(providers, i) = cursor.began.by
         /\ providers[i].kind = cursor.began.by[1]
         /\ Meaning(raw) = Meaning(cursor.began.raw)
<1>1. AssertCursorMatches(cursor, Normalized(raw), ChainOf(raw)) /\ i \in Pinned(cursor)
  BY DEF ContinuationOf
<1>2. Normalized(raw).op = raw.op
  BY NormalForm DEF Pageable
<1>3. /\ raw.op = cursor.operation
      /\ ChainOf(raw).chainId = cursor.chainId
      /\ IdentityOf(raw) = cursor.queryFingerprint
  BY <1>1, <1>2 DEF AssertCursorMatches, IdentityOf
<1>4. ConfigurationId(providers, i) = cursor.began.by /\ providers[i].kind = cursor.began.by[1]
  BY <1>1 DEF Pinned, BeganWell
<1>5. Pageable(cursor.began.raw) /\ cursor.queryFingerprint = IdentityOf(cursor.began.raw)
  BY DEF BeganWell
<1> QED
  BY <1>3, <1>4, <1>5, IdentityIsMeaning

\* The converse: to the same query of a client configured as it was, the entry a
\* cursor names is found, so the cursor is not refused.
LEMMA SameQueryGoesOn ==
  ASSUME RoutingAssumption, ChainsAssumption, NEW raw, Pageable(raw), NEW cursor, BeganWell(cursor),
         Meaning(raw) = Meaning(cursor.began.raw), providers = cursor.began.providers
  PROVE  ContinuationOf(cursor, Normalized(raw), ChainOf(raw)) # {}
<1> DEFINE first == cursor.began.raw
<1>1. Pageable(first)
  BY DEF BeganWell
<1>2. IdentityOf(raw) = IdentityOf(first)
  BY <1>1, IdentityIsMeaning
<1>3. /\ Normalized(raw).op = Normalized(first).op
      /\ Normalized(raw).pageSize = Normalized(first).pageSize
      /\ Normalized(raw).fullData = Normalized(first).fullData
      /\ ChainOf(raw).chainId = ChainOf(first).chainId
  BY <1>2 DEF IdentityOf, QueryFingerprint
<1>4. ChainOf(raw) = ChainOf(first)
  <2>1. ASSUME NEW text, Resolve(text) # None PROVE Resolve(text) \in Chains
    BY <2>1 DEF Resolve
  <2>2. ChainOf(raw) \in Chains /\ ChainOf(first) \in Chains
    BY <1>1, <2>1 DEF Pageable, ChainOf
  <2> QED
    BY <1>3, <2>2 DEF ChainsAssumption
<1>5. Normalized(raw).op = raw.op /\ Normalized(first).op = first.op
  BY <1>1, NormalForm DEF Pageable
<1>6. AssertCursorMatches(cursor, Normalized(raw), ChainOf(raw))
  BY <1>2, <1>3, <1>5 DEF BeganWell, AssertCursorMatches, IdentityOf
<1>7. PICK i \in DOMAIN providers :
        /\ SupportsRequest(providers[i].kind, Normalized(first), ChainOf(first))
        /\ ConfigurationId(providers, i) = cursor.began.by
  BY DEF BeganWell, Candidates
<1>8. i \in Pinned(cursor)
  BY <1>7 DEF BeganWell, Pinned, ConfigurationId
<1>9. SupportsRequest(providers[i].kind, Normalized(raw), ChainOf(raw))
  BY <1>3, <1>4, <1>7 DEF SupportsRequest, RequiresIndexedFullData
<1> QED
  BY <1>6, <1>8, <1>9 DEF ContinuationOf

\* The cursor an answer hands out carries the query and the entry its listing
\* began with: those of this page if it is the first, else those of the cursor it continues.
LEMMA CursorBeganWell ==
  ASSUME RoutingAssumption, KeepsItsQuery, NEW raw \in Calls, Refusal(raw) = None, raw.op \in Paged,
         NEW i \in Answerers(raw), NEW page
  PROVE  BeganWell(CursorFor(raw, i, page))
<1>1. IsRequest(raw) /\ (raw.cursor # None => held # None /\ raw.cursor = held)
  BY CallsAreRequests
<1>2. Pageable(raw) /\ Resolve(Normalized(raw).chain) = ChainOf(raw)
  BY <1>1, UnrefusedParses
<1>3. /\ CursorFor(raw, i, page).operation = raw.op
      /\ CursorFor(raw, i, page).provider = providers[i].kind
      /\ CursorFor(raw, i, page).configurationId = ConfigurationId(providers, i)
      /\ CursorFor(raw, i, page).chainId = ChainOf(raw).chainId
      /\ CursorFor(raw, i, page).queryFingerprint = IdentityOf(raw)
      /\ CursorFor(raw, i, page).began =
           IF raw.cursor # None THEN raw.cursor.began
           ELSE [raw |-> raw, by |-> ConfigurationId(providers, i), providers |-> providers]
  BY <1>2 DEF CursorFor, IdentityOf
<1>4. CASE raw.cursor = None
  <2>1. i \in Candidates(providers, Normalized(raw), ChainOf(raw))
    BY <1>2, <1>4 DEF Answerers
  <2>2. ConfigurationId(providers, i)[1] = providers[i].kind
    BY DEF ConfigurationId
  <2> HIDE DEF ConfigurationId
  <2> QED
    BY <1>2, <1>3, <1>4, <2>1, <2>2 DEF BeganWell
<1>5. CASE raw.cursor # None
  <2>1. BeganWell(raw.cursor)
    BY <1>1, <1>5 DEF KeepsItsQuery
  <2>2. i \in ContinuationOf(raw.cursor, Normalized(raw), ChainOf(raw))
    BY <1>2, <1>5 DEF Answerers
  <2>3. /\ raw.op = raw.cursor.operation
        /\ ChainOf(raw).chainId = raw.cursor.chainId
        /\ IdentityOf(raw) = raw.cursor.queryFingerprint
        /\ ConfigurationId(providers, i) = raw.cursor.began.by
        /\ providers[i].kind = raw.cursor.began.by[1]
    BY <1>2, <2>1, <2>2, ContinuationGoesOn
  <2> QED
    BY <1>3, <1>5, <2>1, <2>3 DEF BeganWell
<1> QED
  BY <1>4, <1>5

\* One call keeps the invariant, however it ends.
LEMMA CallKeepsQuery ==
  ASSUME RoutingAssumption, ChainsAssumption, RoutingInv, NEW raw \in Calls,
         Refuse(raw) \/ Hand(raw) \/ Answer(raw) \/ LosePage(raw)
  PROVE  RoutingInv'
<1>1. IsRequest(raw) /\ (raw.cursor # None => held # None /\ raw.cursor = held)
  BY CallsAreRequests
<1>2. raw.cursor # None => BeganWell(raw.cursor)
  BY <1>1 DEF RoutingInv, KeepsItsQuery
<1>3. KeepsItsQuery'
  <2>1. CASE held' = held
    BY <2>1 DEF RoutingInv, KeepsItsQuery
  <2>2. CASE held' # held
    <3>1. Answer(raw)
      BY <2>2 DEF Refuse, Hand, LosePage
    <3>2. \E i \in Answerers(raw) : \E page : raw.op \in Paged /\ Refusal(raw) = None /\ held' = CursorFor(raw, i, page)
      BY <2>2, <3>1 DEF Answer
    <3>3. PICK i \in Answerers(raw) : \E page : held' = CursorFor(raw, i, page)
      BY <3>2
    <3>4. PICK page : held' = CursorFor(raw, i, page)
      BY <3>3
    <3>5. BeganWell(CursorFor(raw, i, page))
      BY <3>2, <3>3, CursorBeganWell DEF RoutingInv
    <3> QED
      BY <3>4, <3>5 DEF KeepsItsQuery
  <2> QED
    BY <2>1, <2>2
<1>4. ContinuesWhatItBegan'
  <2> SUFFICES ASSUME last'.code = "answer", last'.raw.cursor # None
               PROVE  Meaning(last'.raw) = Meaning(last'.raw.cursor.began.raw) /\ last'.by = last'.raw.cursor.began.by
    BY DEF ContinuesWhatItBegan
  <2>1. Answer(raw)
    <3>1. CASE Refuse(raw)
      BY <3>1 DEF Refuse, Refusal, Complaint, RangeRead
    <3> QED
      BY <3>1 DEF Hand, LosePage
  <2>2. PICK i \in Answerers(raw) :
          last' = [raw |-> raw, code |-> "answer", by |-> ConfigurationId(providers, i), service |-> providers[i].service]
    BY <2>1 DEF Answer
  <2>3. Pageable(raw) /\ Resolve(Normalized(raw).chain) = ChainOf(raw)
    BY <1>1, <2>1, <2>2, UnrefusedParses DEF Answer
  <2>4. i \in ContinuationOf(raw.cursor, Normalized(raw), ChainOf(raw))
    BY <2>2, <2>3 DEF Answerers
  <2> QED
    BY <1>2, <2>2, <2>3, <2>4, ContinuationGoesOn
<1>5. SpellingIsFree'
  <2> SUFFICES ASSUME last'.code = "INVALID_CURSOR",
                      Meaning(last'.raw) = Meaning(last'.raw.cursor.began.raw), providers' = last'.raw.cursor.began.providers
               PROVE  FALSE
    BY DEF SpellingIsFree
  <2>1. Refuse(raw)
    BY DEF Hand, Answer, LosePage
  <2>2. last'.raw = raw /\ Refusal(raw) = "INVALID_CURSOR" /\ Refusal(raw) # None /\ providers' = providers
    BY <2>1 DEF Refuse
  <2>3. /\ Complaint(raw) = None
        /\ Resolve(Normalized(raw).chain) # None
        /\ raw.cursor # None
        /\ ContinuationOf(raw.cursor, Normalized(raw), Resolve(Normalized(raw).chain)) = {}
    BY <2>2 DEF Refusal, Complaint
  <2>4. Resolve(Normalized(raw).chain) = ChainOf(raw)
    BY <1>1, NormalForm DEF ChainOf
  <2>5. Pageable(raw)
    BY <1>1, <2>3, <2>4, SchemaHolds DEF Pageable
  <2> QED
    BY <1>2, <2>2, <2>3, <2>4, <2>5, SameQueryGoesOn
<1> QED
  BY <1>3, <1>4, <1>5 DEF RoutingInv

\* The invariant holds at first and over every step.
LEMMA RoutingInvHolds == RoutingSpec => []RoutingInv
<1>1. RoutingInit => RoutingInv
  BY DEF RoutingInit, RoutingInv, KeepsItsQuery, ContinuesWhatItBegan, SpellingIsFree
<1>2. ASSUME RoutingInv, [RoutingNext]_routingVars PROVE RoutingInv'
  <2>1. CASE SetUpAnew
    BY <1>2, <2>1 DEF SetUpAnew, RoutingInv, KeepsItsQuery, ContinuesWhatItBegan, SpellingIsFree
  <2>2. CASE Take
    BY <1>2, <2>2 DEF Take, RoutingInv, KeepsItsQuery, ContinuesWhatItBegan, SpellingIsFree
  <2>3. CASE \E raw \in Calls : Refuse(raw) \/ Hand(raw) \/ Answer(raw) \/ LosePage(raw)
    BY <1>2, <2>3, CallKeepsQuery, RoutingAssumption, ChainsAssumption
  <2>4. CASE UNCHANGED routingVars
    BY <1>2, <2>4 DEF routingVars, RoutingInv, KeepsItsQuery, ContinuesWhatItBegan, SpellingIsFree
  <2> QED
    BY <1>2, <2>1, <2>2, <2>3, <2>4 DEF RoutingNext
<1> QED
  BY <1>1, <1>2, PTL DEF RoutingSpec

\* A page that follows another belongs to the query its listing began with and
\* comes from the entry that gave the first page, for any registry, any
\* configurations the client is set up with in between, and any requests.
THEOREM PagesStayTogether == RoutingSpec => []ContinuesWhatItBegan
  BY RoutingInvHolds, PTL DEF RoutingInv

\* A cursor is refused only to another query or by a client configured
\* otherwise; how a request is spelt changes nothing.
THEOREM SpellingNeverMatters == RoutingSpec => []SpellingIsFree
  BY RoutingInvHolds, PTL DEF RoutingInv

-----------------------------------------------------------------------------
(* Lists of lists *)

\* Lists put one after the other make a list of all their members.
LEMMA FlattenIs ==
  ASSUME NEW ss, IsList(ss), \A i \in 1..Len(ss) : IsList(ss[i])
  PROVE  IsList(FlattenSeq(ss)) /\ Range(FlattenSeq(ss)) = UNION {Range(ss[i]) : i \in 1..Len(ss)}
<1> DEFINE L == Len(ss)
           Seen(n) == UNION {Range(ss[i]) : i \in 1..n}
           Good(s, n) == IsList(s) /\ Range(s) = Seen(n)
           Flat(f, l) == f = [n \in 1..l |-> IF n = 1 THEN ss[n] ELSE f[n - 1] \o ss[n]]
           Has(l) == \E f : Flat(f, l) /\ \A n \in 1..l : Good(f[n], n)
           bad == {l \in 0..L : ~Has(l)}
<1>0. L \in Nat
  BY ListShape
<1>1. CASE L = 0
  <2>1. FlattenSeq(ss) = ss
    BY <1>1 DEF FlattenSeq
  <2>2. DOMAIN ss = {} /\ 1..L = {}
    BY <1>1, ListShape
  <2>3. Range(ss) = {}
    BY <2>2 DEF Range
  <2>4. UNION {Range(ss[i]) : i \in 1..L} = {}
    <3> HIDE DEF L
    <3> QED BY <2>2
  <2>5. IsList(FlattenSeq(ss))
    BY <2>1
  <2> QED BY <2>1, <2>3, <2>4, <2>5, Zenon
<1>2. CASE L # 0
  <2>1. bad = {}
    <3> SUFFICES ASSUME bad # {} PROVE FALSE
      OBVIOUS
    <3>1. PICK l \in bad : \A m \in bad : l <= m
      <4>1. bad \in SUBSET Nat
        <5> HIDE DEF Has
        <5> QED BY <1>0
      <4> HIDE DEF bad
      <4> QED BY <4>1, Smallest
    <3>2. l \in 0..L /\ ~Has(l)
      <4> HIDE DEF Has
      <4> QED OBVIOUS
    <3>3. l # 0
      <4> DEFINE f == [n \in 1..0 |-> ss]
      <4>1. 1..0 = {}
        OBVIOUS
      <4>2. Flat(f, 0)
        BY <4>1
      <4> HIDE DEF f, Flat, Good
      <4> QED BY <4>1, <4>2, <3>2
    <3>4. l - 1 \in 0..L /\ l - 1 \notin bad
      <4>1. l - 1 \in 0..L /\ ~(l <= l - 1)
        BY <3>2, <3>3, <1>0
      <4> HIDE DEF bad
      <4> QED BY <4>1, <3>1
    <3>5. PICK k : Flat(k, l - 1) /\ \A n \in 1..(l - 1) : Good(k[n], n)
      <4>1. Has(l - 1)
        <5> HIDE DEF Has
        <5> QED BY <3>4
      <4> HIDE DEF Flat, Good
      <4> QED BY <4>1
    <3> DEFINE newest == IF l = 1 THEN ss[l] ELSE k[l - 1] \o ss[l]
               j == [n \in 1..l |-> IF n = l THEN newest ELSE k[n]]
    <3>6. l \in Nat /\ l >= 1 /\ l \in 1..l /\ l \in 1..L
      BY <3>2, <3>3, <1>0
    <3>7. \A n \in 1..l : n \in 1..(l - 1) \/ n = l
      BY <3>6
    <3>8. \A n \in 1..(l - 1) : n \in 1..l /\ n # l /\ (n # 1 => n - 1 \in 1..(l - 1))
      BY <3>6
    <3>9. (\A n \in 1..(l - 1) : j[n] = k[n]) /\ j[l] = newest
      <4> HIDE DEF newest
      <4> QED BY <3>6, <3>8
    <3>10. \A n \in 1..l : j[n] = IF n = 1 THEN ss[n] ELSE j[n - 1] \o ss[n]
      <4>1. \A n \in 1..(l - 1) : k[n] = IF n = 1 THEN ss[n] ELSE k[n - 1] \o ss[n]
        BY <3>5
      <4>2. l # 1 => l - 1 \in 1..(l - 1)
        BY <3>6
      <4> HIDE DEF j
      <4>3. \A n \in 1..(l - 1) : j[n] = IF n = 1 THEN ss[n] ELSE j[n - 1] \o ss[n]
        BY <4>1, <3>8, <3>9
      <4>4. j[l] = IF l = 1 THEN ss[l] ELSE j[l - 1] \o ss[l]
        BY <4>2, <3>9
      <4> QED BY <4>3, <4>4, <3>7
    <3>11. Flat(j, l)
      <4>1. j = [n \in 1..l |-> j[n]]
        OBVIOUS
      <4> HIDE DEF j
      <4> QED BY <4>1, <3>10
    <3>12. Good(j[l], l)
      <4>1. IsList(ss[l])
        BY <3>6
      <4>2. CASE l = 1
        <5>1. Seen(1) = Range(ss[1])
          <6>1. \A i \in 1..1 : i = 1
            OBVIOUS
          <6>2. 1 \in 1..1
            OBVIOUS
          <6> QED BY <6>1, <6>2
        <5> HIDE DEF j, Seen
        <5> QED BY <5>1, <4>1, <4>2, <3>9
      <4>3. CASE l # 1
        <5>1. l - 1 \in 1..(l - 1)
          BY <3>6, <4>3
        <5>2. IsList(k[l - 1]) /\ Range(k[l - 1]) = Seen(l - 1)
          BY <5>1, <3>5
        <5>3. IsList(k[l - 1] \o ss[l]) /\ Range(k[l - 1] \o ss[l]) = Range(k[l - 1]) \cup Range(ss[l])
          BY <4>1, <5>2, ListsJoin
        <5>4. Seen(l) = Seen(l - 1) \cup Range(ss[l])
          BY <3>6, <3>7, <3>8, Zenon
        <5> HIDE DEF j, Seen
        <5> QED BY <5>2, <5>3, <5>4, <4>3, <3>9
      <4> QED BY <4>2, <4>3
    <3>13. \A n \in 1..l : Good(j[n], n)
      <4> HIDE DEF j, Good
      <4> QED BY <3>5, <3>7, <3>9, <3>12
    <3> HIDE DEF j, Flat, Good
    <3> QED BY <3>2, <3>11, <3>13
  <2>2. PICK some : Flat(some, L) /\ \A n \in 1..L : Good(some[n], n)
    <3>1. L \in 0..L
      BY <1>0
    <3>2. Has(L)
      <4> HIDE DEF Has
      <4> QED BY <2>1, <3>1
    <3> HIDE DEF Flat, Good
    <3> QED BY <3>2
  <2> DEFINE k == CHOOSE f : Flat(f, L)
  <2>3. FlattenSeq(ss) = k[L]
    BY <1>2 DEF FlattenSeq
  <2>4. Flat(k, L)
    <3> HIDE DEF Flat
    <3> QED BY <2>2
  <2> HIDE DEF k
  <2>5. \A n \in 1..L : k[n] = some[n]
    <3> DEFINE off == {n \in 1..L : k[n] # some[n]}
    <3> SUFFICES ASSUME off # {} PROVE FALSE
      OBVIOUS
    <3>1. off \in SUBSET Nat
      OBVIOUS
    <3>2. PICK n \in off : \A m \in off : n <= m
      <4> HIDE DEF off
      <4> QED BY <3>1, Smallest
    <3>3. n \in 1..L /\ k[n] # some[n]
      OBVIOUS
    <3>4. /\ k[n] = IF n = 1 THEN ss[n] ELSE k[n - 1] \o ss[n]
          /\ some[n] = IF n = 1 THEN ss[n] ELSE some[n - 1] \o ss[n]
      BY <3>3, <2>2, <2>4
    <3>5. n # 1 /\ n - 1 \in 1..L /\ ~(n <= n - 1)
      BY <3>3, <3>4, <1>0
    <3>6. n - 1 \notin off
      <4> HIDE DEF off
      <4> QED BY <3>2, <3>5
    <3>7. k[n - 1] = some[n - 1]
      BY <3>5, <3>6
    <3> QED BY <3>3, <3>4, <3>5, <3>7
  <2>6. L \in 1..L
    BY <1>0, <1>2
  <2> HIDE DEF Flat
  <2> QED BY <2>2, <2>3, <2>5, <2>6
<1> QED BY <1>1, <1>2

-----------------------------------------------------------------------------
(* The calls of a read and their answers *)

\* Made once, calls are the same calls.
LEMMA OnceIs ==
  ASSUME NEW calls, IsList(calls)
  PROVE  IsList(Once(calls)) /\ Range(Once(calls)) = Range(calls)
<1> DEFINE P == {i \in DOMAIN calls : \A j \in 1 .. i - 1 : calls[j] # calls[i]}
           places == [i \in DOMAIN calls |-> i]
           first == Among(P, places)
<1>1. Len(calls) \in Nat /\ DOMAIN calls = 1..Len(calls)
  BY ListShape
<1>2. IsList(places) /\ Range(places) = DOMAIN calls
  <2>1. IsList(places)
    BY <1>1, FcnIsList
  <2> QED BY <2>1 DEF Range
<1>3. IsList(first) /\ Range(first) = P
  <2>1. IsList(first) /\ Range(first) = Range(places) \cap P
    BY <1>2, AmongKeeps
  <2>2. P \subseteq DOMAIN calls
    OBVIOUS
  <2> HIDE DEF P, first, places
  <2> QED BY <1>2, <2>1, <2>2
<1>4. Once(calls) = [n \in DOMAIN first |-> calls[first[n]]]
  BY DEF Once
<1> HIDE DEF first
<1>5. Len(first) \in Nat /\ DOMAIN first = 1..Len(first)
  BY <1>3, ListShape
<1>6. IsList(Once(calls))
  <2>1. Once(calls) = [n \in 1..Len(first) |-> calls[first[n]]]
    BY <1>4, <1>5
  <2> QED BY <1>5, <2>1, FcnIsList
<1>7. Range(Once(calls)) = {calls[i] : i \in P}
  <2> HIDE DEF P
  <2>1. P = {first[n] : n \in DOMAIN first}
    BY <1>3 DEF Range
  <2> QED BY <1>4, <2>1 DEF Range
<1>8. ASSUME NEW x \in Range(calls) PROVE x \in {calls[i] : i \in P}
  <2> DEFINE S == {i \in DOMAIN calls : calls[i] = x}
  <2>1. S \in SUBSET Nat /\ S # {}
    BY <1>1, <1>8 DEF Range
  <2>2. PICK i \in S : \A j \in S : i <= j
    <3> HIDE DEF S
    <3> QED BY <2>1, Smallest
  <2>3. i \in 1..Len(calls) /\ calls[i] = x
    BY <1>1
  <2>4. \A j \in 1 .. i - 1 : j \in DOMAIN calls /\ ~(i <= j)
    BY <1>1, <2>3
  <2>5. \A j \in 1 .. i - 1 : calls[j] # calls[i]
    BY <2>2, <2>3, <2>4
  <2>6. i \in P
    BY <1>1, <2>3, <2>5
  <2> HIDE DEF P
  <2> QED BY <2>3, <2>6
<1>9. {calls[i] : i \in P} \subseteq Range(calls)
  BY DEF Range
<1> HIDE DEF P
<1> QED BY <1>6, <1>7, <1>8, <1>9

\* The definitions a read can be about.
Kinds == {"feed", "defi", "v3", "v4", "erc20"}
Manifest(ds) == IsList(ds) /\ \A d \in Range(ds) : d.kind \in Kinds

\* A definition's calls are a list of them.
LEMMA CallsAre ==
  ASSUME NEW d, d.kind \in Kinds
  PROVE  /\ IsList(CallsOf(d))
         /\ Range(CallsOf(d)) = {CallId(d, leg) : leg \in Range(Legs(d))}
<1>1. IsList(Legs(d))
  <2>1. \/ Legs(d) = <<>> \/ Legs(d) = <<"slot0">> \/ Legs(d) = <<"view">> \/ Legs(d) = <<"rate">>
        \/ Legs(d) = <<"latestRoundData", "decimals">> \/ Legs(d) = <<"poolTokens", "supply">>
        \/ Legs(d) = <<"reserves", "supply">> \/ Legs(d) = <<"supply", "balance0", "balance1", "balance2">>
    BY DEF Legs, Kinds
  <2>2. IsList(<<"slot0">>) /\ IsList(<<"view">>) /\ IsList(<<"rate">>)
    BY ListShape
  <2>3. /\ IsList(<<"latestRoundData", "decimals">>) /\ IsList(<<"poolTokens", "supply">>)
        /\ IsList(<<"reserves", "supply">>)
    BY ListShape
  <2>4. IsList(<<"supply", "balance0", "balance1", "balance2">>)
    BY ListShape
  <2> QED BY <2>1, <2>2, <2>3, <2>4, NothingIsList
<1>2. Len(Legs(d)) \in Nat /\ DOMAIN Legs(d) = 1..Len(Legs(d))
  BY <1>1, ListShape
<1>3. CallsOf(d) = [n \in 1..Len(Legs(d)) |-> CallId(d, Legs(d)[n])]
  BY <1>2 DEF CallsOf
<1>4. IsList(CallsOf(d))
  BY <1>2, <1>3, FcnIsList
<1>5. Range(CallsOf(d)) = {CallId(d, leg) : leg \in Range(Legs(d))}
  BY <1>2, <1>3 DEF Range
<1> QED BY <1>4, <1>5

\* What the definitions need is asked for.
LEMMA AskedIs ==
  ASSUME NEW q, NEW block, Manifest(Selected(q))
  PROVE  /\ IsList(Asked(q, block))
         /\ \A d \in Range(Selected(q)) : Deployed(d, block) =>
              \A leg \in Range(Legs(d)) : CallId(d, leg) \in Range(Asked(q, block))
<1> DEFINE some == Eligible(q, block)
           ss == [i \in DOMAIN some |-> CallsOf(some[i])]
           needed == Once(FlattenSeq(ss))
<1>1. IsList(some) /\ Range(some) = {d \in Range(Selected(q)) : Deployed(d, block)}
  <2>1. /\ IsList(some)
        /\ Range(some) = Range(Selected(q)) \cap {d \in Range(Selected(q)) : Deployed(d, block)}
    BY AmongKeeps DEF Eligible, Manifest
  <2> HIDE DEF some
  <2> QED BY <2>1
<1>2. Len(some) \in Nat /\ DOMAIN some = 1..Len(some)
  BY <1>1, ListShape
<1>3. \A i \in 1..Len(some) : some[i] \in Range(Selected(q)) /\ some[i].kind \in Kinds
  <2> HIDE DEF some
  <2>1. \A i \in 1..Len(some) : some[i] \in Range(some)
    BY <1>2 DEF Range
  <2> QED BY <1>1, <2>1 DEF Manifest
<1>4. IsList(ss) /\ Len(ss) = Len(some)
  <2>1. ss = [i \in 1..Len(some) |-> CallsOf(some[i])]
    BY <1>2
  <2> HIDE DEF ss, some
  <2> QED BY <1>2, <2>1, FcnIsList
<1>5. \A i \in 1..Len(ss) : /\ ss[i] = CallsOf(some[i]) /\ IsList(ss[i])
                            /\ Range(ss[i]) = {CallId(some[i], leg) : leg \in Range(Legs(some[i]))}
  <2>1. \A i \in 1..Len(some) : ss[i] = CallsOf(some[i])
    BY <1>2
  <2> HIDE DEF ss, some
  <2> QED BY <1>3, <1>4, <2>1, CallsAre
<1> HIDE DEF ss
<1>6. IsList(FlattenSeq(ss)) /\ Range(FlattenSeq(ss)) = UNION {Range(ss[i]) : i \in 1..Len(ss)}
  BY <1>4, <1>5, FlattenIs
<1>7. IsList(needed) /\ Range(needed) = UNION {Range(ss[i]) : i \in 1..Len(ss)}
  BY <1>6, OnceIs
<1>8. Asked(q, block) = IF needed = <<>> THEN <<BlockGuard>> ELSE needed
  BY DEF Asked, ss
<1> HIDE DEF needed
<1>9. IsList(Asked(q, block))
  <2>1. IsList(<<BlockGuard>>)
    BY ListShape
  <2> QED BY <1>7, <1>8, <2>1
<1>10. ASSUME NEW d \in Range(Selected(q)), Deployed(d, block), NEW leg \in Range(Legs(d))
       PROVE  CallId(d, leg) \in Range(Asked(q, block))
  <2>1. PICK i \in 1..Len(some) : some[i] = d
    <3>1. d \in Range(some)
      BY <1>1, <1>10
    <3> HIDE DEF some
    <3> QED BY <1>2, <3>1 DEF Range
  <2>2. CallId(d, leg) \in Range(ss[i]) /\ i \in 1..Len(ss)
    BY <1>4, <1>5, <2>1
  <2>3. CallId(d, leg) \in Range(needed)
    BY <1>7, <2>2
  <2>4. needed # <<>>
    BY <2>3, NothingIsList
  <2> QED BY <1>8, <2>3, <2>4
<1> QED BY <1>9, <1>10

\* Cut in pieces of size, the i-th of l things is in a piece.
LEMMA PiecesCover ==
  ASSUME NEW l \in Nat, NEW size \in Nat \ {0}, NEW i \in 1..l
  PROVE  \E n \in 1 .. (l + size - 1) \div size : (n - 1) * size + 1 <= i /\ i <= n * size
<1> DEFINE K == (l + size - 1) \div size
           k == (i - 1) \div size
<1>1. k \in Nat /\ k * size <= i - 1 /\ i - 1 < k * size + size
  OBVIOUS
<1>2. K \in Nat /\ K * size <= l + size - 1 /\ l + size - 1 < K * size + size
  OBVIOUS
<1> HIDE DEF K, k
<1>3. k < K
  <2> SUFFICES ASSUME K <= k PROVE FALSE
    BY <1>1, <1>2
  <2>1. PICK more \in Nat : k = K + more
    <3>1. k - K \in Nat /\ k = K + (k - K)
      BY <1>1, <1>2
    <3> QED BY <3>1
  <2>2. k * size = K * size + more * size
    BY <1>1, <1>2, <2>1
  <2>3. more * size \in Nat /\ K * size \in Nat /\ k * size \in Nat
    BY <1>1, <1>2, <2>1
  <2> QED BY <1>1, <1>2, <2>2, <2>3
<1> DEFINE Covers(n) == (n - 1) * size + 1 <= i /\ i <= n * size
<1>4. k + 1 \in 1..K /\ Covers(k + 1)
  <2>1. (k + 1) * size = k * size + size /\ k + 1 - 1 = k
    BY <1>1
  <2>2. k * size \in Nat
    BY <1>1
  <2> QED BY <1>1, <1>2, <1>3, <2>1, <2>2
<1> HIDE DEF Covers
<1>5. \E n \in 1..K : Covers(n)
  BY <1>4
<1> QED BY <1>5 DEF K, Covers

\* Every call is in one of the batches, and these are lists.
LEMMA ChunkIs ==
  ASSUME NEW calls, IsList(calls), NEW size \in Nat \ {0}
  PROVE  /\ \A id \in Range(calls) : \E n \in DOMAIN Chunk(calls, size) : id \in Range(Chunk(calls, size)[n])
         /\ IsList(Chunk(calls, size))
<1> DEFINE l == Len(calls)
           K == (l + size - 1) \div size
           hi(n) == IF n * size < l THEN n * size ELSE l
           piece(n) == SubSeq(calls, (n - 1) * size + 1, hi(n))
<1>1. l \in Nat /\ DOMAIN calls = 1..l /\ calls \in Seq(Range(calls))
  BY ListShape DEF IsList
<1>2. Chunk(calls, size) = [n \in 1..K |-> piece(n)]
  BY DEF Chunk
<1>3. K \in Nat
  BY <1>1
<1>4. IsList(Chunk(calls, size))
  <2> HIDE DEF K, piece
  <2> QED BY <1>2, <1>3, FcnIsList
<1>5. ASSUME NEW id \in Range(calls) PROVE \E n \in 1..K : id \in Range(piece(n))
  <2>1. PICK i \in 1..l : calls[i] = id
    BY <1>1 DEF Range
  <2>2. PICK n \in 1..K : (n - 1) * size + 1 <= i /\ i <= n * size
    BY <1>1, PiecesCover
  <2>3. (n - 1) * size + 1 \in Nat \ {0} /\ hi(n) \in Nat /\ i <= hi(n) /\ hi(n) <= l
    <3>1. n - 1 \in Nat /\ n * size \in Nat /\ (n - 1) * size \in Nat
      BY <1>3
    <3> QED BY <1>1, <2>2, <3>1
  <2> DEFINE m == (n - 1) * size + 1
             h == hi(n)
  <2>4. m \in Nat \ {0} /\ h \in Nat /\ m <= i /\ i <= h /\ h <= l
    BY <2>2, <2>3
  <2> HIDE DEF m, h
  <2>5. SubSeq(calls, m, h) = [j \in 1..(h - m + 1) |-> calls[m + j - 1]]
    BY <1>1, <2>4
  <2>6. i - m + 1 \in 1..(h - m + 1) /\ m + (i - m + 1) - 1 = i
    BY <2>4
  <2>7. SubSeq(calls, m, h)[i - m + 1] = id /\ i - m + 1 \in DOMAIN SubSeq(calls, m, h)
    BY <2>1, <2>5, <2>6
  <2>8. id \in Range(SubSeq(calls, m, h))
    BY <2>7 DEF Range
  <2> QED BY <2>8 DEF m, h
<1> HIDE DEF piece, K
<1> QED BY <1>2, <1>4, <1>5

\* e's answers to batches.
HasReplies(e, batches, returned) ==
  \A n \in DOMAIN batches : returned[n] = [i \in DOMAIN batches[n] |-> AnswerAt(e, batches[n][i])]

\* Decoded, every call has the answer an endpoint gave to it.
LEMMA DecodedIs ==
  ASSUME NEW batches, NEW returned, NEW e, HasReplies(e, batches, returned)
  PROVE  \A n \in DOMAIN batches : \A id \in Range(batches[n]) :
           id \in DOMAIN Decoded(batches, returned) /\ Decoded(batches, returned)[id] = AnswerAt(e, id)
<1> SUFFICES ASSUME NEW m \in DOMAIN batches, NEW id \in Range(batches[m])
             PROVE  id \in DOMAIN Decoded(batches, returned) /\ Decoded(batches, returned)[id] = AnswerAt(e, id)
  OBVIOUS
<1> DEFINE ids == UNION {Range(batches[n]) : n \in DOMAIN batches}
           n == CHOOSE n \in DOMAIN batches : id \in Range(batches[n])
           i == CHOOSE i \in DOMAIN batches[n] : batches[n][i] = id
<1>1. id \in ids
  OBVIOUS
<1>2. n \in DOMAIN batches /\ id \in Range(batches[n])
  OBVIOUS
<1> HIDE DEF n
<1>3. \E j \in DOMAIN batches[n] : batches[n][j] = id
  BY <1>2 DEF Range
<1>4. i \in DOMAIN batches[n] /\ batches[n][i] = id
  BY <1>3
<1> HIDE DEF i
<1>5. returned[n][i] = AnswerAt(e, id)
  <2>1. returned[n] = [j \in DOMAIN batches[n] |-> AnswerAt(e, batches[n][j])]
    BY <1>2 DEF HasReplies
  <2> QED BY <1>4, <2>1
<1>6. DOMAIN Decoded(batches, returned) = ids /\ Decoded(batches, returned)[id] = returned[n][i]
  <2> HIDE DEF ids
  <2> QED BY <1>1 DEF Decoded, n, i, ids
<1> QED BY <1>1, <1>5, <1>6

-----------------------------------------------------------------------------
(* What is read *)

WellAsked(q) ==
  /\ q = [field \in QuestionFields |-> q[field]]
  /\ q.reader \in Readers
  /\ IF q.names = None THEN q.reader \notin NamedReaders ELSE IsList(q.names)
  /\ q.reader = "uniswapV4Usd" => \A name \in Range(q.names) : V4Of(name) # <<>>

\* The definitions of a manifest in a set.
LEMMA SomeOfAManifest ==
  ASSUME NEW ds, Manifest(ds), NEW set
  PROVE  Manifest(Among(set, ds)) /\ Range(Among(set, ds)) = Range(ds) \cap set
  BY AmongKeeps DEF Manifest

\* The manifests are that.
LEMMA ManifestsAre ==
  /\ Manifest(Feeds) /\ Manifest(DeFiTokens) /\ Manifest(V3Pools) /\ Manifest(V4Pools) /\ Manifest(<<>>)
  BY ManifestAssumption, NothingIsList DEF Manifest, Kinds

\* The pools of a token, and the references.
LEMMA PoolsAre ==
  /\ \A name : /\ Manifest(UsdPools(name))
               /\ \A d \in Range(UsdPools(name)) : Quote(d) \in Stable \/ Quote(d) = WETH
  /\ \A names : Manifest(Reference(names))
<1>1. ASSUME NEW name
      PROVE  /\ Manifest(UsdPools(name))
             /\ \A d \in Range(UsdPools(name)) : Quote(d) \in Stable \/ Quote(d) = WETH
  <2>1. Manifest(ResolveToken(name))
    BY ManifestsAre, SomeOfAManifest DEF ResolveToken
  <2> QED BY <2>1, SomeOfAManifest DEF UsdPools
<1>2. ASSUME NEW names PROVE Manifest(Reference(names))
  BY ManifestsAre, SomeOfAManifest DEF Reference, References
<1> QED BY <1>1, <1>2

\* Manifests one after the other.
LEMMA ManifestsJoin ==
  ASSUME NEW n \in Nat, NEW ms, ms = [i \in 1..n |-> ms[i]], \A i \in 1..n : Manifest(ms[i])
  PROVE  Manifest(FlattenSeq(ms)) /\ Range(FlattenSeq(ms)) = UNION {Range(ms[i]) : i \in 1..n}
<1>1. IsList(ms) /\ Len(ms) = n
  BY FcnIsList
<1>2. IsList(FlattenSeq(ms)) /\ Range(FlattenSeq(ms)) = UNION {Range(ms[i]) : i \in 1..Len(ms)}
  BY <1>1, FlattenIs DEF Manifest
<1>3. \A d \in Range(FlattenSeq(ms)) : \E i \in 1..n : d \in Range(ms[i])
  BY <1>1, <1>2
<1>4. \A d \in Range(FlattenSeq(ms)) : d.kind \in Kinds
  BY <1>3 DEF Manifest
<1> QED BY <1>1, <1>2, <1>4 DEF Manifest

\* Looked up by their ids.
LEMMA ByIdIs ==
  ASSUME NEW ds, Manifest(ds), NEW names, IsList(names)
  PROVE  Manifest(ById(ds, names))
<1> DEFINE some(i) == Among({d \in Range(ds) : d.id = names[i]}, ds)
           ms == [i \in 1..Len(names) |-> some(i)]
<1>1. Len(names) \in Nat /\ DOMAIN names = 1..Len(names)
  BY ListShape
<1>2. \A i \in 1..Len(names) : Manifest(some(i))
  BY SomeOfAManifest
<1>3. ById(ds, names) = FlattenSeq(ms)
  BY <1>1 DEF ById
<1> HIDE DEF some
<1> QED BY <1>1, <1>2, <1>3, ManifestsJoin

\* What a price in dollars is read from.
LEMMA UsdSelected ==
  ASSUME NEW q, IsList(q.names), q.reader = "uniswapV3Usd"
  PROVE  /\ Manifest(Selected(q))
         /\ Range(Selected(q)) =
              (UNION {Range(UsdPools(name)) : name \in Range(q.names)}) \cup Range(Reference(q.names))
<1> DEFINE ms == [i \in 1..Len(q.names) |-> UsdPools(q.names[i])]
<1>1. Len(q.names) \in Nat /\ DOMAIN q.names = 1..Len(q.names)
  BY ListShape
<1>2. Manifest(FlattenSeq(ms)) /\ Range(FlattenSeq(ms)) = UNION {Range(ms[i]) : i \in 1..Len(q.names)}
  <2>1. \A i \in 1..Len(q.names) : Manifest(ms[i])
    BY PoolsAre
  <2> QED BY <1>1, <2>1, ManifestsJoin
<1>3. Selected(q) = FlattenSeq(ms) \o Reference(q.names)
  BY <1>1 DEF Selected
<1>4. UNION {Range(ms[i]) : i \in 1..Len(q.names)} = UNION {Range(UsdPools(name)) : name \in Range(q.names)}
  <2>1. Range(q.names) = {q.names[i] : i \in 1..Len(q.names)}
    BY <1>1 DEF Range
  <2>2. \A i \in 1..Len(q.names) : ms[i] = UsdPools(q.names[i])
    OBVIOUS
  <2> HIDE DEF ms
  <2> QED BY <2>1, <2>2
<1>5. /\ IsList(FlattenSeq(ms) \o Reference(q.names))
      /\ Range(FlattenSeq(ms) \o Reference(q.names)) = Range(FlattenSeq(ms)) \cup Range(Reference(q.names))
  <2> HIDE DEF ms
  <2> QED BY <1>2, PoolsAre, ListsJoin DEF Manifest
<1> HIDE DEF ms
<1>6. \A d \in Range(Reference(q.names)) \cup Range(FlattenSeq(ms)) : d.kind \in Kinds
  BY <1>2, PoolsAre DEF Manifest
<1> QED BY <1>2, <1>3, <1>4, <1>5, <1>6 DEF Manifest

\* The first definition of a known name.
LEMMA V4First ==
  ASSUME NEW name, V4Of(name) # <<>>
  PROVE  V4Of(name)[1].kind \in Kinds
<1>1. Manifest(V4Of(name))
  BY ManifestsAre, SomeOfAManifest DEF V4Of
<1>2. 1 \in DOMAIN V4Of(name)
  <2>1. Len(V4Of(name)) \in Nat /\ DOMAIN V4Of(name) = 1..Len(V4Of(name)) /\ V4Of(name) = [i \in 1..Len(V4Of(name)) |-> V4Of(name)[i]]
    BY <1>1, ListShape DEF Manifest
  <2>2. Len(V4Of(name)) # 0
    <3> SUFFICES ASSUME Len(V4Of(name)) = 0 PROVE FALSE
      OBVIOUS
    <3>1. V4Of(name) \in Seq(Range(V4Of(name)))
      BY <1>1 DEF Manifest, IsList
    <3> QED BY <3>1
  <2> QED BY <2>1, <2>2
<1> QED BY <1>1, <1>2 DEF Manifest, Range

\* What is read of names that V4 knows: the first definition of each.
LEMMA V4Selected ==
  ASSUME NEW q, IsList(q.names), q.reader = "uniswapV4Usd", \A name \in Range(q.names) : V4Of(name) # <<>>
  PROVE  Manifest(Selected(q)) /\ Range(Selected(q)) = {V4Of(name)[1] : name \in Range(q.names)}
<1> DEFINE firsts == [i \in 1..Len(q.names) |-> V4Of(q.names[i])[1]]
<1>1. Len(q.names) \in Nat /\ DOMAIN q.names = 1..Len(q.names)
  BY ListShape
<1>2. Selected(q) = firsts
  BY <1>1 DEF Selected
<1>3. IsList(firsts)
  BY <1>1, FcnIsList
<1>4. \A i \in 1..Len(q.names) : firsts[i].kind \in Kinds
  BY <1>1, V4First DEF Range
<1>5. \A d \in Range(firsts) : d.kind \in Kinds
  BY <1>1, <1>4 DEF Range
<1>6. Range(firsts) = {V4Of(name)[1] : name \in Range(q.names)}
  BY <1>1 DEF Range
<1> QED BY <1>2, <1>3, <1>5, <1>6 DEF Manifest

\* A read is about definitions.
LEMMA SelectedIs ==
  ASSUME NEW q, WellAsked(q)
  PROVE  Manifest(Selected(q))
<1> DEFINE configured == Among({d \in Range(DeFiTokens) : d.chain = q.chain}, DeFiTokens)
           verified   == Among({d \in Range(V4Pools) : d.verified}, V4Pools)
           preferred  == IF verified # <<>> THEN verified ELSE V4Pools
<1>1. Manifest(configured) /\ Manifest(preferred)
  BY ManifestsAre, SomeOfAManifest
<1>2. q.names # None => IsList(q.names) /\ Len(q.names) \in Nat /\ DOMAIN q.names = 1..Len(q.names)
  BY ListShape DEF WellAsked
<1>3. q.reader \in NamedReaders => q.names # None
  BY DEF WellAsked
<1>4. CASE q.reader = "chainlink"
  BY <1>4, ManifestsAre DEF Selected
<1>5. CASE q.reader = "erc20"
  <2> DEFINE tokens == [i \in 1..Len(q.names) |-> [kind |-> "erc20", id |-> q.names[i]]]
  <2>1. Selected(q) = tokens /\ Len(q.names) \in Nat
    BY <1>2, <1>3, <1>5 DEF Selected, NamedReaders
  <2>2. IsList(tokens)
    BY <2>1, FcnIsList
  <2>3. \A d \in Range(tokens) : d.kind = "erc20"
    BY <2>1 DEF Range
  <2> QED BY <2>1, <2>2, <2>3 DEF Manifest, Kinds
<1>6. CASE q.reader = "defi"
  <2>1. Selected(q) = IF q.names = None THEN configured ELSE ById(configured, q.names)
    BY <1>6 DEF Selected
  <2> HIDE DEF configured
  <2> QED BY <1>1, <1>2, <2>1, ByIdIs
<1>7. CASE q.reader = "uniswapV3"
  <2>1. Selected(q) = IF q.names = None THEN V3Pools ELSE ById(V3Pools, q.names)
    BY <1>7 DEF Selected
  <2> QED BY ManifestsAre, <1>2, <2>1, ByIdIs
<1>8. CASE q.reader = "uniswapV3Pair"
  <2>1. Selected(q) = Among({d \in Range(V3Pools) : {d.token0, d.token1} = Range(q.names)}, V3Pools)
    BY <1>8 DEF Selected
  <2> QED BY ManifestsAre, SomeOfAManifest, <2>1
<1>9. CASE q.reader = "uniswapV3Usd"
  BY <1>2, <1>3, <1>9, UsdSelected DEF NamedReaders
<1>10. CASE q.reader = "uniswapV4"
  <2>1. Selected(q) = IF q.names # None THEN ById(V4Pools, q.names) ELSE preferred
    BY <1>10 DEF Selected
  <2> HIDE DEF preferred
  <2> QED BY ManifestsAre, <1>1, <1>2, <2>1, ByIdIs
<1>11. CASE q.reader = "uniswapV4Pair"
  <2>1. Selected(q) = Among({d \in Range(V4Pools) : {d.token0, d.token1} \cap Range(q.names) # {}}, preferred)
    BY <1>11 DEF Selected
  <2> HIDE DEF preferred
  <2> QED BY <1>1, SomeOfAManifest, <2>1
<1>12. CASE q.reader = "uniswapV4Usd"
  BY <1>2, <1>3, <1>12, V4Selected DEF NamedReaders, WellAsked
<1> QED BY <1>4, <1>5, <1>6, <1>7, <1>8, <1>9, <1>10, <1>11, <1>12 DEF WellAsked, Readers, NamedReaders

-----------------------------------------------------------------------------
(* A part of a read, alone and together *)

\* e's answers to calls.
Heard(byId, e, ids) == \A id \in ids : id \in DOMAIN byId /\ byId[id] = AnswerAt(e, id)

\* What a definition comes to depends on its calls alone.
LEMMA ReadingDepends ==
  ASSUME NEW d, NEW block, NEW e, NEW one, NEW other,
         Deployed(d, block) =>
           \A leg \in Range(Legs(d)) : Heard(one, e, {CallId(d, leg)}) /\ Heard(other, e, {CallId(d, leg)})
  PROVE  Reading(d, block, one) = Reading(d, block, other)
<1>1. CASE ~Deployed(d, block)
  BY <1>1 DEF Reading
<1>2. CASE Deployed(d, block)
  <2>1. \A leg \in Range(Legs(d)) : /\ CallId(d, leg) \in DOMAIN one /\ CallId(d, leg) \in DOMAIN other
                                    /\ one[CallId(d, leg)] = other[CallId(d, leg)]
    BY <1>2 DEF Heard
  <2>2. [leg \in Range(Legs(d)) |-> one[CallId(d, leg)]] = [leg \in Range(Legs(d)) |-> other[CallId(d, leg)]]
    BY <2>1
  <2>3. Evaluate(d, one) = Evaluate(d, other)
    BY <2>1, <2>2 DEF Evaluate
  <2> QED BY <1>2, <2>3 DEF Reading
<1> QED BY <1>1, <1>2

\* Read together with others or alone, a definition comes to the same.
LEMMA ReadingsAgree ==
  ASSUME NEW q, NEW r, Manifest(Selected(q)), Manifest(Selected(r)), NEW block, NEW e,
         NEW one, Heard(one, e, Range(Asked(q, block))),
         NEW other, Heard(other, e, Range(Asked(r, block))),
         NEW d \in Range(Selected(q)) \cap Range(Selected(r))
  PROVE  Reading(d, block, one) = Reading(d, block, other)
<1>1. Deployed(d, block) =>
        \A leg \in Range(Legs(d)) : CallId(d, leg) \in Range(Asked(q, block)) /\ CallId(d, leg) \in Range(Asked(r, block))
  BY AskedIs
<1>2. Deployed(d, block) =>
        \A leg \in Range(Legs(d)) : Heard(one, e, {CallId(d, leg)}) /\ Heard(other, e, {CallId(d, leg)})
  BY <1>1 DEF Heard
<1> QED BY <1>2, ReadingDepends

\* A token's price in dollars, from what its pools and the reference come to.
UsdOf(q, name, block, byId) ==
  LET price(d) == Reading(d, block, byId).price
      weth     == Highest({price(d) : d \in Range(Reference(q.names))})
  IN  {IF price(d) = None \/ Quote(d) \in Stable THEN price(d)
       ELSE IF weth = None THEN None ELSE Times(price(d), weth) : d \in Range(UsdPools(name))}

\* The highest of these is the price.
LEMMA UsdPriceIs ==
  ASSUME NEW q, NEW name, NEW block, NEW byId
  PROVE  UsdPrice(q, name, block, byId).price = Highest(UsdOf(q, name, block, byId))
  BY DEF UsdPrice, UsdOf, Failed, Priced

\* Where no pool has a price, there is none.
LEMMA NoUsdPrice ==
  ASSUME NEW q, NEW name, NEW block, NEW byId,
         \A d \in Range(UsdPools(name)) : Reading(d, block, byId).price = None
  PROVE  UsdPrice(q, name, block, byId).price = None
<1>1. \A p \in UsdOf(q, name, block, byId) : p = None
  BY DEF UsdOf
<1>2. Highest(UsdOf(q, name, block, byId)) = None
  BY <1>1 DEF Highest
<1> QED BY <1>2, UsdPriceIs

\* A question about one of its names.
Only(q, u) == [q EXCEPT !.names = <<u>>]

\* It asks the same reader.
LEMMA OnlyIs ==
  ASSUME NEW q, WellAsked(q), NEW u
  PROVE  /\ Only(q, u).reader = q.reader /\ Only(q, u).names = <<u>>
         /\ IsList(Only(q, u).names) /\ Range(Only(q, u).names) = {u}
<1>1. q = [field \in QuestionFields |-> q[field]]
  BY DEF WellAsked
<1>2. Only(q, u).reader = q.reader /\ Only(q, u).names = <<u>>
  BY <1>1 DEF Only, QuestionFields
<1>3. IsList(<<u>>)
  BY ListShape
<1>4. Range(<<u>>) = {u}
  BY DEF Range
<1> QED BY <1>2, <1>3, <1>4

\* A price in dollars is the same together with others and alone.
LEMMA UsdAgree ==
  ASSUME NEW q, WellAsked(q), q.reader = "uniswapV3Usd", NEW u \in Range(q.names), NEW block, NEW e,
         NEW byId, Heard(byId, e, Range(Asked(q, block))),
         NEW own, Heard(own, e, Range(Asked(Only(q, u), block)))
  PROVE  /\ UsdPrice(q, u, block, byId).price = UsdPrice(Only(q, u), u, block, own).price
         /\ \A d \in Range(Selected(Only(q, u))) :
              d \in Range(Selected(q)) /\ Reading(d, block, byId) = Reading(d, block, own)
         /\ Range(UsdPools(u)) \subseteq Range(Selected(Only(q, u)))
<1> DEFINE one == Only(q, u)
           refers(names) == \E i \in DOMAIN names : \E d \in Range(UsdPools(names[i])) : Quote(d) = WETH
<1>1. IsList(q.names) /\ IsList(one.names) /\ one.names = <<u>> /\ Range(one.names) = {u} /\ one.reader = "uniswapV3Usd"
  BY OnlyIs DEF WellAsked, NamedReaders
<1> HIDE DEF one
<1>2. /\ Manifest(Selected(q))
      /\ Range(Selected(q)) =
           (UNION {Range(UsdPools(name)) : name \in Range(q.names)}) \cup Range(Reference(q.names))
      /\ Manifest(Selected(one))
      /\ Range(Selected(one)) =
           (UNION {Range(UsdPools(name)) : name \in Range(one.names)}) \cup Range(Reference(one.names))
  BY <1>1, UsdSelected
<1>3. Range(Selected(one)) = Range(UsdPools(u)) \cup Range(Reference(one.names))
  BY <1>1, <1>2
<1>4. Range(UsdPools(u)) \subseteq Range(Selected(q))
  BY <1>2
<1>5. Reference(one.names) = IF \E d \in Range(UsdPools(u)) : Quote(d) = WETH THEN References(V3Pools) ELSE <<>>
  <2>1. refers(one.names) <=> \E d \in Range(UsdPools(u)) : Quote(d) = WETH
    <3>1. DOMAIN one.names = {1} /\ one.names[1] = u
      BY <1>1
    <3> QED BY <3>1
  <2> QED BY <2>1 DEF Reference
<1>6. (\E d \in Range(UsdPools(u)) : Quote(d) = WETH) => Reference(q.names) = References(V3Pools)
  <2>1. \E i \in DOMAIN q.names : q.names[i] = u
    BY DEF Range
  <2> QED BY <2>1 DEF Reference
<1>7. Range(Reference(one.names)) \subseteq Range(Reference(q.names))
  BY <1>5, <1>6, NothingIsList
<1>8. \A d \in Range(Selected(one)) : d \in Range(Selected(q))
  BY <1>2, <1>3, <1>4, <1>7
<1>9. ASSUME NEW d \in Range(Selected(one)) PROVE Reading(d, block, byId) = Reading(d, block, own)
  <2>1. d \in Range(Selected(q)) \cap Range(Selected(one))
    BY <1>8
  <2>2. Heard(own, e, Range(Asked(one, block)))
    BY DEF one
  <2> QED BY <1>2, <2>1, <2>2, ReadingsAgree
<1>10. UsdOf(q, u, block, byId) = UsdOf(one, u, block, own)
  <2> DEFINE there(d) == Reading(d, block, byId).price
             here(d)  == Reading(d, block, own).price
             wethThere == Highest({there(d) : d \in Range(Reference(q.names))})
             wethHere  == Highest({here(d) : d \in Range(Reference(one.names))})
             usd(price, stable, weth) == IF price = None \/ stable THEN price ELSE IF weth = None THEN None ELSE Times(price, weth)
  <2>1. \A d \in Range(UsdPools(u)) : there(d) = here(d)
    BY <1>3, <1>9
  <2>2. CASE \E d \in Range(UsdPools(u)) : Quote(d) = WETH
    <3>1. Reference(q.names) = Reference(one.names)
      BY <2>2, <1>5, <1>6
    <3>2. \A d \in Range(Reference(one.names)) : there(d) = here(d)
      BY <1>3, <1>9
    <3>3. {there(d) : d \in Range(Reference(q.names))} = {here(d) : d \in Range(Reference(one.names))}
      <4> HIDE DEF there, here
      <4> QED BY <3>1, <3>2
    <3>4. wethThere = wethHere
      BY <3>3
    <3> HIDE DEF there, here, wethThere, wethHere, usd
    <3>5. {usd(there(d), Quote(d) \in Stable, wethThere) : d \in Range(UsdPools(u))} =
            {usd(here(d), Quote(d) \in Stable, wethHere) : d \in Range(UsdPools(u))}
      BY <2>1, <3>4
    <3> QED BY <3>5 DEF UsdOf, there, here, wethThere, wethHere, usd
  <2>3. CASE ~\E d \in Range(UsdPools(u)) : Quote(d) = WETH
    <3>1. \A d \in Range(UsdPools(u)) : Quote(d) \in Stable
      BY <2>3, PoolsAre
    <3>2. \A price, weth : usd(price, TRUE, weth) = price
      OBVIOUS
    <3>3. \A d \in Range(UsdPools(u)) :
            /\ usd(there(d), Quote(d) \in Stable, wethThere) = there(d)
            /\ usd(here(d), Quote(d) \in Stable, wethHere) = here(d)
      <4> HIDE DEF there, here, wethThere, wethHere
      <4> QED BY <3>1
    <3> HIDE DEF there, here, wethThere, wethHere, usd
    <3>4. {usd(there(d), Quote(d) \in Stable, wethThere) : d \in Range(UsdPools(u))} =
            {usd(here(d), Quote(d) \in Stable, wethHere) : d \in Range(UsdPools(u))}
      BY <2>1, <3>3
    <3> QED BY <3>4 DEF UsdOf, there, here, wethThere, wethHere, usd
  <2> QED BY <2>2, <2>3
<1>11. UsdPrice(q, u, block, byId).price = UsdPrice(one, u, block, own).price
  BY <1>10, UsdPriceIs
<1> QED BY <1>3, <1>8, <1>9, <1>11 DEF one

\* What a read comes to: an error, or each part's outcome.
LEMMA SettledIs ==
  ASSUME NEW q, NEW block, NEW byId
  PROVE  LET some == \E d \in Range(Selected(q)) : Reading(d, block, byId).price # None
             s    == Settled(q, block, byId)
         IN  /\ s.error \in {None, "DATA_UNAVAILABLE"}
             /\ s.error = None <=> some \/ q.reader = "erc20"
             /\ s.error = None => \A u \in Units(q) :
                  s.units[u] = CASE q.reader = "uniswapV3Usd" -> UsdPrice(q, u, block, byId)
                                 [] q.reader = "uniswapV4Usd" -> V4Usd(V4Of(u)[1], block, byId)
                                 [] OTHER                     -> Reading(u, block, byId)
  BY WorldAssumption DEF Settled

\* In dollars by way of V3's pools.
LEMMA UsdTogether ==
  ASSUME NEW q, WellAsked(q), q.reader = "uniswapV3Usd", NEW u \in Range(q.names), NEW block, NEW e,
         NEW byId, Heard(byId, e, Range(Asked(q, block)))
  PROVE  LET s == Settled(q, block, byId)
         IN  Alone(q, block, e, u) = IF s.error = None THEN s.units[u].price ELSE None
<1> DEFINE one == Only(q, u)
           own == [id \in Range(Asked(one, block)) |-> AnswerAt(e, id)]
           s   == Settled(q, block, byId)
           t   == Settled(one, block, own)
<1>1. Alone(q, block, e, u) = IF t.error = None THEN t.units[u].price ELSE None
  BY DEF Alone, Only
<1>2. one.reader = "uniswapV3Usd" /\ u \in Units(one) /\ u \in Units(q)
  BY OnlyIs DEF Units
<1>3. Heard(own, e, Range(Asked(one, block)))
  BY DEF Heard
<1> HIDE DEF own, one
<1>4. /\ UsdPrice(q, u, block, byId).price = UsdPrice(one, u, block, own).price
      /\ \A d \in Range(Selected(one)) : d \in Range(Selected(q)) /\ Reading(d, block, byId) = Reading(d, block, own)
      /\ Range(UsdPools(u)) \subseteq Range(Selected(one))
  BY <1>3, UsdAgree DEF one
<1>5. s.error = None => s.units[u] = UsdPrice(q, u, block, byId)
  BY <1>2, SettledIs
<1>6. t.error = None => t.units[u] = UsdPrice(one, u, block, own)
  BY <1>2, SettledIs
<1>7. CASE t.error = None
  <2>1. \E d \in Range(Selected(one)) : Reading(d, block, own).price # None
    BY <1>2, <1>7, SettledIs
  <2>2. \E d \in Range(Selected(q)) : Reading(d, block, byId).price # None
    BY <1>4, <2>1
  <2>3. s.error = None
    BY <2>2, SettledIs
  <2> QED BY <1>1, <1>4, <1>5, <1>6, <1>7, <2>3
<1>8. CASE t.error # None
  <2>1. \A d \in Range(Selected(one)) : Reading(d, block, own).price = None
    BY <1>2, <1>8, SettledIs
  <2>2. \A d \in Range(UsdPools(u)) : Reading(d, block, byId).price = None
    BY <1>4, <2>1
  <2>3. UsdPrice(q, u, block, byId).price = None
    BY <2>2, NoUsdPrice
  <2> QED BY <1>1, <1>5, <1>8, <2>3
<1> QED BY <1>7, <1>8

\* In dollars by way of V4's.
LEMMA V4Together ==
  ASSUME NEW q, WellAsked(q), q.reader = "uniswapV4Usd", NEW u \in Range(q.names), NEW block, NEW e,
         NEW byId, Heard(byId, e, Range(Asked(q, block)))
  PROVE  LET s == Settled(q, block, byId)
         IN  Alone(q, block, e, u) = IF s.error = None THEN s.units[u].price ELSE None
<1> DEFINE one == Only(q, u)
           own == [id \in Range(Asked(one, block)) |-> AnswerAt(e, id)]
           s   == Settled(q, block, byId)
           t   == Settled(one, block, own)
           d   == V4Of(u)[1]
<1>1. Alone(q, block, e, u) = IF t.error = None THEN t.units[u].price ELSE None
  BY DEF Alone, Only
<1>2. /\ one.reader = "uniswapV4Usd" /\ u \in Units(one) /\ u \in Units(q)
      /\ IsList(q.names) /\ IsList(one.names) /\ Range(one.names) = {u}
  BY OnlyIs DEF Units, WellAsked, NamedReaders
<1>3. Heard(own, e, Range(Asked(one, block)))
  BY DEF Heard
<1> HIDE DEF own, one, d
<1>4. Manifest(Selected(q)) /\ Range(Selected(q)) = {V4Of(name)[1] : name \in Range(q.names)}
  BY <1>2, V4Selected DEF WellAsked
<1>5. Manifest(Selected(one)) /\ Range(Selected(one)) = {V4Of(name)[1] : name \in Range(one.names)}
  BY <1>2, V4Selected DEF WellAsked
<1>6. Range(Selected(one)) = {d} /\ d \in Range(Selected(q))
  BY <1>2, <1>4, <1>5 DEF d
<1>7. Reading(d, block, byId) = Reading(d, block, own)
  BY <1>3, <1>4, <1>5, <1>6, ReadingsAgree
<1>8. V4Usd(d, block, byId) = V4Usd(d, block, own)
  BY <1>7 DEF V4Usd
<1>9. s.error = None => s.units[u] = V4Usd(d, block, byId)
  BY <1>2, SettledIs DEF d
<1>10. t.error = None => t.units[u] = V4Usd(d, block, own)
  BY <1>2, SettledIs DEF d
<1>11. t.error = None <=> Reading(d, block, own).price # None
  BY <1>2, <1>6, SettledIs
<1>12. Reading(d, block, byId).price # None => s.error = None
  BY <1>6, SettledIs
<1>13. Reading(d, block, byId).price = None => V4Usd(d, block, byId).price = None
  BY DEF V4Usd
<1> QED BY <1>1, <1>7, <1>8, <1>9, <1>10, <1>11, <1>12, <1>13

\* A part of a read, one of the others' or of one of these.
LEMMA TogetherAsAlone ==
  ASSUME NEW q, WellAsked(q), NEW u \in Units(q), NEW block, NEW e,
         NEW byId, Heard(byId, e, Range(Asked(q, block)))
  PROVE  LET s == Settled(q, block, byId)
         IN  Alone(q, block, e, u) = IF s.error = None THEN s.units[u].price ELSE None
<1>1. CASE q.reader = "uniswapV3Usd"
  BY <1>1, UsdTogether DEF Units
<1>2. CASE q.reader = "uniswapV4Usd"
  BY <1>2, V4Together DEF Units
<1>3. CASE q.reader \notin {"uniswapV3Usd", "uniswapV4Usd"}
  <2> DEFINE own == [id \in Range(CallsOf(u)) |-> AnswerAt(e, id)]
             s   == Settled(q, block, byId)
  <2>1. u \in Range(Selected(q)) /\ Manifest(Selected(q)) /\ u.kind \in Kinds
    BY <1>3, SelectedIs DEF Units, Manifest
  <2>2. Alone(q, block, e, u) = Reading(u, block, own).price
    BY <1>3 DEF Alone
  <2>3. \A leg \in Range(Legs(u)) : CallId(u, leg) \in Range(CallsOf(u))
    BY <2>1, CallsAre
  <2>4. \A leg \in Range(Legs(u)) : Heard(own, e, {CallId(u, leg)})
    BY <2>3 DEF Heard
  <2>5. Deployed(u, block) => \A leg \in Range(Legs(u)) : Heard(byId, e, {CallId(u, leg)})
    BY <2>1, AskedIs DEF Heard
  <2> HIDE DEF own
  <2>6. Reading(u, block, byId) = Reading(u, block, own)
    BY <2>4, <2>5, ReadingDepends
  <2>7. s.error = None => s.units[u] = Reading(u, block, byId)
    BY <1>3, SettledIs
  <2>8. s.error # None => Reading(u, block, byId).price = None
    BY <2>1, SettledIs
  <2> QED BY <2>2, <2>6, <2>7, <2>8
<1> QED BY <1>1, <1>2, <1>3

-----------------------------------------------------------------------------
(* A read and its endpoints *)

TaskFields == {"stage", "q", "block", "batches", "endpoint", "tried", "returned", "outcome"}

\* What has been returned is what the endpoint at work answered to its batches; with none at work there is nothing.
PricesInv ==
  /\ truth \in Worlds
  /\ task = [f \in TaskFields |-> task[f]]
  /\ task.stage = "idle" => task.endpoint = None /\ task.returned = <<>>
  /\ task.stage = "reading" =>
       /\ task.q \in Questions /\ Refused(task.q, task.block) = None
       /\ task.batches = Chunk(Asked(task.q, task.block), MaxCallsPerMulticall)
       /\ IsList(task.returned)
       /\ \A n \in 1..Len(task.returned) :
            task.returned[n] = [i \in DOMAIN task.batches[n] |-> AnswerAt(task.endpoint, task.batches[n][i])]
       /\ task.endpoint = None => task.returned = <<>>

\* The world does not change while it is read.
LEMMA AloneStays ==
  ASSUME truth' = truth
  PROVE  \A q, block, e, u : Alone(q, block, e, u)' = Alone(q, block, e, u)
<1>1. \A d, round, decimals : EvaluateFeed(d, round, decimals)' = EvaluateFeed(d, round, decimals)
  BY DEF EvaluateFeed
<1>2. \A d, byId : Evaluate(d, byId)' = Evaluate(d, byId)
  BY <1>1 DEF Evaluate
<1>3. \A d, block, byId : Reading(d, block, byId)' = Reading(d, block, byId)
  BY <1>2 DEF Reading
<1>4. \A q, name, block, byId : UsdPrice(q, name, block, byId)' = UsdPrice(q, name, block, byId)
  <2> SUFFICES ASSUME NEW q, NEW name, NEW block, NEW byId
               PROVE  UsdPrice(q, name, block, byId)' = UsdPrice(q, name, block, byId)
    OBVIOUS
  <2> DEFINE now(d)   == Reading(d, block, byId).price
             later(d) == (Reading(d, block, byId).price)'
             references == Range(Reference(q.names))
             usd(price, stable, weth) == IF price = None \/ stable THEN price ELSE IF weth = None THEN None ELSE Times(price, weth)
             result(highest) == IF highest = None THEN Failed("NO_USD_PRICE") ELSE Priced(highest)
             wethNow   == Highest({now(d) : d \in references})
             wethLater == Highest({later(d) : d \in references})
  <2>1. \A d : now(d) = later(d)
    BY <1>3
  <2>2. wethNow = wethLater
    <3>1. {now(d) : d \in references} = {later(d) : d \in references}
      <4> HIDE DEF now, later, references
      <4> QED BY <2>1
    <3> QED BY <3>1
  <2>3. UsdPrice(q, name, block, byId) =
          result(Highest({usd(now(d), Quote(d) \in Stable, wethNow) : d \in Range(UsdPools(name))}))
    BY DEF UsdPrice
  <2>4. UsdPrice(q, name, block, byId)' =
          result(Highest({usd(later(d), Quote(d) \in Stable, wethLater) : d \in Range(UsdPools(name))}))
    BY DEF UsdPrice
  <2> HIDE DEF now, later, wethNow, wethLater, usd, result
  <2>5. {usd(now(d), Quote(d) \in Stable, wethNow) : d \in Range(UsdPools(name))} =
          {usd(later(d), Quote(d) \in Stable, wethLater) : d \in Range(UsdPools(name))}
    BY <2>1, <2>2
  <2> QED BY <2>3, <2>4, <2>5
<1>5. \A d, block, byId : V4Usd(d, block, byId)' = V4Usd(d, block, byId)
  BY <1>3 DEF V4Usd
<1>6. \A q, block, byId : Settled(q, block, byId)' = Settled(q, block, byId)
  BY <1>3, <1>4, <1>5 DEF Settled
<1>7. \A e, id : AnswerAt(e, id)' = AnswerAt(e, id)
  BY DEF AnswerAt
<1> QED BY <1>3, <1>6, <1>7 DEF Alone

\* A question that is not refused is one the selections can answer.
LEMMA UnrefusedIsWellAsked ==
  ASSUME NEW q \in Questions, NEW block, Refused(q, block) = None
  PROVE  WellAsked(q)
<1>1. ~(q.names # None /\ \E name \in Range(q.names) : ~Known(q, name))
  BY WorldAssumption DEF Refused
<1>2. q.reader = "uniswapV4Usd" => q.names # None
  BY QuestionAssumption DEF NamedReaders
<1>3. q.reader = "uniswapV4Usd" => \A name \in Range(q.names) : V4Of(name) # <<>>
  BY <1>1, <1>2 DEF Known
<1> QED BY <1>3, QuestionAssumption DEF WellAsked

\* It holds as a read begins, ...
LEMMA PricesInit == PriceInit => PricesInv
<1> SUFFICES ASSUME PriceInit PROVE PricesInv
  OBVIOUS
<1>1. task = [f \in TaskFields |-> task[f]]
  BY DEF PriceInit, Unasked, TaskFields
<1> QED BY <1>1 DEF PriceInit, PricesInv, Unasked

\* ... and whatever an endpoint does.
LEMMA PricesStep == PricesInv /\ [PriceNext]_priceVars => PricesInv'
<1> SUFFICES ASSUME PricesInv, [PriceNext]_priceVars PROVE PricesInv'
  OBVIOUS
<1> USE DEF TaskFields
<1>0. /\ truth \in Worlds /\ task = [f \in TaskFields |-> task[f]]
      /\ None \notin DOMAIN truth.answers
  BY WorldAssumption DEF PricesInv
<1>1. ASSUME NEW q \in Questions, Begin(q) PROVE PricesInv'
  <2> DEFINE block == IF q.block = None THEN truth.latest ELSE q.block
             asked == [task EXCEPT !.q = q, !.block = block]
  <2>1. task.stage = "idle" /\ task.endpoint = None /\ task.returned = <<>> /\ truth' = truth
    BY <1>1 DEF Begin, PricesInv
  <2>2. CASE Refused(q, block) # None
    <3>1. task' = [asked EXCEPT !.stage = "done", !.outcome = [error |-> Refused(q, block), units |-> <<>>]]
      BY <1>1, <2>2 DEF Begin
    <3>2. task' = [f \in TaskFields |-> task'[f]] /\ task'.stage = "done"
      BY <1>0, <3>1
    <3> QED BY <1>0, <2>1, <3>2 DEF PricesInv
  <2>3. CASE Refused(q, block) = None
    <3>1. task' = [asked EXCEPT !.stage = "reading", !.batches = Chunk(Asked(q, block), MaxCallsPerMulticall)]
      BY <1>1, <2>3 DEF Begin
    <3>2. /\ task' = [f \in TaskFields |-> task'[f]] /\ task'.stage = "reading" /\ task'.q = q /\ task'.block = block
          /\ task'.batches = Chunk(Asked(q, block), MaxCallsPerMulticall)
          /\ task'.returned = <<>>
      BY <1>0, <2>1, <3>1
    <3>3. IsList(task'.returned) /\ 1..Len(task'.returned) = {}
      BY <3>2, NothingIsList
    <3> HIDE DEF block, asked
    <3> QED BY <1>0, <1>1, <2>1, <2>3, <3>2, <3>3 DEF PricesInv
  <2> QED BY <2>2, <2>3
<1>2. ASSUME NEW e \in DOMAIN truth.answers, Connect(e) PROVE PricesInv'
  <2>1. /\ task' = [task EXCEPT !.endpoint = e] /\ truth' = truth
        /\ task.stage = "reading" /\ task.endpoint = None /\ task.returned = <<>>
    BY <1>2 DEF Connect, Reads, PricesInv
  <2>2. /\ task' = [f \in TaskFields |-> task'[f]] /\ task'.stage = "reading" /\ task'.returned = <<>>
        /\ task'.q = task.q /\ task'.block = task.block /\ task'.batches = task.batches
    BY <1>0, <2>1
  <2>3. IsList(task'.returned) /\ 1..Len(task'.returned) = {}
    BY <2>2, NothingIsList
  <2> QED BY <1>0, <2>1, <2>2, <2>3 DEF PricesInv
<1>3. ASSUME NEW e \in DOMAIN truth.answers, Reply(e) PROVE PricesInv'
  <2> DEFINE batch == task.batches[Len(task.returned) + 1]
             reply == [i \in DOMAIN batch |-> AnswerAt(e, batch[i])]
  <2>1. /\ task' = [task EXCEPT !.returned = Append(task.returned, reply)] /\ truth' = truth
        /\ task.stage = "reading" /\ task.endpoint = e /\ e # None
    BY <1>0, <1>3 DEF Reply, Reads
  <2>2. /\ task.q \in Questions /\ Refused(task.q, task.block) = None
        /\ task.batches = Chunk(Asked(task.q, task.block), MaxCallsPerMulticall)
        /\ IsList(task.returned) /\ Len(task.returned) \in Nat
        /\ \A n \in 1..Len(task.returned) :
             task.returned[n] = [i \in DOMAIN task.batches[n] |-> AnswerAt(task.endpoint, task.batches[n][i])]
    BY <2>1, ListShape DEF PricesInv
  <2>3. /\ task' = [f \in TaskFields |-> task'[f]] /\ task'.stage = "reading" /\ task'.endpoint = e
        /\ task'.q = task.q /\ task'.block = task.block /\ task'.batches = task.batches
        /\ task'.returned = Append(task.returned, reply)
    BY <1>0, <2>1
  <2> HIDE DEF reply
  <2>4. /\ IsList(task'.returned) /\ Len(task'.returned) = Len(task.returned) + 1
        /\ \A n \in 1..Len(task.returned) : task'.returned[n] = task.returned[n]
        /\ task'.returned[Len(task.returned) + 1] = reply
    BY <2>2, <2>3, ListGrows
  <2>5. ASSUME NEW n \in 1..Len(task'.returned)
        PROVE  task'.returned[n] = [i \in DOMAIN task.batches[n] |-> AnswerAt(e, task.batches[n][i])]
    <3>1. n \in 1..Len(task.returned) \/ n = Len(task.returned) + 1
      BY <2>2, <2>4
    <3>2. CASE n \in 1..Len(task.returned)
      BY <2>1, <2>2, <2>4, <3>2
    <3>3. CASE n = Len(task.returned) + 1
      BY <2>4, <3>3 DEF reply
    <3> QED BY <3>1, <3>2, <3>3
  <2>6. \A n \in 1..Len(task'.returned) :
          task'.returned[n] = [i \in DOMAIN task'.batches[n] |-> AnswerAt(e, task'.batches[n][i])]
    BY <2>3, <2>5
  <2>7. task'.endpoint # None
    BY <2>1, <2>3
  <2> QED BY <1>0, <2>1, <2>2, <2>3, <2>4, <2>6, <2>7 DEF PricesInv, AnswerAt
<1>4. ASSUME NEW e \in DOMAIN truth.answers, Break(e) PROVE PricesInv'
  <2>1. /\ task' = [task EXCEPT !.endpoint = None, !.tried = task.tried \cup {e}, !.returned = <<>>]
        /\ truth' = truth /\ task.stage = "reading"
    BY <1>4 DEF Break, Reads
  <2>2. /\ task' = [f \in TaskFields |-> task'[f]] /\ task'.stage = "reading" /\ task'.returned = <<>>
        /\ task'.q = task.q /\ task'.block = task.block /\ task'.batches = task.batches
    BY <1>0, <2>1
  <2>3. IsList(task'.returned) /\ 1..Len(task'.returned) = {}
    BY <2>2, NothingIsList
  <2> QED BY <1>0, <2>1, <2>2, <2>3 DEF PricesInv
<1>5. ASSUME NEW error, task' = Ended(error), truth' = truth PROVE PricesInv'
  <2>1. task' = [f \in TaskFields |-> task'[f]] /\ task'.stage = "done"
    BY <1>0, <1>5 DEF Ended
  <2> QED BY <1>0, <1>5, <2>1 DEF PricesInv
<1>6. ASSUME NEW e \in DOMAIN truth.answers, Conclude(e) PROVE PricesInv'
  <2>1. /\ task' = [task EXCEPT !.stage = "done", !.outcome = Settled(task.q, task.block, Decoded(task.batches, task.returned))]
        /\ truth' = truth
    BY <1>6 DEF Conclude
  <2>2. task' = [f \in TaskFields |-> task'[f]] /\ task'.stage = "done"
    BY <1>0, <2>1
  <2> QED BY <1>0, <2>1, <2>2 DEF PricesInv
<1>7. CASE UNCHANGED priceVars
  <2>1. task' = task /\ truth' = truth
    BY <1>7 DEF priceVars
  <2> QED BY <2>1 DEF PricesInv, AnswerAt
<1> QED BY <1>1, <1>2, <1>3, <1>4, <1>5, <1>6, <1>7 DEF PriceNext, Reorganize, Exhaust

\* What a read concludes with.
LEMMA ConcludedAlike ==
  ASSUME PricesInv, NEW e \in DOMAIN truth.answers, Conclude(e)
  PROVE  AloneAsTogether'
<1> DEFINE byId == Decoded(task.batches, task.returned)
           asked == Asked(task.q, task.block)
           s == Settled(task.q, task.block, byId)
<1>1. /\ task.stage = "reading" /\ task.endpoint = e /\ e # None /\ Len(task.returned) = Len(task.batches)
      /\ truth' = truth /\ task = [f \in TaskFields |-> task[f]]
      /\ task' = [task EXCEPT !.stage = "done", !.outcome = s]
  BY WorldAssumption DEF Conclude, Reads, PricesInv
<1>2. /\ task.q \in Questions /\ Refused(task.q, task.block) = None
      /\ task.batches = Chunk(asked, MaxCallsPerMulticall)
      /\ \A n \in 1..Len(task.returned) :
           task.returned[n] = [i \in DOMAIN task.batches[n] |-> AnswerAt(e, task.batches[n][i])]
  BY <1>1 DEF PricesInv
<1>3. WellAsked(task.q)
  BY <1>2, UnrefusedIsWellAsked
<1>4. IsList(asked)
  BY <1>3, SelectedIs, AskedIs
<1>5. /\ IsList(task.batches) /\ DOMAIN task.batches = 1..Len(task.batches)
      /\ \A id \in Range(asked) : \E n \in DOMAIN task.batches : id \in Range(task.batches[n])
  BY <1>2, <1>4, ChunkIs, ListShape, PriceAssumption
<1>6. Heard(byId, e, Range(asked))
  <2>1. HasReplies(e, task.batches, task.returned)
    BY <1>1, <1>2, <1>5 DEF HasReplies
  <2>2. \A n \in DOMAIN task.batches : \A id \in Range(task.batches[n]) : id \in DOMAIN byId /\ byId[id] = AnswerAt(e, id)
    BY <2>1, DecodedIs
  <2> HIDE DEF byId, asked
  <2> QED BY <1>5, <2>2 DEF Heard
<1> HIDE DEF byId, asked
<1>7. \A u \in Units(task.q) : Alone(task.q, task.block, e, u) = IF s.error = None THEN s.units[u].price ELSE None
  BY <1>3, <1>6, TogetherAsAlone DEF asked
<1>8. /\ task'.q = task.q /\ task'.block = task.block /\ task'.endpoint = e /\ task'.outcome = s
  BY <1>1 DEF TaskFields
<1>9. \A q, block, u : Alone(q, block, e, u)' = Alone(q, block, e, u)
  BY <1>1, AloneStays
<1> HIDE DEF s
<1> QED BY <1>7, <1>8, <1>9 DEF AloneAsTogether

\* Prices and rates (RpcService.multicallAtBlock and the services over it):
\* each part of a read comes to what it would come to by itself.
THEOREM PricesStandAlone == PriceSpec => []AloneAsTogether
<1>1. PriceInit => AloneAsTogether
  BY DEF PriceInit, Unasked, AloneAsTogether
<1>2. PricesInv /\ AloneAsTogether /\ [PriceNext]_priceVars => AloneAsTogether'
  <2> SUFFICES ASSUME PricesInv, AloneAsTogether, [PriceNext]_priceVars PROVE AloneAsTogether'
    OBVIOUS
  <2>1. ASSUME NEW q \in Questions, Begin(q) PROVE AloneAsTogether'
    <3> DEFINE block == IF q.block = None THEN truth.latest ELSE q.block
    <3>1. task.stage = "idle" /\ task.endpoint = None /\ task = [f \in TaskFields |-> task[f]]
      BY <2>1 DEF Begin, PricesInv
    <3>2. task'.endpoint = None
      BY <2>1, <3>1 DEF Begin, TaskFields
    <3> QED BY <3>2 DEF AloneAsTogether
  <2>2. ASSUME NEW e \in DOMAIN truth.answers, Connect(e) \/ Reply(e) \/ Break(e) PROVE AloneAsTogether'
    <3>1. task.stage = "reading" /\ task = [f \in TaskFields |-> task[f]]
      BY <2>2 DEF Connect, Reply, Break, Reads, PricesInv
    <3>2. task'.stage = "reading"
      BY <2>2, <3>1 DEF Connect, Reply, Break, TaskFields
    <3> QED BY <3>2 DEF AloneAsTogether
  <2>3. ASSUME NEW error \in {"RPC_BLOCK_REORG_DETECTED", "RPC_UNAVAILABLE"}, task' = Ended(error) PROVE AloneAsTogether'
    <3>1. task = [f \in TaskFields |-> task[f]]
      BY DEF PricesInv
    <3>2. task'.outcome.error = error
      BY <2>3, <3>1 DEF Ended, TaskFields
    <3> QED BY <3>2, WorldAssumption DEF AloneAsTogether
  <2>4. CASE UNCHANGED priceVars
    <3>1. task' = task /\ truth' = truth
      BY <2>4 DEF priceVars
    <3>2. \A q, block, e, u : Alone(q, block, e, u)' = Alone(q, block, e, u)
      BY <3>1, AloneStays
    <3> QED BY <3>1, <3>2 DEF AloneAsTogether
  <2> QED BY <2>1, <2>2, <2>3, <2>4, ConcludedAlike DEF PriceNext, Reorganize, Exhaust
<1> QED BY <1>1, <1>2, PricesInit, PricesStep, PTL DEF PriceSpec

=============================================================================
