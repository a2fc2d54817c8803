------------------------- MODULE RateLimiterProofs -------------------------
(***************************************************************************)
(* Proofs about RateLimiter.  The types and what a crash may lose are an   *)
(* inductive invariant together.  The quotas need a second one: what was   *)
(* sent is covered by what was counted for as long as a rule keeps count,  *)
(* and what may still be answered by the room for it.  The sums over       *)
(* windows are cardinalities of sets of entries, compared by injections.   *)
(***************************************************************************)
EXTENDS RateLimiter, FiniteSetTheorems, TLAPS

IInv == TypeOK /\ LossIsRecent

\* An age exists for what was just done.
LEMMA AgeFacts == 0 \in Ages /\ Ages \subseteq Nat /\ \A a \in Ages : a # 0 => a - 1 \in Ages
  BY LimiterAssumption DEF Ages

-----------------------------------------------------------------------------
(* Entries of lists *)

LEMMA EntryIn ==
    ASSUME NEW list, NEW w, NEW e
    PROVE  e \in Entries(list, w) <=> \E a \in 0..(w - 1) : \E i \in 1..list[a] : e = <<a, i>>
  BY DEF Entries

LEMMA EntriesFinite ==
    ASSUME NEW list \in Lists, NEW w \in 0..Longest
    PROVE  IsFiniteSet(Entries(list, w)) /\ Recent(list, w) \in Nat
  <1> DEFINE At == [a \in 0..(w - 1) |-> {a} \X (1..list[a])]
             All == {{a} \X (1..list[a]) : a \in 0..(w - 1)}
  <1>1. \A a \in 0..(w - 1) : IsFiniteSet({a} \X (1..list[a]))
    <2>. SUFFICES ASSUME NEW a \in 0..(w - 1) PROVE IsFiniteSet({a} \X (1..list[a]))
      OBVIOUS
    <2>1. 1 \in Int /\ list[a] \in Int
      BY LimiterAssumption DEF Lists, Ages
    <2>2. IsFiniteSet({a})
      BY FS_Singleton
    <2>3. IsFiniteSet(1..list[a])
      BY <2>1, FS_Interval
    <2>. QED BY <2>2, <2>3, FS_Product
  <1>2. At \in Surjection(0..(w - 1), All)
    BY DEF Surjection
  <1>3. IsFiniteSet(0..(w - 1))
    BY LimiterAssumption, FS_Interval
  <1>4. IsFiniteSet(All)
    BY <1>2, <1>3, FS_Surjection
  <1>5. IsFiniteSet(UNION All)
    BY <1>1, <1>4, FS_UNION
  <1>. QED BY <1>5, FS_CardinalityType DEF Entries, Recent

\* A longer window has seen more.
LEMMA EntriesGrow ==
    ASSUME NEW list, NEW w \in 0..Longest, NEW v \in 0..w
    PROVE  Entries(list, v) \subseteq Entries(list, w)
  <1>. SUFFICES ASSUME NEW e \in Entries(list, v) PROVE e \in Entries(list, w)
    OBVIOUS
  <1>1. PICK a \in 0..(v - 1) : \E i \in 1..list[a] : e = <<a, i>>
    BY EntryIn
  <1>2. a \in 0..(w - 1)
    BY LimiterAssumption
  <1>. QED BY <1>1, <1>2, EntryIn

LEMMA RecentGrows ==
    ASSUME NEW list \in Lists, NEW w \in 0..Longest, NEW v \in 0..w
    PROVE  Recent(list, v) <= Recent(list, w)
  BY EntriesGrow, EntriesFinite, FS_Subset DEF Recent

LEMMA RecentOfNothing == ASSUME NEW list PROVE Entries(list, 0) = {} /\ Recent(list, 0) = 0
  <1>1. Entries(list, 0) = {}
    BY EntryIn
  <1>. QED BY <1>1, FS_EmptySet DEF Recent

\* What a window sees after a unit of time is what a window shorter by one saw before.
LEMMA RecentAges ==
    ASSUME NEW list \in Lists, NEW w \in 1..Longest, NEW v \in 1..w
    PROVE  Recent(Older(list, w), v) = Recent(list, v - 1)
  <1> DEFINE old == Older(list, w)
             up == [e \in Entries(list, v - 1) |-> <<e[1] + 1, e[2]>>]
  <1>1. \A a \in 0..(v - 2) : a \in Ages /\ a + 1 \in Ages /\ a + 1 < w /\ a + 1 \in 0..(v - 1)
    BY LimiterAssumption DEF Ages
  <1>2. \A a \in 0..(v - 2) : old[a + 1] = list[a]
    BY <1>1 DEF Older
  <1>3. old[0] = 0
    BY AgeFacts DEF Older
  <1>4. \A e \in Entries(list, v - 1) :
            e = <<e[1], e[2]>> /\ e[1] \in 0..(v - 2) /\ e[2] \in 1..list[e[1]]
    BY EntryIn
  <1>5. \A e \in Entries(list, v - 1) : up[e] \in Entries(old, v)
    BY <1>1, <1>2, <1>4, EntryIn
  <1>6. \A f \in Entries(old, v) : \E e \in Entries(list, v - 1) : up[e] = f
    <2>. SUFFICES ASSUME NEW f \in Entries(old, v)
                  PROVE  \E e \in Entries(list, v - 1) : up[e] = f
      OBVIOUS
    <2>0. PICK a \in 0..(v - 1) : \E i \in 1..old[a] : f = <<a, i>>
      BY EntryIn
    <2>1. PICK i \in 1..old[a] : f = <<a, i>>
      BY <2>0
    <2>2. a # 0
      BY <1>3, <2>1
    <2>3. a - 1 \in 0..(v - 2) /\ i \in 1..list[a - 1]
      BY <1>2, <2>1, <2>2
    <2>4. <<a - 1, i>> \in Entries(list, v - 1)
      BY <2>3, EntryIn
    <2>. QED BY <2>1, <2>4
  <1>7. \A e, f \in Entries(list, v - 1) : up[e] = up[f] => e = f
    BY <1>4
  <1> HIDE DEF old
  <1>8. up \in Bijection(Entries(list, v - 1), Entries(old, v))
    BY <1>5, <1>6, <1>7 DEF Bijection, Injection, Surjection, IsInjective
  <1>9. v - 1 \in 0..Longest
    BY LimiterAssumption
  <1>. QED BY <1>8, <1>9, EntriesFinite, FS_Bijection DEF ExistsBijection, Recent, old

\* One more entry of age 0 is one more in every window.
Plus(list, n) == [list EXCEPT ![0] = @ + n]

LEMMA RecentPlus ==
    ASSUME NEW list \in Lists, NEW n \in Nat, NEW w \in 1..Longest
    PROVE  /\ Plus(list, n) \in Lists
           /\ n = 0 => Recent(Plus(list, n), w) = Recent(list, w)
           /\ n = 1 => Recent(Plus(list, n), w) = Recent(list, w) + 1
           /\ n >= 1 => Recent(Plus(list, n), w) >= Recent(list, w) + 1
  <1> DEFINE new == <<0, list[0] + 1>>
             base == Entries(list, w)
             more == Entries(Plus(list, n), w)
  <1>1. /\ Plus(list, n) \in Lists
        /\ Plus(list, n)[0] = list[0] + n /\ list[0] \in Nat
        /\ \A a \in Ages : a # 0 => Plus(list, n)[a] = list[a]
    BY AgeFacts DEF Plus, Lists
  <1>2. 0 \in 0..(w - 1) /\ w \in 0..Longest /\ 0..(w - 1) \subseteq Ages
    BY LimiterAssumption DEF Ages
  <1>3. new \notin base
    BY <1>1, EntryIn
  <1>4. base \subseteq more
    <2>. SUFFICES ASSUME NEW e \in base PROVE e \in more
      OBVIOUS
    <2>0. PICK a \in 0..(w - 1) : \E i \in 1..list[a] : e = <<a, i>>
      BY EntryIn
    <2>1. PICK i \in 1..list[a] : e = <<a, i>>
      BY <2>0
    <2>2. i \in 1..Plus(list, n)[a]
      BY <1>1, <1>2, <2>1
    <2>. QED BY <2>1, <2>2, EntryIn
  <1>5. n >= 1 => new \in more
    <2>1. n >= 1 => list[0] + 1 \in 1..Plus(list, n)[0]
      BY <1>1
    <2>. QED BY <1>2, <2>1, EntryIn
  <1>6. n <= 1 => more \subseteq base \cup {new}
    <2>. SUFFICES ASSUME n <= 1, NEW e \in more PROVE e \in base \cup {new}
      OBVIOUS
    <2>0. PICK a \in 0..(w - 1) : \E i \in 1..Plus(list, n)[a] : e = <<a, i>>
      BY EntryIn
    <2>1. PICK i \in 1..Plus(list, n)[a] : e = <<a, i>>
      BY <2>0
    <2>2. i \in 1..list[a] \/ (a = 0 /\ i = list[0] + 1)
      BY <1>1, <1>2, <2>1
    <2>. QED BY <2>1, <2>2, EntryIn
  <1>7. IsFiniteSet(base) /\ IsFiniteSet(more)
    BY <1>1, <1>2, EntriesFinite
  <1>8. /\ IsFiniteSet(base \cup {new})
        /\ Cardinality(base \cup {new}) = Cardinality(base) + 1
    BY <1>3, <1>7, FS_AddElement
  <1>9. ASSUME n = 0 PROVE more = base
    <2>1. Plus(list, n) = list
      BY <1>1, <1>9, AgeFacts DEF Plus, Lists
    <2>. QED BY <2>1
  <1>10. ASSUME n = 1 PROVE more = base \cup {new}
    BY <1>4, <1>5, <1>6, <1>10
  <1>11. ASSUME n >= 1 PROVE Cardinality(more) >= Cardinality(base) + 1
    <2>1. base \cup {new} \subseteq more
      BY <1>4, <1>5, <1>11
    <2>2. Cardinality(base \cup {new}) <= Cardinality(more)
      BY <2>1, <1>7, FS_Subset
    <2>. QED BY <2>2, <1>7, <1>8, FS_CardinalityType
  <1>. QED BY <1>1, <1>8, <1>9, <1>10, <1>11 DEF Recent

-----------------------------------------------------------------------------
(* What the keys of a bucket have sent *)

LEMMA SentIn ==
    ASSUME NEW rule, NEW k, NEW w, NEW e
    PROVE  e \in SentWithin(rule, k, w) <=>
               \E other \in Sharing(rule, k) : \E x \in Entries(sent[other], w) : e = <<other, x>>
  BY DEF SentWithin

LEMMA SentInNext ==
    ASSUME NEW rule, NEW k, NEW w, NEW e
    PROVE  e \in SentWithin(rule, k, w)' <=>
               \E other \in Sharing(rule, k) : \E x \in Entries(sent'[other], w) : e = <<other, x>>
  BY DEF SentWithin

LEMMA SharingFinite ==
    ASSUME NEW rule, NEW k PROVE IsFiniteSet(Sharing(rule, k)) /\ Sharing(rule, k) \subseteq Keys
  <1>1. Sharing(rule, k) \in SUBSET Keys
    BY DEF Sharing
  <1>. QED BY <1>1, LimiterAssumption, FS_Subset

LEMMA AllFinite ==
    ASSUME NEW f \in [Keys -> Lists], NEW S \in SUBSET Keys, NEW w \in 0..Longest
    PROVE  IsFiniteSet(UNION {{o} \X Entries(f[o], w) : o \in S})
  <1> DEFINE By == [o \in S |-> {o} \X Entries(f[o], w)]
             All == {{o} \X Entries(f[o], w) : o \in S}
  <1>1. \A o \in S : IsFiniteSet({o} \X Entries(f[o], w))
    <2>. SUFFICES ASSUME NEW o \in S PROVE IsFiniteSet({o} \X Entries(f[o], w))
      OBVIOUS
    <2>1. f[o] \in Lists
      OBVIOUS
    <2>2. IsFiniteSet({o})
      BY FS_Singleton
    <2>. QED BY <2>1, <2>2, EntriesFinite, FS_Product
  <1>2. By \in Surjection(S, All)
    BY DEF Surjection
  <1>3. IsFiniteSet(S)
    BY LimiterAssumption, FS_Subset
  <1>4. IsFiniteSet(All)
    BY <1>2, <1>3, FS_Surjection
  <1>. QED BY <1>1, <1>4, FS_UNION

LEMMA SentFinite ==
    ASSUME sent \in [Keys -> Lists], NEW rule, NEW k, NEW w \in 0..Longest
    PROVE  IsFiniteSet(SentWithin(rule, k, w)) /\ Cardinality(SentWithin(rule, k, w)) \in Nat
  <1>1. IsFiniteSet(SentWithin(rule, k, w))
    BY AllFinite, SharingFinite DEF SentWithin
  <1>. QED BY <1>1, FS_CardinalityType

LEMMA SentFiniteNext ==
    ASSUME sent' \in [Keys -> Lists], NEW rule, NEW k, NEW w \in 0..Longest
    PROVE  Cardinality(SentWithin(rule, k, w)') \in Nat
  <1>1. IsFiniteSet(SentWithin(rule, k, w)')
    <2>1. Sharing(rule, k)' = Sharing(rule, k)
      BY DEF Sharing
    <2>. QED BY <2>1, AllFinite, SharingFinite DEF SentWithin
  <1>. QED BY <1>1, FS_CardinalityType

\* Nothing was sent in no time.
LEMMA SentNever == ASSUME NEW rule, NEW k PROVE Cardinality(SentWithin(rule, k, 0)) = 0
  <1>1. SentWithin(rule, k, 0) = {}
    BY SentIn, RecentOfNothing
  <1>. QED BY <1>1, FS_EmptySet

\* After a unit of time a window holds no more than a window shorter by one held before.
LEMMA SentAges ==
    ASSUME sent \in [Keys -> Lists], sent' = [o \in Keys |-> Older(sent[o], Longest)],
           NEW rule, NEW k, NEW v \in 1..Longest
    PROVE  Cardinality(SentWithin(rule, k, v)') <= Cardinality(SentWithin(rule, k, v - 1))
  <1> DEFINE new == SentWithin(rule, k, v)'
             old == SentWithin(rule, k, v - 1)
             down == [e \in new |-> <<e[1], <<e[2][1] - 1, e[2][2]>>>>]
  <1>2. ASSUME NEW e \in new
        PROVE  /\ e = <<e[1], <<e[2][1], e[2][2]>>>>
               /\ e[2][1] \in 1..(v - 1) /\ down[e] \in old
    <2>1. PICK o \in Sharing(rule, k) : \E x \in Entries(sent'[o], v) : e = <<o, x>>
      BY SentInNext
    <2>2. PICK x \in Entries(sent'[o], v) : e = <<o, x>>
      BY <2>1
    <2>3. PICK a \in 0..(v - 1) : \E i \in 1..sent'[o][a] : x = <<a, i>>
      BY EntryIn
    <2>4. PICK i \in 1..sent'[o][a] : x = <<a, i>>
      BY <2>3
    <2>5. o \in Keys /\ a \in Ages
      BY SharingFinite, LimiterAssumption DEF Ages
    <2>6. sent'[o][a] = IF a = 0 \/ a >= Longest THEN 0 ELSE sent[o][a - 1]
      BY <2>5 DEF Older
    <2>7. a # 0 /\ sent'[o][a] = sent[o][a - 1]
      BY <2>6, LimiterAssumption
    <2>8. a - 1 \in 0..(v - 2) /\ i \in 1..sent[o][a - 1]
      BY <2>7
    <2>9. <<a - 1, i>> \in Entries(sent[o], v - 1)
      BY <2>8, EntryIn
    <2>10. down[e] = <<o, <<a - 1, i>>>>
      BY <2>2, <2>4
    <2>11. down[e] \in old
      BY <2>9, <2>10, SentIn
    <2>. QED BY <2>2, <2>4, <2>7, <2>11
  <1>3. \A e \in new : down[e] \in old
    BY <1>2
  <1>4. ASSUME NEW e \in new, NEW f \in new, down[e] = down[f] PROVE e = f
    <2>1. /\ e = <<e[1], <<e[2][1], e[2][2]>>>> /\ e[2][1] \in 1..(v - 1)
          /\ f = <<f[1], <<f[2][1], f[2][2]>>>> /\ f[2][1] \in 1..(v - 1)
      BY <1>2
    <2>2. e[1] = f[1] /\ e[2][1] - 1 = f[2][1] - 1 /\ e[2][2] = f[2][2]
      BY <1>4
    <2>3. e[2][1] = f[2][1]
      BY <2>1, <2>2
    <2>. QED BY <2>1, <2>2, <2>3
  <1> HIDE DEF new, old
  <1>5. down \in Injection(new, old)
    BY <1>3, <1>4 DEF Injection, IsInjective
  <1>6. IsFiniteSet(old)
    BY SentFinite, LimiterAssumption DEF old
  <1>7. Cardinality(new) <= Cardinality(old)
    BY <1>5, <1>6, FS_Injection
  <1>. QED BY <1>7 DEF new, old

\* A request with one of the keys of a bucket is one more in its windows, and none in others'.
LEMMA SentElsewhere ==
    ASSUME sent \in [Keys -> Lists], NEW k \in Keys, sent' = [sent EXCEPT ![k][0] = @ + 1],
           NEW rule, NEW j, k \notin Sharing(rule, j)
    PROVE  \A w : SentWithin(rule, j, w)' = SentWithin(rule, j, w)
  <1>1. \A o \in Sharing(rule, j) : sent'[o] = sent[o]
    BY SharingFinite
  <1>2. ASSUME NEW w PROVE SentWithin(rule, j, w)' = SentWithin(rule, j, w)
    <2>1. \A e : e \in SentWithin(rule, j, w)' <=> e \in SentWithin(rule, j, w)
      BY <1>1, SentIn, SentInNext
    <2>. QED BY <2>1
  <1>. QED BY <1>2

LEMMA SentGrows ==
    ASSUME sent \in [Keys -> Lists], NEW k \in Keys, sent' = [sent EXCEPT ![k][0] = @ + 1],
           NEW rule, NEW j, NEW w \in 1..Longest
    PROVE  Cardinality(SentWithin(rule, j, w)') <= Cardinality(SentWithin(rule, j, w)) + 1
  <1> DEFINE new == SentWithin(rule, j, w)'
             old == SentWithin(rule, j, w)
             one == <<k, <<0, sent[k][0] + 1>>>>
  <1>1. \A e \in SentWithin(rule, j, w)' :
            \E o \in Sharing(rule, j) : \E x \in Entries(sent'[o], w) : e = <<o, x>>
    BY ONLY SentInNext
  <1>2. \A o \in Sharing(rule, j) : o # k => sent'[o] = sent[o]
    BY SharingFinite
  <1>4. ASSUME NEW e \in new PROVE e \in old \cup {one}
    <2>1. PICK o \in Sharing(rule, j) : \E x \in Entries(sent'[o], w) : e = <<o, x>>
      BY <1>1
    <2>2. PICK x \in Entries(sent'[o], w) : e = <<o, x>>
      BY <2>1
    <2>3. CASE o # k
      BY <1>2, <2>2, <2>3, SentIn
    <2>4. CASE o = k
      <3>1. /\ sent'[k][0] = sent[k][0] + 1 /\ sent[k][0] \in Nat
            /\ \A a \in Ages : a # 0 => sent'[k][a] = sent[k][a]
        BY AgeFacts DEF Lists
      <3>2. PICK a \in 0..(w - 1) : \E i \in 1..sent'[k][a] : x = <<a, i>>
        <4>1. x \in Entries(sent'[k], w)
          BY ONLY <2>2, <2>4
        <4>. QED BY ONLY <4>1, EntryIn
      <3>3. PICK i \in 1..sent'[k][a] : x = <<a, i>>
        BY <3>2
      <3>4. a \in Ages
        BY LimiterAssumption DEF Ages
      <3>5. i \in 1..sent[k][a] \/ (a = 0 /\ i = sent[k][0] + 1)
        BY <3>1, <3>4
      <3>6. i \in 1..sent[k][a] => x \in Entries(sent[k], w)
        BY <3>3, EntryIn
      <3>. QED BY <2>2, <2>4, <3>3, <3>5, <3>6, SentIn
    <2>. QED BY <2>3, <2>4
  <1>5. IsFiniteSet(old)
    BY SentFinite
  <1>6. IsFiniteSet(old \cup {one}) /\ Cardinality(old \cup {one}) <= Cardinality(old) + 1
    <2>1. Cardinality(old) \in Nat
      BY <1>5, FS_CardinalityType
    <2>2. /\ IsFiniteSet(old \cup {one})
          /\ Cardinality(old \cup {one}) = Cardinality(old)
                \/ Cardinality(old \cup {one}) = Cardinality(old) + 1
      BY <1>5, FS_AddElement
    <2>. QED BY <2>1, <2>2
  <1>7. Cardinality(new) <= Cardinality(old \cup {one}) /\ Cardinality(new) \in Nat
    <2>1. new \subseteq old \cup {one}
      BY <1>4
    <2>. QED BY <2>1, <1>6, FS_Subset, FS_CardinalityType
  <1>8. Cardinality(old) \in Nat /\ Cardinality(old \cup {one}) \in Nat
    BY <1>5, <1>6, FS_CardinalityType
  <1>. QED BY <1>6, <1>7, <1>8

-----------------------------------------------------------------------------

\* What is counted for a call goes to age 0 and is nothing where no rule asks for it.
LEMMA CountedFacts ==
    ASSUME TypeOK, NEW k \in Keys, NEW what
    PROVE  /\ Counted(k, what) \in [Counters -> Lists]
           /\ \A c \in Counters, a \in Ages : a # 0 => Counted(k, what)[c][a] = ledger[c][a]
           /\ {rule \in rules : rule.counts = what} = {} => Counted(k, what) = ledger
  <1> DEFINE Asking(c) == {rule \in rules : rule.counts = what /\ CounterOf(rule, k) = c}
  <1>1. \A c \in Counters : Cardinality(Asking(c)) \in Nat
    <2>1. IsFiniteSet(rules)
      BY LimiterAssumption DEF TypeOK
    <2>. QED BY <2>1, FS_Subset, FS_CardinalityType
  <1>2. \A c \in Counters : ledger[c] \in Lists
    BY DEF TypeOK
  <1>3. Counted(k, what) = [c \in Counters |->
                               [ledger[c] EXCEPT ![0] = @ + Cardinality(Asking(c))]]
    BY DEF Counted
  <1> HIDE DEF Asking
  <1>4. /\ Counted(k, what) \in [Counters -> Lists]
        /\ \A c \in Counters, a \in Ages : a # 0 => Counted(k, what)[c][a] = ledger[c][a]
    BY <1>1, <1>2, <1>3, AgeFacts DEF Lists
  <1>5. ASSUME {rule \in rules : rule.counts = what} = {}
        PROVE  Counted(k, what) = ledger
    <2>1. \A c \in Counters : Cardinality(Asking(c)) = 0
      <3>1. \A c \in Counters : Asking(c) = {}
        BY <1>5 DEF Asking
      <3>. QED BY <3>1, FS_EmptySet
    <2>2. \A c \in Counters : [ledger[c] EXCEPT ![0] = @ + 0] = ledger[c]
      BY <1>2, AgeFacts DEF Lists
    <2>3. Counted(k, what) = [c \in Counters |-> ledger[c]]
      BY <1>3, <2>1, <2>2
    <2>. QED BY <2>3 DEF TypeOK
  <1>. QED BY <1>4, <1>5

LEMMA NewestType == ASSUME NEW list \in Lists PROVE Newest(list) \in Lists
  <1>1. ASSUME NEW a \in Ages
        PROVE  Cardinality({i \in 1..list[a] : Recent(list, a) + i <= Keep}) \in Nat
    <2>1. IsFiniteSet(1..list[a])
      BY FS_Interval, AgeFacts DEF Lists
    <2>. QED BY <2>1, FS_Subset, FS_CardinalityType
  <1>. QED BY <1>1 DEF Newest, Lists

LEMMA OlderType == ASSUME NEW list \in Lists, NEW w PROVE Older(list, w) \in Lists
  BY AgeFacts DEF Older, Lists

\* The file stays a file of lists.
LEMMA FileType ==
    ASSUME TypeOK, saved' = saved \/ saved' = [c \in Counters |-> Newest(ledger[c])]
    PROVE  saved' \in [Counters -> Lists]
  BY NewestType DEF TypeOK

-----------------------------------------------------------------------------

\* Clocks of rules run from 0 to the rule's window.
LEMMA RuleFacts == 0 \in 0..Longest /\ \A rule \in AllRules : rule.window \in 0..Longest
  BY LimiterAssumption

LEMMA InitIInv == Init => IInv
  <1>. SUFFICES ASSUME Init PROVE IInv
    OBVIOUS
  <1>1. Empty \in Lists
    BY DEF Empty, Lists
  <1>2. since \in [AllRules -> 0..Longest]
    BY RuleFacts DEF Init
  <1>3. phase \in 0..Period /\ edits \in 0..MaxEdits /\ restarts \in 0..MaxRestarts
    BY LimiterAssumption DEF Init
  <1>4. flight \in [Requests -> Keys \cup {None}]
    BY DEF Init, NoneInFlight
  <1>. QED BY <1>1, <1>2, <1>3, <1>4 DEF Init, IInv, TypeOK, LossIsRecent

\* Neither the file nor the clock moves: what matters is that a change makes a write due.
LEMMA Charge ==
    ASSUME IInv, NEW k \in Keys, NEW what, UNCHANGED <<disk, phase>>,
           ledger' = Counted(k, what), dirty' \in BOOLEAN, dirty => dirty',
           ~dirty' => {rule \in rules : rule.counts = what} = {}
    PROVE  ledger' \in [Counters -> Lists] /\ LossIsRecent'
  <1>1. \A a \in Ages : a > phase => a # 0
    BY AgeFacts DEF IInv, TypeOK
  <1>. QED BY <1>1, CountedFacts DEF IInv, LossIsRecent, disk

LEMMA AdmitStep == ASSUME IInv, NEW r \in Requests, NEW k \in Keys, Admit(r, k) PROVE IInv'
  <1>1. ledger' \in [Counters -> Lists] /\ LossIsRecent'
    BY Charge DEF Admit, IInv, TypeOK
  <1>2. sent' \in [Keys -> Lists]
    BY AgeFacts DEF Admit, IInv, TypeOK, Lists
  <1>3. flight' \in [Requests -> Keys \cup {None}]
    BY DEF Admit, IInv, TypeOK
  <1>. QED BY <1>1, <1>2, <1>3 DEF Admit, IInv, TypeOK, disk

LEMMA RespondStep == ASSUME IInv, NEW r \in Requests, Respond(r) PROVE IInv'
  <1>1. flight[r] \in Keys
    BY DEF Respond, IInv, TypeOK
  <1>2. dirty' = (dirty \/ TokenRules # {})
    BY DEF Respond, Touched
  <1>3. ledger' \in [Counters -> Lists] /\ LossIsRecent'
    BY <1>1, <1>2, Charge DEF Respond, TokenRules, IInv, TypeOK
  <1>4. flight' \in [Requests -> Keys \cup {None}]
    BY DEF Respond, IInv, TypeOK
  <1>. QED BY <1>2, <1>3, <1>4 DEF Respond, IInv, TypeOK, disk

LEMMA EndStep == ASSUME IInv, NEW r \in Requests, EndWithoutUsage(r) PROVE IInv'
  BY DEF EndWithoutUsage, IInv, TypeOK, LossIsRecent, disk

LEMMA WakeStep == ASSUME IInv, Wake PROVE IInv'
  <1>1. /\ saved' = saved \/ saved' = [c \in Counters |-> Newest(ledger[c])]
        /\ whole' \in BOOLEAN
        /\ UNCHANGED <<rules, ledger, flight, edits, restarts, sent, since>>
        /\ dirty' = FALSE /\ phase' = 0
    BY DEF Wake, Flush, disk, IInv, TypeOK
  <1>2. saved' \in [Counters -> Lists] /\ phase' \in 0..Period
    BY <1>1, FileType, LimiterAssumption DEF IInv
  <1>3. TypeOK'
    BY <1>1, <1>2 DEF IInv, TypeOK
  <1>4. whole' => \A c \in Counters, a \in Ages : saved'[c][a] = ledger[c][a]
    BY DEF Wake, Flush, disk, IInv, LossIsRecent
  <1>. QED BY <1>1, <1>3, <1>4 DEF IInv, LossIsRecent

LEMMA LoadStep == ASSUME IInv, Crash \/ Shutdown PROVE IInv'
  <1>1. Load /\ (saved' = saved \/ saved' = [c \in Counters |-> Newest(ledger[c])])
    BY DEF Crash, Shutdown
  <1>2. TypeOK'
    <2>1. saved' \in [Counters -> Lists] /\ ledger' = saved'
      BY <1>1, FileType DEF Load, IInv
    <2>2. since' \in [AllRules -> 0..Longest]
      BY <1>1, RuleFacts DEF Load
    <2>3. phase' \in 0..Period /\ restarts' \in 0..MaxRestarts
      BY <1>1, LimiterAssumption DEF Load, IInv, TypeOK
    <2>4. flight' \in [Requests -> Keys \cup {None}]
      BY <1>1 DEF Load, NoneInFlight
    <2>5. dirty' = FALSE /\ whole' = TRUE /\ UNCHANGED <<rules, edits, sent>>
      BY <1>1 DEF Load
    <2>. QED BY <2>1, <2>2, <2>3, <2>4, <2>5 DEF IInv, TypeOK
  <1>3. LossIsRecent'
    BY <1>1 DEF Load, LossIsRecent
  <1>. QED BY <1>2, <1>3 DEF IInv

LEMMA ConfigureStep == ASSUME IInv, Configure PROVE IInv'
  <1>1. since' \in [AllRules -> 0..Longest]
    BY RuleFacts DEF Configure, IInv, TypeOK
  <1>2. edits' \in 0..MaxEdits
    BY LimiterAssumption DEF Configure, IInv, TypeOK
  <1>. QED BY <1>1, <1>2 DEF Configure, CountersKept, IInv, TypeOK, LossIsRecent, disk

LEMMA TickStep == ASSUME IInv, Tick PROVE IInv'
  <1>1. phase' \in 0..Period /\ phase' = phase + 1 /\ phase \in Nat
    BY LimiterAssumption DEF Tick, Due, IInv, TypeOK
  <1>2. /\ ledger' \in [Counters -> Lists] /\ saved' \in [Counters -> Lists]
        /\ sent' \in [Keys -> Lists]
    BY OlderType DEF Tick, IInv, TypeOK
  <1>3. since' \in [AllRules -> 0..Longest]
    <2>1. \A rule \in AllRules : rule.window \in 1..Longest /\ since[rule] \in 0..Longest
      BY LimiterAssumption DEF IInv, TypeOK
    <2>2. since' = [rule \in AllRules |-> IF rule \in rules /\ since[rule] < rule.window
                                          THEN since[rule] + 1 ELSE since[rule]]
      BY DEF Tick
    <2>. QED BY <2>1, <2>2, LimiterAssumption
  <1>4. TypeOK'
    BY <1>1, <1>2, <1>3 DEF Tick, IInv, TypeOK
  <1>5. ASSUME whole', NEW c \in Counters, NEW a \in Ages, a > phase' \/ ~dirty'
        PROVE  saved'[c][a] = ledger'[c][a]
    <2>1. /\ saved'[c] = Older(saved[c], c.window) /\ ledger'[c] = Older(ledger[c], c.window)
          /\ whole /\ (a > phase + 1 \/ ~dirty)
      BY <1>1, <1>5 DEF Tick
    <2>2. a # 0 => saved[c][a - 1] = ledger[c][a - 1]
      BY <1>1, <2>1, AgeFacts DEF IInv, LossIsRecent
    <2>. QED BY <2>1, <2>2 DEF Older
  <1>. QED BY <1>4, <1>5 DEF IInv, LossIsRecent

LEMMA NextIInv == IInv /\ [Next]_vars => IInv'
  <1>. SUFFICES ASSUME IInv, [Next]_vars PROVE IInv'
    OBVIOUS
  <1>1. CASE UNCHANGED vars
    BY <1>1 DEF vars, IInv, TypeOK, LossIsRecent, disk
  <1>2. CASE Next
    BY <1>2, AdmitStep, RespondStep, EndStep, WakeStep, LoadStep, ConfigureStep, TickStep
       DEF Next
  <1>. QED BY <1>1, <1>2

-----------------------------------------------------------------------------
(* The quotas *)

\* A request rule has counted at least what was sent since it has kept count, at each age,
\* and no more than it allows.
Covered ==
    \A rule \in rules, k \in Keys : rule.counts = "requests" =>
        \A s \in 0..since[rule] :
            /\ Cardinality(SentWithin(rule, k, s)) <= Recent(ledger[CounterOf(rule, k)], s)
            /\ Cardinality(SentWithin(rule, k, s)) <= rule.max

\* What may still be answered with a key of a bucket is covered by the room for overshoot
\* that is left.
InFlight(rule, k) == {r \in Requests : flight[r] # None /\ flight[r] \in Sharing(rule, k)}
Contained ==
    \A rule \in rules, k \in Keys : rule.counts = "tokens" =>
        Recent(ledger[CounterOf(rule, k)], since[rule]) + Cardinality(InFlight(rule, k))
            < rule.max + Cardinality(Requests)

\* A rule keeps count for no longer than its window.
Clocked == \A rule \in AllRules : since[rule] <= rule.window

\* The rules under which a call of key k adds to counter c.
Asking(k, what, c) == {rule \in rules : rule.counts = what /\ CounterOf(rule, k) = c}

LEMMA RuleTypes ==
    ASSUME TypeOK, NEW rule \in rules
    PROVE  /\ rule \in AllRules /\ rule.window \in 1..Longest /\ rule.max \in Nat \ {0}
           /\ since[rule] \in 0..Longest
           /\ \A k \in Keys : /\ CounterOf(rule, k) \in Counters
                              /\ CounterOf(rule, k).window = rule.window
                              /\ CounterOf(rule, k).counts = rule.counts
  <1>1. rule \in AllRules
    BY DEF TypeOK, AllRules
  <1>. QED BY <1>1, LimiterAssumption DEF TypeOK, Counters, CounterOf

LEMMA SharingFacts ==
    ASSUME NEW rule, NEW j, NEW k \in Keys
    PROVE  k \in Sharing(rule, j) <=> CounterOf(rule, k) = CounterOf(rule, j)
  BY DEF Sharing

LEMMA CountedPlus ==
    ASSUME TypeOK, NEW k, NEW what, NEW c \in Counters
    PROVE  /\ Counted(k, what)[c] = Plus(ledger[c], Cardinality(Asking(k, what, c)))
           /\ IsFiniteSet(Asking(k, what, c)) /\ Cardinality(Asking(k, what, c)) \in Nat
  <1>1. IsFiniteSet(rules)
    BY LimiterAssumption DEF TypeOK
  <1>2. Asking(k, what, c) \subseteq rules
    BY DEF Asking
  <1>. QED BY <1>1, <1>2, FS_Subset, FS_CardinalityType DEF Counted, Asking, Plus

\* A window that starts now has seen nothing of anybody.
LEMMA NothingSeen ==
    ASSUME TypeOK, NEW rule, NEW k
    PROVE  /\ \A list : Recent(list, 0) = 0
           /\ Cardinality(SentWithin(rule, k, 0)) = 0
           /\ Cardinality(SentWithin(rule, k, 0)') = 0
  <1>1. SentWithin(rule, k, 0)' = {}
    BY SentInNext, RecentOfNothing
  <1>. QED BY <1>1, RecentOfNothing, SentNever, FS_EmptySet

LEMMA CoveredInit == Init => Clocked /\ Covered /\ Contained
  <1>. SUFFICES ASSUME Init PROVE Clocked /\ Covered /\ Contained
    OBVIOUS
  <1>1. TypeOK
    BY InitIInv DEF IInv
  <1>2. \A w \in 0..Longest : Entries(Empty, w) = {} /\ Recent(Empty, w) = 0
    <2>. SUFFICES ASSUME NEW w \in 0..Longest PROVE Entries(Empty, w) = {} /\ Recent(Empty, w) = 0
      OBVIOUS
    <2>1. \A a \in 0..(w - 1) : Empty[a] = 0
      BY LimiterAssumption DEF Empty, Ages
    <2>2. Entries(Empty, w) = {}
      BY <2>1, EntryIn
    <2>. QED BY <2>2, FS_EmptySet DEF Recent
  <1>3. ASSUME NEW rule, NEW k, NEW w \in 0..Longest PROVE Cardinality(SentWithin(rule, k, w)) = 0
    <2>1. \A other \in Sharing(rule, k) : sent[other] = Empty
      BY SharingFinite DEF Init
    <2>2. SentWithin(rule, k, w) = {}
      BY <1>2, <2>1, SentIn
    <2>. QED BY <2>2, FS_EmptySet
  <1>4. Clocked
    BY LimiterAssumption DEF Init, Clocked
  <1>5. Covered
    <2>. SUFFICES ASSUME NEW rule \in rules, NEW k \in Keys, NEW s \in 0..since[rule]
                  PROVE  /\ Cardinality(SentWithin(rule, k, s))
                                <= Recent(ledger[CounterOf(rule, k)], s)
                         /\ Cardinality(SentWithin(rule, k, s)) <= rule.max
      BY RuleTypes, <1>1 DEF Covered
    <2>0. since[rule] \in 0..Longest /\ rule.max \in Nat
      BY RuleTypes, <1>1
    <2>1. s \in 0..Longest /\ since[rule] \in 0..Longest /\ rule.max \in Nat
      BY <2>0, LimiterAssumption
    <2>2. ledger[CounterOf(rule, k)] = Empty
      BY RuleTypes, <1>1 DEF Init
    <2>. QED BY <1>2, <1>3, <2>1, <2>2
  <1>6. Contained
    <2>. SUFFICES ASSUME NEW rule \in rules, NEW k \in Keys
                  PROVE  Recent(ledger[CounterOf(rule, k)], since[rule])
                            + Cardinality(InFlight(rule, k)) < rule.max + Cardinality(Requests)
      BY DEF Contained
    <2>1. ledger[CounterOf(rule, k)] = Empty /\ since[rule] \in 0..Longest /\ rule.max \in Nat \ {0}
      BY RuleTypes, <1>1 DEF Init
    <2>2. InFlight(rule, k) = {}
      BY DEF InFlight, Init, NoneInFlight
    <2>3. Cardinality(Requests) \in Nat
      BY LimiterAssumption, FS_CardinalityType
    <2>. QED BY <1>2, <2>1, <2>2, <2>3, FS_EmptySet
  <1>. QED BY <1>4, <1>5, <1>6

LEMMA ClockedNext == ASSUME IInv, Clocked, [Next]_vars PROVE Clocked'
  <1>1. \A rule \in AllRules : rule.window \in 1..Longest /\ since[rule] \in 0..Longest
    BY LimiterAssumption DEF IInv, TypeOK
  <1>2. CASE since' = since
    BY <1>2 DEF Clocked
  <1>3. CASE Configure
    BY <1>1, <1>3 DEF Configure, Clocked
  <1>4. CASE Load
    BY <1>1, <1>4 DEF Load, Clocked
  <1>5. CASE Tick
    <2>1. ASSUME NEW rule \in AllRules PROVE since'[rule] <= rule.window
      <3>1. since'[rule] = IF rule \in rules /\ since[rule] < rule.window
                           THEN since[rule] + 1 ELSE since[rule]
        BY <1>5 DEF Tick
      <3>. QED BY <1>1, <3>1 DEF Clocked
    <2>. QED BY <2>1 DEF Clocked
  <1>. QED BY <1>2, <1>3, <1>4, <1>5
           DEF Next, Admit, Respond, EndWithoutUsage, Wake, Crash, Shutdown, vars

\* An answer makes the counters of requests no smaller, an admission counts itself.
LEMMA CoveredCharge ==
    ASSUME IInv, Clocked, Covered, NEW k \in Keys, NEW what, ledger' = Counted(k, what),
           UNCHANGED <<rules, since>>,
           \/ sent' = sent
           \/ what = "requests" /\ Open(k) /\ sent' = [sent EXCEPT ![k][0] = @ + 1]
    PROVE  Covered'
  <1>. SUFFICES ASSUME NEW rule \in rules, NEW j \in Keys, rule.counts = "requests"
                PROVE  \A s \in 0..since[rule] :
                           /\ Cardinality(SentWithin(rule, j, s)')
                                <= Recent(ledger'[CounterOf(rule, j)], s)
                           /\ Cardinality(SentWithin(rule, j, s)') <= rule.max
    BY DEF Covered
  <1> DEFINE c == CounterOf(rule, j)
             n == Cardinality(Asking(k, what, c))
  <1>1. /\ TypeOK /\ c \in Counters /\ rule.window \in 1..Longest /\ rule.max \in Nat \ {0}
        /\ since[rule] \in 0..rule.window /\ ledger[c] \in Lists /\ sent \in [Keys -> Lists]
        /\ Longest \in Nat /\ \A s \in 0..since[rule] : s \in 0..Longest
    <2>1. /\ TypeOK /\ c \in Counters /\ rule.window \in 1..Longest /\ rule.max \in Nat \ {0}
          /\ since[rule] \in 0..Longest /\ since[rule] <= rule.window
          /\ ledger[c] \in Lists /\ sent \in [Keys -> Lists]
      BY RuleTypes DEF IInv, TypeOK, Clocked
    <2>2. Longest \in Nat
      BY LimiterAssumption
    <2>. QED BY <2>1, <2>2
  <1>2. ledger'[c] = Plus(ledger[c], n) /\ n \in Nat
    BY <1>1, CountedPlus
  <1>3. \A s \in 0..since[rule] :
            /\ s \in 0..Longest
            /\ Cardinality(SentWithin(rule, j, s)) \in Nat
            /\ Cardinality(SentWithin(rule, j, s)) <= Recent(ledger[c], s)
            /\ Recent(ledger[c], s) \in Nat
    <2>1. \A s \in 0..since[rule] :
              Cardinality(SentWithin(rule, j, s)) <= Recent(ledger[c], s)
      BY DEF Covered
    <2>2. ASSUME NEW s \in 0..since[rule]
          PROVE  Cardinality(SentWithin(rule, j, s)) \in Nat /\ Recent(ledger[c], s) \in Nat
      BY <1>1, EntriesFinite, SentFinite
    <2>. QED BY <1>1, <2>1, <2>2
  <1>4. \A s \in 0..since[rule] : Cardinality(SentWithin(rule, j, s)) <= rule.max
    BY DEF Covered
  <1>5. \A s \in 1..since[rule] :
            /\ s \in 1..Longest
            /\ Recent(ledger'[c], s) \in Nat
            /\ Recent(ledger'[c], s) >= Recent(ledger[c], s)
            /\ n >= 1 => Recent(ledger'[c], s) >= Recent(ledger[c], s) + 1
    <2>. SUFFICES ASSUME NEW s \in 1..since[rule]
                  PROVE  /\ s \in 1..Longest
                         /\ Recent(ledger'[c], s) \in Nat
                         /\ Recent(ledger'[c], s) >= Recent(ledger[c], s)
                         /\ n >= 1 => Recent(ledger'[c], s) >= Recent(ledger[c], s) + 1
      OBVIOUS
    <2>1. s \in 1..Longest /\ s \in 0..Longest
      BY <1>1
    <2>2. ledger'[c] \in Lists
      BY <1>1, <1>2, <2>1, RecentPlus
    <2>3. Recent(ledger'[c], s) \in Nat /\ Recent(ledger[c], s) \in Nat
      BY <1>1, <2>1, <2>2, EntriesFinite
    <2>. QED BY <1>1, <1>2, <2>1, <2>3, RecentPlus, SMTT(30)
  <1>6. /\ Cardinality(SentWithin(rule, j, 0)') = 0 /\ Recent(ledger'[c], 0) = 0
    BY <1>1, NothingSeen
  <1>7. CASE sent' = sent
    <2>1. \A s \in 0..since[rule] : SentWithin(rule, j, s)' = SentWithin(rule, j, s)
      BY <1>7 DEF SentWithin, Sharing
    <2>2. \A s \in 1..since[rule] : Cardinality(SentWithin(rule, j, s)') <= Recent(ledger'[c], s)
      BY <1>1, <1>3, <1>5, <2>1
    <2>3. \A s \in 0..since[rule] : s = 0 \/ s \in 1..since[rule]
      BY <1>1
    <2>. QED BY <1>1, <1>4, <1>6, <2>1, <2>2, <2>3
  <1>8. CASE /\ what = "requests" /\ Open(k) /\ sent' = [sent EXCEPT ![k][0] = @ + 1]
             /\ k \notin Sharing(rule, j)
    <2>0. sent \in [Keys -> Lists] /\ k \in Keys
      BY <1>1
    <2>1. \A s : SentWithin(rule, j, s)' = SentWithin(rule, j, s)
      BY ONLY <1>8, <2>0, SentElsewhere, ZenonT(30)
    <2>2. \A s \in 1..since[rule] : Cardinality(SentWithin(rule, j, s)') <= Recent(ledger'[c], s)
      BY <1>1, <1>3, <1>5, <2>1
    <2>3. \A s \in 0..since[rule] : s = 0 \/ s \in 1..since[rule]
      BY <1>1
    <2>. QED BY <1>1, <1>4, <1>6, <2>1, <2>2, <2>3
  <1>9. CASE /\ what = "requests" /\ Open(k) /\ sent' = [sent EXCEPT ![k][0] = @ + 1]
             /\ k \in Sharing(rule, j)
    <2>1. n >= 1
      <3>1. rule \in Asking(k, what, c)
        BY <1>9, SharingFacts DEF Asking
      <3>2. n # 0
        BY <1>1, <3>1, CountedPlus, FS_EmptySet
      <3>. QED BY <1>2, <3>2
    <2>2. \A s \in 1..since[rule] : Cardinality(SentWithin(rule, j, s)')
                                        <= Cardinality(SentWithin(rule, j, s)) + 1
      BY <1>1, <1>5, <1>9, SentGrows
    <2>3. \A s \in 1..since[rule] : Cardinality(SentWithin(rule, j, s)') \in Nat
      <3>1. sent' \in [Keys -> Lists]
        BY <1>1, <1>9, AgeFacts DEF Lists
      <3>. QED BY <1>1, <1>5, <3>1, SentFiniteNext
    <2>4. \A s \in 1..since[rule] : Cardinality(SentWithin(rule, j, s)') <= Recent(ledger'[c], s)
      BY <1>1, <1>3, <1>5, <2>1, <2>2, <2>3
    <2>5. \A s \in 0..since[rule] : s = 0 \/ s \in 1..since[rule]
      BY <1>1
    <2>6. \A s \in 1..since[rule] : Cardinality(SentWithin(rule, j, s)') <= rule.max
      <3>1. Recent(ledger[c], rule.window) < rule.max
        BY <1>9, SharingFacts DEF Open, HasRoom
      <3>2. \A s \in 0..since[rule] : Recent(ledger[c], s) <= Recent(ledger[c], rule.window)
        <4>1. \A s \in 0..since[rule] : s \in 0..rule.window
          BY <1>1
        <4>. QED BY <1>1, <4>1, RecentGrows
      <3>3. Recent(ledger[c], rule.window) \in Nat
        BY <1>1, EntriesFinite
      <3>. QED BY <1>1, <1>3, <2>2, <2>3, <3>1, <3>2, <3>3
    <2>. QED BY <1>1, <1>6, <2>4, <2>5, <2>6
  <1>. QED BY <1>7, <1>8, <1>9

LEMMA CoveredTick == ASSUME IInv, Clocked, Covered, Tick PROVE Covered'
  <1>. SUFFICES ASSUME NEW rule \in rules, NEW j \in Keys, rule.counts = "requests"
                PROVE  \A s \in 0..since'[rule] :
                           /\ Cardinality(SentWithin(rule, j, s)')
                                <= Recent(ledger'[CounterOf(rule, j)], s)
                           /\ Cardinality(SentWithin(rule, j, s)') <= rule.max
    <2>1. rules' = rules
      BY DEF Tick
    <2>. QED BY <2>1 DEF Covered
  <1> DEFINE c == CounterOf(rule, j)
  <1>1. /\ TypeOK /\ c \in Counters /\ c.window = rule.window
        /\ rule.window \in 1..Longest /\ rule.max \in Nat \ {0} /\ Longest \in Nat
        /\ since[rule] \in 0..rule.window /\ ledger[c] \in Lists /\ sent \in [Keys -> Lists]
    <2>1. /\ TypeOK /\ c \in Counters /\ c.window = rule.window
          /\ rule.window \in 1..Longest /\ rule.max \in Nat \ {0}
          /\ since[rule] \in 0..Longest /\ since[rule] <= rule.window
          /\ ledger[c] \in Lists /\ sent \in [Keys -> Lists]
      BY RuleTypes DEF IInv, TypeOK, Clocked
    <2>2. Longest \in Nat
      BY LimiterAssumption
    <2>. QED BY <2>1, <2>2
  <1>2. /\ sent' = [o \in Keys |-> Older(sent[o], Longest)]
        /\ ledger'[c] = Older(ledger[c], rule.window)
    BY <1>1 DEF Tick
  <1>3. /\ since'[rule] \in 0..rule.window
        /\ \A s \in 1..since'[rule] : s - 1 \in 0..since[rule]
        /\ since'[rule] # 0 => since'[rule] - 1 <= since[rule]
    <2>1. since'[rule] = IF since[rule] < rule.window THEN since[rule] + 1 ELSE since[rule]
      <3>1. rule \in AllRules
        BY <1>1, RuleTypes
      <3>. QED BY <3>1 DEF Tick
    <2>. QED BY <1>1, <2>1
  <1>4. ASSUME NEW s \in 1..since'[rule]
        PROVE  /\ Cardinality(SentWithin(rule, j, s)') <= Cardinality(SentWithin(rule, j, s - 1))
               /\ Recent(ledger'[c], s) = Recent(ledger[c], s - 1)
               /\ Cardinality(SentWithin(rule, j, s)') \in Nat
               /\ Cardinality(SentWithin(rule, j, s - 1)) \in Nat
               /\ Recent(ledger[c], s - 1) \in Nat
    <2>1. s \in 1..rule.window /\ s \in 1..Longest /\ s \in 0..Longest /\ s - 1 \in 0..Longest
      BY <1>1, <1>3
    <2>2. Cardinality(SentWithin(rule, j, s)') <= Cardinality(SentWithin(rule, j, s - 1))
      <3>1. sent \in [Keys -> Lists]
        BY <1>1
      <3>. QED BY <1>2, <2>1, <3>1, SentAges
    <2>3. Recent(ledger'[c], s) = Recent(ledger[c], s - 1)
      <3>1. ledger[c] \in Lists /\ rule.window \in 1..Longest
        BY <1>1
      <3>. QED BY <1>2, <2>1, <3>1, RecentAges
    <2>4. sent' \in [Keys -> Lists]
      BY <1>1, <1>2, OlderType
    <2>5. Cardinality(SentWithin(rule, j, s)') \in Nat
      BY <2>1, <2>4, SentFiniteNext
    <2>6. Cardinality(SentWithin(rule, j, s - 1)) \in Nat
      BY <1>1, <2>1, SentFinite
    <2>7. Recent(ledger[c], s - 1) \in Nat
      BY <1>1, <2>1, EntriesFinite
    <2>. QED BY <2>2, <2>3, <2>5, <2>6, <2>7
  <1>5. Cardinality(SentWithin(rule, j, 0)') = 0 /\ Recent(ledger'[c], 0) = 0
    BY <1>1, NothingSeen
  <1>6. ASSUME NEW s \in 0..since'[rule]
        PROVE  /\ Cardinality(SentWithin(rule, j, s)') <= Recent(ledger'[c], s)
               /\ Cardinality(SentWithin(rule, j, s)') <= rule.max
    <2>1. CASE s = 0
      BY <1>1, <1>5, <2>1
    <2>2. CASE s # 0
      <3>1. s \in 1..since'[rule]
        BY <1>3, <2>2
      <3>2. /\ Cardinality(SentWithin(rule, j, s - 1)) <= Recent(ledger[c], s - 1)
            /\ Cardinality(SentWithin(rule, j, s - 1)) <= rule.max
        BY <1>3, <3>1 DEF Covered
      <3>. QED BY <1>1, <1>4, <3>1, <3>2
    <2>. QED BY <2>1, <2>2
  <1>. QED BY <1>6

LEMMA CoveredNext == ASSUME IInv, Clocked, Covered, [Next]_vars PROVE Covered'
  <1>1. CASE UNCHANGED <<rules, ledger, sent, since>>
    BY <1>1 DEF Covered, SentWithin, Sharing
  <1>2. ASSUME NEW r \in Requests, NEW k \in Keys, Admit(r, k) PROVE Covered'
    BY <1>2, CoveredCharge DEF Admit
  <1>3. ASSUME NEW r \in Requests, Respond(r) PROVE Covered'
    <2>1. flight[r] \in Keys
      BY <1>3 DEF Respond, IInv, TypeOK
    <2>. QED BY <1>3, <2>1, CoveredCharge DEF Respond
  <1>4. CASE Load
    <2>1. TypeOK'
      BY <1>4, NextIInv DEF IInv
    <2>2. \A rule \in rules' : rule \in AllRules /\ rule.max \in Nat \ {0}
      BY <1>4, RuleTypes DEF Load, IInv
    <2>3. \A rule \in rules' : since'[rule] = 0
      BY <1>4, <2>2 DEF Load
    <2>4. \A rule \in rules' : \A s \in 0..since'[rule] : s = 0
      BY <2>3
    <2>. QED BY <2>2, <2>4, NothingSeen DEF Covered, IInv
  <1>5. CASE Configure
    <2>. SUFFICES ASSUME NEW rule \in rules', NEW j \in Keys, rule.counts = "requests"
                  PROVE  \A s \in 0..since'[rule] :
                             /\ Cardinality(SentWithin(rule, j, s)')
                                  <= Recent(ledger'[CounterOf(rule, j)], s)
                             /\ Cardinality(SentWithin(rule, j, s)') <= rule.max
      BY DEF Covered
    <2>1. rule \in AllRules /\ rule.max \in Nat \ {0}
      BY <1>5, LimiterAssumption DEF Configure, AllRules
    <2>2. UNCHANGED <<ledger, sent>>
      BY <1>5 DEF Configure, CountersKept
    <2>3. \A s : SentWithin(rule, j, s)' = SentWithin(rule, j, s)
      BY <2>2 DEF SentWithin, Sharing
    <2>4. CASE since'[rule] = 0
      <3>1. \A s \in 0..since'[rule] : s = 0
        BY <2>4
      <3>. QED BY <2>1, <3>1, NothingSeen DEF IInv
    <2>5. CASE since'[rule] # 0
      <3>1. rule \in rules /\ since'[rule] = since[rule]
        BY <1>5, <2>1, <2>5 DEF Configure
      <3>. QED BY <2>2, <2>3, <3>1 DEF Covered
    <2>. QED BY <2>4, <2>5
  <1>6. CASE Tick
    BY <1>6, CoveredTick
  <1>. QED BY <1>1, <1>2, <1>3, <1>4, <1>5, <1>6
           DEF Next, EndWithoutUsage, Wake, Crash, Shutdown, vars

\* No two rules of a plan cap the same thing in the same windows.  (Where two do, they share
\* a list, and what a call uses is entered once for each of them.)
OneRuleEach ==
    \A plan \in Plans : \A one, other \in plan :
        /\ one.scope = other.scope /\ one.counts = other.counts /\ one.window = other.window
        => one = other

LEMMA RoomForAll == Cardinality(Requests) \in Nat
  BY LimiterAssumption, FS_CardinalityType

LEMMA InFlightFinite ==
    ASSUME NEW rule, NEW k
    PROVE  /\ IsFiniteSet(InFlight(rule, k)) /\ Cardinality(InFlight(rule, k)) \in Nat
           /\ IsFiniteSet(InFlight(rule, k)') /\ Cardinality(InFlight(rule, k)') \in Nat
           /\ Cardinality(InFlight(rule, k)) <= Cardinality(Requests)
           /\ Cardinality(InFlight(rule, k)') <= Cardinality(Requests)
  <1>1. InFlight(rule, k) \subseteq Requests /\ InFlight(rule, k)' \subseteq Requests
    BY DEF InFlight
  <1>2. IsFiniteSet(Requests)
    BY LimiterAssumption
  <1>. QED BY <1>1, <1>2, FS_Subset, FS_CardinalityType

\* What is in flight for a bucket does not grow unless a request of it is admitted.
LEMMA FewerInFlight ==
    ASSUME NEW rule, NEW k, InFlight(rule, k)' \subseteq InFlight(rule, k)
    PROVE  Cardinality(InFlight(rule, k)') <= Cardinality(InFlight(rule, k))
  BY InFlightFinite, FS_Subset

LEMMA ContainedAdmit ==
    ASSUME IInv, Clocked, Contained, NEW r \in Requests, NEW k \in Keys, Admit(r, k)
    PROVE  Contained'
  <1>0. UNCHANGED <<rules, since>>
    BY DEF Admit
  <1>. SUFFICES ASSUME NEW rule \in rules, NEW j \in Keys, rule.counts = "tokens"
                PROVE  Recent(ledger'[CounterOf(rule, j)], since[rule])
                          + Cardinality(InFlight(rule, j)') < rule.max + Cardinality(Requests)
    BY <1>0 DEF Contained
  <1> DEFINE c == CounterOf(rule, j)
  <1>1. /\ TypeOK /\ c \in Counters /\ c.counts = "tokens"
        /\ rule.window \in 1..Longest /\ rule.max \in Nat \ {0}
        /\ since[rule] \in 0..rule.window /\ ledger[c] \in Lists
    BY RuleTypes DEF IInv, TypeOK, Clocked
  <1>2. ledger'[c] = ledger[c]
    <2>1. ledger'[c] = Plus(ledger[c], Cardinality(Asking(k, "requests", c)))
      BY <1>1, CountedPlus DEF Admit
    <2>2. Asking(k, "requests", c) = {}
      BY <1>1 DEF Asking, CounterOf
    <2>3. Plus(ledger[c], 0) = ledger[c]
      BY <1>1, AgeFacts DEF Plus, Lists
    <2>. QED BY <2>1, <2>2, <2>3, FS_EmptySet
  <1>3. /\ since[rule] \in 0..Longest
        /\ Recent(ledger[c], since[rule]) \in Nat
        /\ Recent(ledger[c], since[rule]) + Cardinality(InFlight(rule, j))
              < rule.max + Cardinality(Requests)
    <2>1. since[rule] \in 0..Longest
      BY <1>1, RuleTypes
    <2>. QED BY <1>1, <2>1, EntriesFinite DEF Contained
  <1>4. CASE k \in Sharing(rule, j)
    <2>1. Recent(ledger[c], rule.window) < rule.max
      BY <1>4, SharingFacts DEF Admit, Open, HasRoom
    <2>2. Recent(ledger[c], since[rule]) <= Recent(ledger[c], rule.window)
      <3>1. rule.window \in 0..Longest
        BY <1>1
      <3>. QED BY <1>1, <3>1, RecentGrows
    <2>3. Recent(ledger[c], rule.window) \in Nat
      BY <1>1, EntriesFinite
    <2>. QED BY <1>1, <1>2, <1>3, <2>1, <2>2, <2>3, InFlightFinite, RoomForAll
  <1>5. CASE k \notin Sharing(rule, j)
    <2>1. InFlight(rule, j)' \subseteq InFlight(rule, j)
      BY <1>5 DEF Admit, InFlight, Sharing, IInv, TypeOK
    <2>. QED BY <1>1, <1>2, <1>3, <2>1, FewerInFlight, InFlightFinite, RoomForAll
  <1>. QED BY <1>4, <1>5

LEMMA ContainedRespond ==
    ASSUME OneRuleEach, IInv, Clocked, Contained, NEW r \in Requests, Respond(r)
    PROVE  Contained'
  <1>0. UNCHANGED <<rules, since>>
    BY DEF Respond
  <1>. SUFFICES ASSUME NEW rule \in rules, NEW j \in Keys, rule.counts = "tokens"
                PROVE  Recent(ledger'[CounterOf(rule, j)], since[rule])
                          + Cardinality(InFlight(rule, j)') < rule.max + Cardinality(Requests)
    BY <1>0 DEF Contained
  <1> DEFINE c == CounterOf(rule, j)
             k == flight[r]
             n == Cardinality(Asking(k, "tokens", c))
  <1>1. /\ TypeOK /\ c \in Counters /\ k \in Keys /\ k # None
        /\ rule.window \in 1..Longest /\ rule.max \in Nat \ {0}
        /\ since[rule] \in 0..rule.window /\ since[rule] \in 0..Longest /\ ledger[c] \in Lists
    BY RuleTypes DEF IInv, TypeOK, Clocked, Respond
  <1>2. ledger'[c] = Plus(ledger[c], n) /\ n \in Nat
    BY <1>1, CountedPlus DEF Respond
  <1>3. /\ Recent(ledger[c], since[rule]) \in Nat
        /\ Recent(ledger[c], since[rule]) + Cardinality(InFlight(rule, j))
              < rule.max + Cardinality(Requests)
    BY <1>1, EntriesFinite DEF Contained
  <1>4. Recent(ledger[c], 0) = 0 /\ Recent(ledger'[c], 0) = 0
    BY <1>1, NothingSeen
  <1>5. InFlight(rule, j)' \subseteq InFlight(rule, j)
    BY DEF Respond, InFlight, Sharing, IInv, TypeOK
  <1>6. Asking(k, "tokens", c) \subseteq {rule}
    <2>. SUFFICES ASSUME NEW other \in Asking(k, "tokens", c) PROVE other = rule
      OBVIOUS
    <2>1. other \in rules /\ other.counts = rule.counts /\ CounterOf(other, k) = c
      BY DEF Asking
    <2>2. other.scope = rule.scope /\ other.window = rule.window
      BY <2>1 DEF CounterOf
    <2>3. rules \in Plans
      BY <1>1 DEF TypeOK
    <2>. QED BY <2>1, <2>2, <2>3 DEF OneRuleEach
  <1>7. CASE since[rule] = 0
    BY <1>1, <1>3, <1>4, <1>5, <1>7, FewerInFlight, InFlightFinite, RoomForAll
  <1>8. CASE since[rule] # 0 /\ k \in Sharing(rule, j)
    <2>1. n <= 1
      <3>1. Cardinality({rule}) = 1 /\ IsFiniteSet({rule})
        BY FS_Singleton
      <3>. QED BY <1>6, <3>1, FS_Subset
    <2>2. since[rule] \in 1..Longest
      BY <1>1, <1>8
    <2>3. Recent(ledger'[c], since[rule]) <= Recent(ledger[c], since[rule]) + 1
      <3>1. CASE n = 0
        BY <1>1, <1>2, <1>3, <2>2, <3>1, RecentPlus
      <3>2. CASE n = 1
        BY <1>1, <1>2, <1>3, <2>2, <3>2, RecentPlus
      <3>. QED BY <1>2, <2>1, <3>1, <3>2
    <2>4. Recent(ledger'[c], since[rule]) \in Nat
      <3>1. ledger'[c] \in Lists
        BY <1>1, <1>2, <2>2, RecentPlus
      <3>. QED BY <1>1, <3>1, EntriesFinite
    <2>5. r \in InFlight(rule, j) /\ InFlight(rule, j)' \subseteq InFlight(rule, j) \ {r}
      BY <1>1, <1>5, <1>8 DEF Respond, InFlight, IInv, TypeOK
    <2>6. Cardinality(InFlight(rule, j)') <= Cardinality(InFlight(rule, j)) - 1
      <3>1. /\ IsFiniteSet(InFlight(rule, j) \ {r})
            /\ Cardinality(InFlight(rule, j) \ {r}) = Cardinality(InFlight(rule, j)) - 1
        BY <2>5, InFlightFinite, FS_RemoveElement
      <3>. QED BY <2>5, <3>1, FS_Subset
    <2>. QED BY <1>1, <1>3, <2>3, <2>4, <2>6, InFlightFinite, RoomForAll
  <1>9. CASE since[rule] # 0 /\ k \notin Sharing(rule, j)
    <2>1. rule \notin Asking(k, "tokens", c)
      BY <1>1, <1>9, SharingFacts DEF Asking
    <2>2. n = 0
      BY <1>6, <2>1, FS_EmptySet
    <2>3. since[rule] \in 1..Longest
      BY <1>1, <1>9
    <2>4. Recent(ledger'[c], since[rule]) = Recent(ledger[c], since[rule])
      BY <1>1, <1>2, <2>2, <2>3, RecentPlus
    <2>. QED BY <1>1, <1>3, <1>5, <2>4, FewerInFlight, InFlightFinite, RoomForAll
  <1>. QED BY <1>7, <1>8, <1>9

LEMMA ContainedTick == ASSUME IInv, Clocked, Contained, Tick PROVE Contained'
  <1>0. UNCHANGED <<rules, flight>>
    BY DEF Tick
  <1>. SUFFICES ASSUME NEW rule \in rules, NEW j \in Keys, rule.counts = "tokens"
                PROVE  Recent(ledger'[CounterOf(rule, j)], since'[rule])
                          + Cardinality(InFlight(rule, j)') < rule.max + Cardinality(Requests)
    BY <1>0 DEF Contained
  <1> DEFINE c == CounterOf(rule, j)
  <1>1. /\ TypeOK /\ rule \in AllRules /\ c \in Counters /\ c.window = rule.window
        /\ rule.window \in 1..Longest /\ rule.max \in Nat \ {0}
        /\ since[rule] \in 0..rule.window /\ since[rule] \in 0..Longest /\ ledger[c] \in Lists
    BY RuleTypes DEF IInv, TypeOK, Clocked
  <1>2. ledger'[c] = Older(ledger[c], rule.window)
    BY <1>1 DEF Tick
  <1>3. /\ since'[rule] \in 0..rule.window
        /\ since'[rule] # 0 => since'[rule] - 1 \in 0..since[rule]
    <2>1. since'[rule] = IF since[rule] < rule.window THEN since[rule] + 1 ELSE since[rule]
      BY <1>1 DEF Tick
    <2>. QED BY <1>1, <2>1
  <1>4. InFlight(rule, j)' = InFlight(rule, j)
    BY <1>0 DEF InFlight, Sharing
  <1>5. /\ Recent(ledger[c], since[rule]) \in Nat
        /\ Recent(ledger[c], since[rule]) + Cardinality(InFlight(rule, j))
              < rule.max + Cardinality(Requests)
    BY <1>1, EntriesFinite DEF Contained
  <1>6. Recent(ledger'[c], since'[rule]) \in Nat
        /\ Recent(ledger'[c], since'[rule]) <= Recent(ledger[c], since[rule])
    <2>1. CASE since'[rule] = 0
      BY <1>1, <1>5, <2>1, NothingSeen
    <2>2. CASE since'[rule] # 0
      <3>1. since'[rule] \in 1..rule.window /\ since'[rule] - 1 \in 0..since[rule]
        BY <1>1, <1>3, <2>2
      <3>2. Recent(ledger'[c], since'[rule]) = Recent(ledger[c], since'[rule] - 1)
        BY <1>1, <1>2, <3>1, RecentAges
      <3>3. Recent(ledger[c], since'[rule] - 1) <= Recent(ledger[c], since[rule])
        BY <1>1, <3>1, RecentGrows
      <3>4. since'[rule] - 1 \in 0..Longest
        BY <1>1, <3>1, LimiterAssumption
      <3>5. Recent(ledger[c], since'[rule] - 1) \in Nat
        BY <1>1, <3>4, EntriesFinite
      <3>. QED BY <3>2, <3>3, <3>5
    <2>. QED BY <2>1, <2>2
  <1>. QED BY <1>1, <1>4, <1>5, <1>6, InFlightFinite, RoomForAll

LEMMA ContainedNext ==
    ASSUME OneRuleEach, IInv, Clocked, Contained, [Next]_vars PROVE Contained'
  <1>1. CASE UNCHANGED <<rules, ledger, flight, since>>
    BY <1>1 DEF Contained, InFlight, Sharing
  <1>2. CASE \E r \in Requests : EndWithoutUsage(r)
    <2>1. PICK r \in Requests : EndWithoutUsage(r)
      BY <1>2
    <2>2. UNCHANGED <<rules, ledger, since>>
      BY <2>1 DEF EndWithoutUsage
    <2>. SUFFICES ASSUME NEW rule \in rules, NEW j \in Keys, rule.counts = "tokens"
                  PROVE  Recent(ledger[CounterOf(rule, j)], since[rule])
                            + Cardinality(InFlight(rule, j)') < rule.max + Cardinality(Requests)
      BY <2>2 DEF Contained
    <2>3. InFlight(rule, j)' \subseteq InFlight(rule, j)
      BY <2>1 DEF EndWithoutUsage, InFlight, Sharing, IInv, TypeOK
    <2>4. /\ rule.max \in Nat /\ Recent(ledger[CounterOf(rule, j)], since[rule]) \in Nat
          /\ Recent(ledger[CounterOf(rule, j)], since[rule]) + Cardinality(InFlight(rule, j))
                < rule.max + Cardinality(Requests)
      BY RuleTypes, EntriesFinite DEF Contained, IInv, TypeOK
    <2>. QED BY <2>3, <2>4, FewerInFlight, InFlightFinite, RoomForAll
  <1>3. CASE Load
    <2>. SUFFICES ASSUME NEW rule \in rules', NEW j \in Keys
                  PROVE  Recent(ledger'[CounterOf(rule, j)], since'[rule])
                            + Cardinality(InFlight(rule, j)') < rule.max + Cardinality(Requests)
      BY DEF Contained
    <2>1. rule \in AllRules /\ rule.max \in Nat \ {0}
      BY <1>3, RuleTypes DEF Load, IInv
    <2>2. since'[rule] = 0
      BY <1>3, <2>1 DEF Load
    <2>3. InFlight(rule, j)' = {}
      BY <1>3 DEF Load, NoneInFlight, InFlight
    <2>4. Cardinality(InFlight(rule, j)') = 0
      BY <2>3, FS_EmptySet
    <2>. QED BY <2>1, <2>2, <2>4, NothingSeen, RoomForAll DEF IInv
  <1>4. CASE Configure
    <2>. SUFFICES ASSUME NEW rule \in rules', NEW j \in Keys, rule.counts = "tokens"
                  PROVE  Recent(ledger'[CounterOf(rule, j)], since'[rule])
                            + Cardinality(InFlight(rule, j)') < rule.max + Cardinality(Requests)
      BY DEF Contained
    <2>1. rule \in AllRules /\ rule.max \in Nat \ {0}
      BY <1>4, LimiterAssumption DEF Configure, AllRules
    <2>2. UNCHANGED <<ledger, flight>>
      BY <1>4 DEF Configure, CountersKept
    <2>3. InFlight(rule, j)' = InFlight(rule, j)
      BY <2>2 DEF InFlight, Sharing
    <2>4. CASE since'[rule] = 0
      BY <2>1, <2>4, NothingSeen, InFlightFinite, RoomForAll DEF IInv
    <2>5. CASE since'[rule] # 0
      <3>1. rule \in rules /\ since'[rule] = since[rule]
        BY <1>4, <2>1, <2>5 DEF Configure
      <3>. QED BY <2>2, <2>3, <3>1 DEF Contained
    <2>. QED BY <2>4, <2>5
  <1>5. CASE Tick
    BY <1>5, ContainedTick
  <1>6. CASE \E r \in Requests : (\E k \in Keys : Admit(r, k)) \/ Respond(r)
    BY <1>6, ContainedAdmit, ContainedRespond
  <1>. QED BY <1>1, <1>2, <1>3, <1>4, <1>5, <1>6
           DEF Next, Wake, Crash, Shutdown, vars

-----------------------------------------------------------------------------
(* Theorems *)

\* The inductive invariant holds in every reachable state.
THEOREM Inductive == Spec => []IInv
  BY InitIInv, NextIInv, PTL DEF Spec

\* Counters, the file and the history stay in their ranges for any rules, keys and requests.
THEOREM LimiterTypesCorrect == Spec => []TypeOK
  <1>1. IInv => TypeOK
    BY DEF IInv
  <1>. QED BY <1>1, Inductive, PTL

\* Whatever is admitted, answered, reloaded or restarted in whatever order, the file lacks
\* only what is younger than the last wake-up of the flush loop, for any rules and period.
THEOREM CrashForgetsLittle == Spec => []LossIsRecent
  <1>1. IInv => LossIsRecent
    BY DEF IInv
  <1>. QED BY <1>1, Inductive, PTL

\* What the limiter has counted since it has kept count covers what was sent, and stays
\* within each request rule.
THEOREM CountsCoverTraffic == Spec => [](IInv /\ Clocked /\ Covered)
  <1>1. Init => IInv /\ Clocked /\ Covered
    BY InitIInv, CoveredInit
  <1>2. IInv /\ Clocked /\ Covered /\ [Next]_vars => (IInv /\ Clocked /\ Covered)'
    BY NextIInv, ClockedNext, CoveredNext
  <1>. QED BY <1>1, <1>2, PTL DEF Spec

\* Never more requests in a window than a rule allows, of all keys of a bucket together, for
\* any plans of rules (duplicates and changes of scope among them), keys, accounts and requests.
THEOREM RequestQuotaHolds == Spec => []QuotaHeld
  <1>1. IInv /\ Clocked /\ Covered => QuotaHeld
    <2>. SUFFICES ASSUME IInv, Covered, NEW rule \in rules, NEW k \in Keys,
                         rule.counts = "requests", Settled(rule)
                  PROVE  SentFor(rule, k) <= rule.max
      BY DEF QuotaHeld
    <2>1. rule.window \in 0..since[rule]
      BY RuleTypes DEF Settled, IInv
    <2>. QED BY <2>1 DEF Covered, SentFor
  <1>. QED BY <1>1, CountsCoverTraffic, PTL

\* Both kinds of cap hold wherever no plan caps one thing twice: a token cap is exceeded by
\* less than the requests there is room for.
THEOREM QuotasAreKept == OneRuleEach => (Spec => []QuotasHold)
  <1>. SUFFICES ASSUME OneRuleEach PROVE Spec => []QuotasHold
    OBVIOUS
  <1>1. Init => Contained
    BY CoveredInit
  <1>2. IInv /\ Clocked /\ Covered /\ Contained /\ [Next]_vars => Contained'
    BY ContainedNext
  <1>3. IInv /\ Contained => OvershootIsInFlight
    <2>. SUFFICES ASSUME IInv, Contained, NEW rule \in rules, NEW k \in Keys,
                         rule.counts = "tokens", Settled(rule)
                  PROVE  Recent(ledger[CounterOf(rule, k)], rule.window)
                            < rule.max + Cardinality(Requests)
      BY DEF OvershootIsInFlight
    <2>1. rule.window = since[rule] /\ rule.window \in 0..Longest /\ rule.max \in Nat
          /\ ledger[CounterOf(rule, k)] \in Lists
      BY RuleTypes DEF Settled, IInv, TypeOK
    <2>2. Recent(ledger[CounterOf(rule, k)], rule.window) \in Nat
      BY <2>1, EntriesFinite
    <2>. QED BY <2>1, <2>2, InFlightFinite, RoomForAll DEF Contained
  <1>4. QuotaHeld /\ OvershootIsInFlight => QuotasHold
    BY DEF QuotasHold
  <1>. QED BY <1>1, <1>2, <1>3, <1>4, CountsCoverTraffic, RequestQuotaHolds, PTL DEF Spec

=============================================================================
