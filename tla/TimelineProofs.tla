--------------------------- MODULE TimelineProofs ---------------------------
(***************************************************************************)
(* Proofs about Timeline: a timeline that is said to load is loading, the  *)
(* state is well formed, and when nothing is under way the timeline is     *)
(* right about every item for which no two things overlapped.              *)
(*                                                                         *)
(* Three inductive invariants: Inv (what is awaited while a timeline       *)
(* loads), TypeInv (what the lists, the messages that wait and the calls   *)
(* hold) and, on top of TypeInv, RightInv: what is known of each item that *)
(* is not disturbed, from its creation to its deletion.                    *)
(***************************************************************************)
EXTENDS Timeline, FiniteSetTheorems, WellFoundedInduction, SequenceTheorems, TLAPS

(* The calls are a sequence, and a call remains what it was made for.      *)
CallsAreCalls ==
    /\ \E S : calls \in Seq(S)
    /\ \A i \in DOMAIN calls : "op" \in DOMAIN calls[i]

Inv == CallsAreCalls /\ LoadingIsUnderWay

(* What removing a call leaves.                                            *)
LEMMA RemoveAtProperties ==
    ASSUME NEW S, NEW s \in Seq(S), NEW i \in 1..Len(s)
    PROVE  /\ RemoveAt(s, i) \in Seq(S) /\ Len(RemoveAt(s, i)) = Len(s) - 1
           /\ \A j \in 1..(Len(s) - 1) :
                 RemoveAt(s, i)[j] = IF j < i THEN s[j] ELSE s[j + 1]
<1> DEFINE n == Len(s)
           before == SubSeq(s, 1, i - 1)
           after == SubSeq(s, i + 1, n)
<1>1. n \in Nat /\ i \in Nat /\ i <= n /\ \A j \in 1..n : s[j] \in S
      BY LenProperties, ElementOfSeq
<1>2. /\ before \in Seq(S) /\ Len(before) = i - 1
      /\ \A j \in 1..(i - 1) : before[j] = s[j]
      <2>1. \A j \in 1..(i - 1) : s[j] \in S
            BY <1>1
      <2>2. /\ before \in Seq(S) /\ Len(before) = IF 1 <= i - 1 THEN i - 1 - 1 + 1 ELSE 0
            /\ \A j \in 1..(i - 1 - 1 + 1) : before[j] = s[1 + j - 1]
            BY <1>1, <2>1, SubSeqProperties
      <2>3. QED BY <1>1, <2>2
<1>3. /\ after \in Seq(S) /\ Len(after) = n - i
      /\ \A j \in 1..(n - i) : after[j] = s[i + j]
      <2>1. \A j \in (i + 1)..n : s[j] \in S
            BY <1>1
      <2>2. /\ after \in Seq(S) /\ Len(after) = IF i + 1 <= n THEN n - (i + 1) + 1 ELSE 0
            /\ \A j \in 1..(n - (i + 1) + 1) : after[j] = s[(i + 1) + j - 1]
            BY <1>1, <2>1, SubSeqProperties
      <2>3. QED BY <1>1, <2>2
<1> HIDE DEF before, after, n
<1>4. /\ before \o after \in Seq(S) /\ Len(before \o after) = n - 1
      /\ \A j \in 1..(n - 1) : (before \o after)[j] = IF j <= i - 1 THEN before[j]
                                                      ELSE after[j - (i - 1)]
      BY <1>1, <1>2, <1>3, ConcatProperties
<1>5. ASSUME NEW j \in 1..(n - 1)
      PROVE  (before \o after)[j] = IF j < i THEN s[j] ELSE s[j + 1]
      <2>1. CASE j < i
            BY <1>1, <1>2, <1>4, <2>1
      <2>2. CASE ~(j < i)
            <3>1. j - (i - 1) \in 1..(n - i) /\ i + (j - (i - 1)) = j + 1
                  BY <1>1, <2>2
            <3>2. (before \o after)[j] = after[j - (i - 1)]
                  BY <1>1, <1>4, <2>2
            <3>3. QED BY <1>3, <2>2, <3>1, <3>2
      <2>3. QED BY <2>1, <2>2
<1>6. QED BY <1>4, <1>5 DEF RemoveAt, before, after, n

(* A call is removed: the others are still there.                          *)
LEMMA CallRemoved ==
    ASSUME Inv, NEW i \in DOMAIN calls, calls' = RemoveAt(calls, i),
           loadingTimeline' => loadingTimeline /\ calls[i].op # "load"
    PROVE  Inv'
<1>1. PICK S : calls \in Seq(S)
      BY DEF Inv, CallsAreCalls
<1>2. DOMAIN calls = 1..Len(calls) /\ Len(calls) \in Nat
      BY <1>1, LenProperties
<1>3. /\ calls' \in Seq(S) /\ Len(calls') = Len(calls) - 1
      /\ \A j \in 1..(Len(calls) - 1) : calls'[j] = IF j < i THEN calls[j] ELSE calls[j + 1]
      BY <1>1, <1>2, RemoveAtProperties
<1>4. DOMAIN calls' = 1..(Len(calls) - 1)
      BY <1>3, LenProperties
<1>5. CallsAreCalls'
      <2>1. \A j \in DOMAIN calls' : \E k \in DOMAIN calls : calls'[j] = calls[k]
            BY <1>2, <1>3, <1>4
      <2>2. QED BY <1>3, <2>1 DEF CallsAreCalls, Inv
<1>6. ASSUME loadingTimeline'
      PROVE  \E j \in DOMAIN calls' : calls'[j].op = "load"
      <2>1. PICK k \in DOMAIN calls : calls[k].op = "load" /\ k # i
            BY <1>6 DEF Inv, LoadingIsUnderWay
      <2>2. CASE k < i
            BY <1>2, <1>3, <1>4, <2>1, <2>2
      <2>3. CASE k > i
            <3>1. k - 1 \in DOMAIN calls' /\ calls'[k - 1] = calls[k]
                  BY <1>2, <1>3, <1>4, <2>3
            <3>2. QED BY <2>1, <3>1
      <2>4. QED BY <1>2, <2>1, <2>2, <2>3
<1>7. QED BY <1>5, <1>6 DEF Inv, LoadingIsUnderWay

(* A call is made.                                                         *)
LEMMA CallAdded ==
    ASSUME Inv, NEW call, calls' = Append(calls, call), "op" \in DOMAIN call,
           loadingTimeline' => loadingTimeline \/ call.op = "load"
    PROVE  Inv'
<1>1. PICK S : calls \in Seq(S)
      BY DEF Inv, CallsAreCalls
<1> DEFINE T == S \cup {call}
<1>2. calls \in Seq(T)
      BY <1>1, SeqMonotonic
<1>3. DOMAIN calls = 1..Len(calls) /\ Len(calls) \in Nat
      BY <1>1, LenProperties
<1>4. /\ calls' \in Seq(T) /\ DOMAIN calls' = 1..(Len(calls) + 1)
      /\ \A j \in 1..Len(calls) : calls'[j] = calls[j]
      /\ calls'[Len(calls) + 1] = call
      BY <1>2, <1>3, AppendProperties, LenProperties
<1>5. CallsAreCalls'
      <2>1. \A j \in DOMAIN calls' : "op" \in DOMAIN calls'[j]
            BY <1>3, <1>4 DEF Inv, CallsAreCalls
      <2>2. QED BY <1>4, <2>1 DEF CallsAreCalls
<1>6. loadingTimeline' => \E j \in DOMAIN calls' : calls'[j].op = "load"
      BY <1>3, <1>4 DEF Inv, LoadingIsUnderWay
<1>7. QED BY <1>5, <1>6 DEF Inv, LoadingIsUnderWay

(* A call is answered.                                                     *)
LEMMA CallAnswered ==
    ASSUME Inv, NEW i \in DOMAIN calls, NEW answer,
           calls' = [calls EXCEPT ![i].answer = answer], UNCHANGED loadingTimeline
    PROVE  Inv'
<1>1. PICK S : calls \in Seq(S)
      BY DEF Inv, CallsAreCalls
<1> DEFINE call == [calls[i] EXCEPT !.answer = answer]
           T == S \cup {call}
<1>2. calls \in Seq(T) /\ DOMAIN calls = 1..Len(calls)
      BY <1>1, SeqMonotonic, LenProperties
<1>3. calls' = [calls EXCEPT ![i] = call]
      OBVIOUS
<1>4. DOMAIN call = DOMAIN calls[i] /\ call.op = calls[i].op
      BY DEF Inv, CallsAreCalls
<1> HIDE DEF call
<1>5. calls' \in Seq(T)
      BY <1>2, <1>3, ExceptSeq
<1>6. DOMAIN calls' = DOMAIN calls /\ \A j \in DOMAIN calls : j # i => calls'[j] = calls[j]
      BY <1>3
<1>7. calls'[i] = call
      BY <1>3
<1>8. CallsAreCalls'
      BY <1>4, <1>5, <1>6, <1>7 DEF Inv, CallsAreCalls
<1>9. QED BY <1>4, <1>6, <1>7, <1>8 DEF Inv, LoadingIsUnderWay

LEMMA CallsKept ==
    ASSUME Inv, UNCHANGED <<calls, loadingTimeline>>
    PROVE  Inv'
BY DEF Inv, CallsAreCalls, LoadingIsUnderWay

-----------------------------------------------------------------------------
LEMMA InitInv == Init => Inv
<1> SUFFICES ASSUME Init PROVE Inv
    OBVIOUS
<1>1. PICK call : calls = <<call>> /\ call.op = "load" /\ "op" \in DOMAIN call
      BY DEF Init
<1>2. calls \in Seq({call})
      BY <1>1
<1>3. DOMAIN calls = {1} /\ calls[1] = call
      BY <1>1
<1>4. QED BY <1>1, <1>2, <1>3 DEF Inv, CallsAreCalls, LoadingIsUnderWay

(* A step starts a load with its call, and ends it with the flag.          *)
LEMMA InvStep == Inv /\ [Next]_vars => Inv'
<1> SUFFICES ASSUME Inv, [Next]_vars PROVE Inv'
    OBVIOUS
<1>1. ASSUME NEW kind \in ChildKind \cup {"revision"}, NEW c \in Content, Create(kind, c)
      PROVE  Inv'
      BY <1>1, CallsKept DEF Create, Publish
<1>2. ASSUME NEW id \in Id, Edit(id) \/ Delete(id) \/ Restore(id)
      PROVE  Inv'
      BY <1>2, CallsKept DEF Edit, Delete, Restore, Publish
<1>3. CASE HandleTlm
      <2> DEFINE tlm == Head(tlms)
      <2>1. UNCHANGED loadingTimeline
            BY <1>3 DEF HandleTlm, Handled
      <2>2. UNCHANGED calls \/ \E op \in {"add", "update", "revision"} :
                                  calls' = Append(calls, Single(op, tlm.id, 0))
            BY <1>3 DEF HandleTlm, HandleCommentCreated, HandleContentCommentModified,
                        HandleContentModified, HandleChildContentCreated,
                        HandleChildContentDeleted, HandleChildContentModified,
                        HandleChildContentRestored, Await
      <2>3. ASSUME NEW op, calls' = Append(calls, Single(op, tlm.id, 0))
            PROVE  Inv'
            <3>1. "op" \in DOMAIN Single(op, tlm.id, 0)
                  BY DEF Single
            <3>2. QED BY <2>1, <2>3, <3>1, CallAdded
      <2>4. QED BY <2>1, <2>2, <2>3, CallsKept
<1>4. ASSUME NEW c \in Content, ShowContent(c)
      PROVE  Inv'
      <2> DEFINE call == Pages("load", c, PageSize, pageToken')
      <2>1. calls' = Append(calls, call)
            BY <1>4 DEF ShowContent, LoadTimeline
      <2>2. "op" \in DOMAIN call /\ call.op = "load"
            BY DEF Pages
      <2> HIDE DEF call
      <2>3. QED BY <2>1, <2>2, CallAdded
<1>5. CASE LoadMoreTimelineItems
      <2> DEFINE call == Pages("more", content, Len(timeline) + PageSize, pageToken)
      <2>1. calls' = Append(calls, call) /\ UNCHANGED loadingTimeline
            BY <1>5 DEF LoadMoreTimelineItems
      <2>2. "op" \in DOMAIN call
            BY DEF Pages
      <2> HIDE DEF call
      <2>3. QED BY <2>1, <2>2, CallAdded
<1>6. ASSUME NEW item, TranslateComment(item)
      PROVE  Inv'
      <2> DEFINE call == Single("translate", item.id, item.text)
      <2>1. calls' = Append(calls, call) /\ UNCHANGED loadingTimeline
            BY <1>6 DEF TranslateComment
      <2>2. "op" \in DOMAIN call
            BY DEF Single
      <2> HIDE DEF call
      <2>3. QED BY <2>1, <2>2, CallAdded
<1>7. ASSUME NEW item, RestoreComment(item)
      PROVE  Inv'
      BY <1>7, CallsKept DEF RestoreComment
<1>8. ASSUME NEW i \in DOMAIN calls, ServerAnswers(i)
      PROVE  Inv'
      <2>1. PICK answer : calls' = [calls EXCEPT ![i].answer = answer]
            BY <1>8 DEF ServerAnswers
      <2>2. UNCHANGED loadingTimeline
            BY <1>8 DEF ServerAnswers
      <2>3. QED BY <2>1, <2>2, CallAnswered
<1>9. ASSUME NEW i \in DOMAIN calls, ResumeSingle(i)
      PROVE  Inv'
      <2>1. calls' = RemoveAt(calls, i) /\ UNCHANGED loadingTimeline /\ calls[i].op # "load"
            BY <1>9 DEF ResumeSingle, Resumed, IsPages
      <2>2. QED BY <2>1, CallRemoved
<1>10. ASSUME NEW i \in DOMAIN calls, ResumePages(i)
       PROVE  Inv'
       <2>1. calls' = RemoveAt(calls, i) /\ EndOfLoad(calls[i])
             BY <1>10 DEF ResumePages
       <2>2. loadingTimeline' => loadingTimeline /\ calls[i].op # "load"
             BY <2>1 DEF EndOfLoad
       <2>3. QED BY <2>1, <2>2, CallRemoved
<1>11. CASE UNCHANGED vars
       BY <1>11, CallsKept DEF vars
<1>12. QED BY <1>1, <1>2, <1>3, <1>4, <1>5, <1>6, <1>7, <1>8, <1>9, <1>10, <1>11 DEF Next

(* Whatever the requests bring and in whatever order they end, the         *)
(* timeline is said to load only while a load is awaited.                  *)
THEOREM LoadingEndsWithTheLoad == Spec => []LoadingIsUnderWay
<1>1. Inv => LoadingIsUnderWay
      BY DEF Inv
<1>2. QED BY <1>1, InitInv, InvStep, PTL DEF Spec

-----------------------------------------------------------------------------
(* The lists: the least of a set, ranks, and what sorting, filtering and   *)
(* appending leave of a list.                                              *)

(* The least of a set of numbers is in it.                                 *)
LEMMA MinIsLeast ==
    ASSUME NEW S \in SUBSET Nat, S # {}
    PROVE  Min(S) \in S /\ \A y \in S : Min(S) <= y
<1> DEFINE R == OpToRel(<, Nat)
<1>1. IsWellFoundedOn(R, Nat)
      BY NatLessThanWellFounded, Zenon
<1>2. \A m, n \in Nat : m < n => <<m, n>> \in R
      BY DEF OpToRel
<1> HIDE DEF R
<1>3. PICK x \in S : \A y \in S : ~ (<<y, x>> \in R)
      BY <1>1, WFMin
<1>4. ASSUME NEW y \in S PROVE x <= y
      <2>1. x \in Nat /\ y \in Nat
            OBVIOUS
      <2>2. ~ (y < x)
            BY <1>2, <1>3, <2>1, Zenon
      <2>3. QED BY <2>1, <2>2
<1>5. QED BY <1>4 DEF Min

LEMMA GreatestExists ==
    ASSUME NEW n \in Nat, NEW S \in SUBSET (1..n), S # {}
    PROVE  \E x \in S : \A y \in S : y <= x
<1> DEFINE T == {n - x : x \in S}
<1>1. \A x \in S : x \in Nat /\ n - x \in Nat
      OBVIOUS
<1>2. T \in SUBSET Nat /\ T # {}
      BY <1>1
<1> HIDE DEF T
<1>3. Min(T) \in T /\ \A y \in T : Min(T) <= y
      BY <1>2, MinIsLeast
<1>4. PICK x \in S : Min(T) = n - x
      BY <1>3 DEF T
<1>5. ASSUME NEW y \in S PROVE y <= x
      <2>1. n - y \in T
            BY DEF T
      <2>2. QED BY <1>1, <1>3, <1>4, <2>1
<1>6. QED BY <1>5

LEMMA MaxOfTwo ==
    ASSUME NEW a \in Int, NEW b \in Int
    PROVE  Max({a, b}) = IF a >= b THEN a ELSE b
<1>1. CASE a >= b
      <2>1. \A y \in {a, b} : a >= y
            BY <1>1
      <2>2. \A x \in {a, b} : (\A y \in {a, b} : x >= y) => x = a
            BY <1>1
      <2>3. QED BY <1>1, <2>1, <2>2 DEF Max
<1>2. CASE ~(a >= b)
      <2>1. \A y \in {a, b} : b >= y
            BY <1>2
      <2>2. \A x \in {a, b} : (\A y \in {a, b} : x >= y) => x = b
            BY <1>2
      <2>3. QED BY <1>2, <2>1, <2>2 DEF Max
<1>3. QED BY <1>1, <1>2

-----------------------------------------------------------------------------
(* Ranks that differ are onto: each from 1 to the number of elements.      *)
LEMMA RanksAreOnto ==
    ASSUME NEW S, IsFiniteSet(S), NEW f \in [S -> 1..Cardinality(S)],
           \A x, y \in S : f[x] = f[y] => x = y
    PROVE  \A n \in 1..Cardinality(S) : \E x \in S : f[x] = n
<1>1. Cardinality(S) \in Nat
      BY FS_CardinalityType
<1>2. IsFiniteSet(1..Cardinality(S)) /\ Cardinality(1..Cardinality(S)) = Cardinality(S)
      BY <1>1, FS_Interval
<1>3. f \in Injection(S, 1..Cardinality(S))
      BY DEF Injection, IsInjective
<1>4. f \in Surjection(S, 1..Cardinality(S))
      BY <1>2, <1>3, FS_Injection
<1>5. QED BY <1>4 DEF Surjection

LEMMA FewerElements ==
    ASSUME NEW T, IsFiniteSet(T), NEW S \in SUBSET T
    PROVE  /\ Cardinality(S) \in Nat /\ Cardinality(T) \in Nat
           /\ Cardinality(S) <= Cardinality(T)
           /\ \A x \in T : x \notin S => Cardinality(S) < Cardinality(T)
BY FS_Subset, FS_CardinalityType

(* In an order, the rank of an element is the number of those up to it.    *)
LEMMA RanksOfAnOrder ==
    ASSUME NEW S, IsFiniteSet(S), NEW upTo,
           \A x \in S : upTo[x] \in SUBSET S /\ x \in upTo[x],
           \A x, y \in S : x # y =>
              \/ upTo[x] \subseteq upTo[y] /\ y \notin upTo[x]
              \/ upTo[y] \subseteq upTo[x] /\ x \notin upTo[y]
    PROVE  /\ \A x \in S : Cardinality(upTo[x]) \in 1..Cardinality(S)
           /\ \A x, y \in S : Cardinality(upTo[x]) = Cardinality(upTo[y]) => x = y
           /\ \A n \in 1..Cardinality(S) : \E x \in S : Cardinality(upTo[x]) = n
<1>1. \A x \in S : Cardinality(upTo[x]) \in 1..Cardinality(S)
      <2> SUFFICES ASSUME NEW x \in S PROVE Cardinality(upTo[x]) \in 1..Cardinality(S)
          OBVIOUS
      <2>1. Cardinality(upTo[x]) \in Nat /\ Cardinality(S) \in Nat
            /\ Cardinality(upTo[x]) <= Cardinality(S) /\ IsFiniteSet(upTo[x])
            BY FewerElements, FS_Subset
      <2>2. Cardinality(upTo[x]) # 0
            BY <2>1, FS_EmptySet
      <2>3. QED BY <2>1, <2>2
<1>2. ASSUME NEW x \in S, NEW y \in S, x # y
      PROVE  Cardinality(upTo[x]) # Cardinality(upTo[y])
      <2>1. IsFiniteSet(upTo[x]) /\ IsFiniteSet(upTo[y])
            BY FS_Subset
      <2>2. CASE upTo[x] \subseteq upTo[y] /\ y \notin upTo[x]
            BY <2>1, <2>2, FewerElements
      <2>3. CASE upTo[y] \subseteq upTo[x] /\ x \notin upTo[y]
            BY <2>1, <2>3, FewerElements
      <2>4. QED BY <1>2, <2>2, <2>3
<1> DEFINE f == [x \in S |-> Cardinality(upTo[x])]
<1>3. f \in [S -> 1..Cardinality(S)] /\ \A x, y \in S : f[x] = f[y] => x = y
      BY <1>1, <1>2
<1>4. \A n \in 1..Cardinality(S) : \E x \in S : f[x] = n
      <2> HIDE DEF f
      <2>1. QED BY <1>3, RanksAreOnto
<1>5. QED BY <1>1, <1>2, <1>4

(* A set of numbers as a list has each of them once, and no other.         *)
LEMMA AscendingLists ==
    ASSUME NEW numbers \in SUBSET Int, IsFiniteSet(numbers)
    PROVE  LET l == Ascending(numbers)
           IN /\ Cardinality(numbers) \in Nat /\ DOMAIN l = 1..Cardinality(numbers)
              /\ \A i \in DOMAIN l : l[i] \in numbers
              /\ \A n \in numbers : \E i \in DOMAIN l : l[i] = n
              /\ \A i, j \in DOMAIN l : l[i] = l[j] => i = j
<1> DEFINE upTo == [n \in numbers |-> {m \in numbers : m <= n}]
           Rank(n) == Cardinality({m \in numbers : m <= n})
           c == Cardinality(numbers)
           l == Ascending(numbers)
<1>1. /\ \A n \in numbers : upTo[n] \in SUBSET numbers /\ n \in upTo[n]
      /\ \A m, n \in numbers : m # n =>
            \/ upTo[m] \subseteq upTo[n] /\ n \notin upTo[m]
            \/ upTo[n] \subseteq upTo[m] /\ m \notin upTo[n]
      <2>1. ASSUME NEW m \in numbers, NEW n \in numbers, m < n
            PROVE  upTo[m] \subseteq upTo[n] /\ n \notin upTo[m]
            <3>1. m \in Int /\ n \in Int /\ \A g \in numbers : g \in Int
                  OBVIOUS
            <3>2. upTo[m] = {g \in numbers : g <= m} /\ upTo[n] = {g \in numbers : g <= n}
                  OBVIOUS
            <3> HIDE DEF upTo
            <3>3. \A g \in upTo[m] : g \in numbers /\ g <= n
                  <4>1. \A g \in numbers : g <= m => g <= n
                        BY <2>1, <3>1
                  <4>2. QED BY <3>2, <4>1
            <3>4. QED BY <2>1, <3>1, <3>2, <3>3
      <2>2. \A n \in numbers : upTo[n] \in SUBSET numbers /\ n \in upTo[n]
            OBVIOUS
      <2>3. \A m, n \in numbers : m # n => m < n \/ n < m
            OBVIOUS
      <2> HIDE DEF upTo
      <2>4. QED BY <2>1, <2>2, <2>3
<1>2. c \in Nat
      BY FS_CardinalityType
<1>3. \A n \in numbers : Cardinality(upTo[n]) = Rank(n)
      OBVIOUS
<1>4. /\ \A n \in numbers : Rank(n) \in 1..c
      /\ \A i \in 1..c : \E n \in numbers : Rank(n) = i
      /\ \A m, n \in numbers : Rank(m) = Rank(n) => m = n
      <2> HIDE DEF upTo, Rank
      <2>1. /\ \A n \in numbers : Cardinality(upTo[n]) \in 1..c
            /\ \A m, n \in numbers : Cardinality(upTo[m]) = Cardinality(upTo[n]) => m = n
            /\ \A i \in 1..c : \E n \in numbers : Cardinality(upTo[n]) = i
            BY <1>1, RanksOfAnOrder
      <2>2. QED BY <1>3, <2>1
<1>5. l = [i \in 1..c |-> CHOOSE n \in numbers : Rank(n) = i]
      BY DEF Ascending
<1> HIDE DEF upTo, Rank, l, c
<1>6. DOMAIN l = 1..c /\ \A i \in 1..c : l[i] \in numbers /\ Rank(l[i]) = i
      BY <1>4, <1>5
<1>7. \A n \in numbers : l[Rank(n)] = n
      BY <1>4, <1>6
<1>8. \A n \in numbers : \E i \in 1..c : l[i] = n
      BY <1>4, <1>7
<1>9. QED BY <1>2, <1>6, <1>8 DEF l, c

-----------------------------------------------------------------------------
(* Lists of items: where an item is, and what a list is part of.           *)
At(items, id) == {i \in DOMAIN items : items[i].id = id}
Once(items, id) == \A i, j \in At(items, id) : i = j

PartOf(t, w) ==
    \E f \in [DOMAIN t -> DOMAIN w] :
        /\ \A i \in DOMAIN t : t[i] = w[f[i]]
        /\ \A i, j \in DOMAIN t : f[i] = f[j] => i = j

(* What is said of an item in two lists is the same.                       *)
Alike(l, w, id) ==
    /\ At(l, id) = {} <=> At(w, id) = {}
    /\ Once(w, id) => Once(l, id)
    /\ \A i \in At(l, id) : \E j \in At(w, id) : l[i].text = w[j].text

LEMMA PartOfItself == ASSUME NEW w PROVE PartOf(w, w)
<1> DEFINE f == [i \in DOMAIN w |-> i]
<1>1. f \in [DOMAIN w -> DOMAIN w] /\ (\A i \in DOMAIN w : w[i] = w[f[i]])
      /\ \A i, j \in DOMAIN w : f[i] = f[j] => i = j
      OBVIOUS
<1> HIDE DEF f
<1>2. QED BY <1>1 DEF PartOf

LEMMA PartOfPart == ASSUME NEW s, NEW t, NEW w, PartOf(s, t), PartOf(t, w) PROVE PartOf(s, w)
<1>1. PICK f \in [DOMAIN s -> DOMAIN t] : /\ \A i \in DOMAIN s : s[i] = t[f[i]]
                                          /\ \A i, j \in DOMAIN s : f[i] = f[j] => i = j
      BY DEF PartOf
<1>2. PICK g \in [DOMAIN t -> DOMAIN w] : /\ \A i \in DOMAIN t : t[i] = w[g[i]]
                                          /\ \A i, j \in DOMAIN t : g[i] = g[j] => i = j
      BY DEF PartOf
<1> DEFINE h == [i \in DOMAIN s |-> g[f[i]]]
<1>3. h \in [DOMAIN s -> DOMAIN w] /\ (\A i \in DOMAIN s : s[i] = w[h[i]])
      /\ \A i, j \in DOMAIN s : h[i] = h[j] => i = j
      BY <1>1, <1>2
<1> HIDE DEF h
<1>4. QED BY <1>3 DEF PartOf

(* Sorting reorders.                                                       *)
LEMMA SortReorders ==
    ASSUME NEW S, NEW items \in Seq(S), \A x \in S : x.id \in Int
    PROVE  LET l == SortTimelineByDate(items)
           IN /\ l \in Seq(S) /\ DOMAIN l = DOMAIN items
              /\ PartOf(l, items) /\ PartOf(items, l)
<1> DEFINE upTo == [i \in DOMAIN items |->
                       {j \in DOMAIN items : \/ items[j].id < items[i].id
                                             \/ items[j].id = items[i].id /\ j <= i}]
           n == Len(items)
           from == [k \in 1..n |-> CHOOSE i \in 1..n : Place(items, i) = k]
           place == [i \in 1..n |-> Place(items, i)]
           l == SortTimelineByDate(items)
<1>1. n \in Nat /\ DOMAIN items = 1..n /\ items \in [1..n -> S]
      BY LenProperties
<1>2. \A i \in 1..n : items[i].id \in Int
      BY <1>1
<1>3. /\ \A i \in 1..n : upTo[i] \in SUBSET (1..n) /\ i \in upTo[i]
      /\ \A i, j \in 1..n : i # j =>
            \/ upTo[i] \subseteq upTo[j] /\ j \notin upTo[i]
            \/ upTo[j] \subseteq upTo[i] /\ i \notin upTo[j]
      BY <1>1, <1>2
<1>4. \A i \in 1..n : Cardinality(upTo[i]) = Place(items, i)
      BY <1>1 DEF Place
<1>5. IsFiniteSet(1..n) /\ Cardinality(1..n) = n
      BY <1>1, FS_Interval
<1>6. /\ \A i \in 1..n : Place(items, i) \in 1..n
      /\ \A i, j \in 1..n : Place(items, i) = Place(items, j) => i = j
      /\ \A k \in 1..n : \E i \in 1..n : Place(items, i) = k
      <2> DEFINE D == 1..n
      <2>0. /\ IsFiniteSet(D) /\ Cardinality(D) = n
            /\ \A i \in D : upTo[i] \in SUBSET D /\ i \in upTo[i]
            /\ \A i, j \in D : i # j =>
                  \/ upTo[i] \subseteq upTo[j] /\ j \notin upTo[i]
                  \/ upTo[j] \subseteq upTo[i] /\ i \notin upTo[j]
            BY <1>3, <1>5
      <2> HIDE DEF upTo, from, place, l, n, D
      <2>1. /\ \A i \in D : Cardinality(upTo[i]) \in 1..Cardinality(D)
            /\ \A i, j \in D : Cardinality(upTo[i]) = Cardinality(upTo[j]) => i = j
            /\ \A k \in 1..Cardinality(D) : \E i \in D : Cardinality(upTo[i]) = k
            BY <2>0, RanksOfAnOrder, Zenon
      <2>2. QED BY <1>4, <2>0, <2>1 DEF D
<1>7. l = [k \in 1..n |-> items[from[k]]]
      BY <1>1 DEF SortTimelineByDate
<1>8. \A k \in 1..n : from[k] \in 1..n /\ Place(items, from[k]) = k
      BY <1>6
<1>9. \A i \in 1..n : from[Place(items, i)] = i
      BY <1>6, <1>8
<1>10. from \in [1..n -> 1..n] /\ place \in [1..n -> 1..n] /\ \A i \in 1..n : place[i] = Place(items, i)
      BY <1>6, <1>8
<1> HIDE DEF upTo, l, from, place, n
<1>11. l \in [1..n -> S]
      BY <1>1, <1>7, <1>8
<1>12. l \in Seq(S) /\ DOMAIN l = 1..n
      BY <1>1, <1>11, SeqDef
<1>13. \A k \in 1..n : l[k] = items[from[k]]
      BY <1>7
<1>14. PartOf(l, items)
      <2>1. \A i, j \in 1..n : from[i] = from[j] => i = j
            BY <1>8
      <2>2. /\ from \in [DOMAIN l -> DOMAIN items]
            /\ \A i \in DOMAIN l : l[i] = items[from[i]]
            /\ \A i, j \in DOMAIN l : from[i] = from[j] => i = j
            BY <1>1, <1>10, <1>12, <1>13, <2>1
      <2>3. QED BY ONLY <2>2 DEF PartOf
<1>15. PartOf(items, l)
      <2>1. \A i \in 1..n : items[i] = l[place[i]]
            BY <1>6, <1>9, <1>10, <1>13
      <2>2. \A i, j \in 1..n : place[i] = place[j] => i = j
            BY <1>6, <1>10
      <2>3. /\ place \in [DOMAIN items -> DOMAIN l]
            /\ \A i \in DOMAIN items : items[i] = l[place[i]]
            /\ \A i, j \in DOMAIN items : place[i] = place[j] => i = j
            BY <1>1, <1>10, <1>12, <2>1, <2>2
      <2>4. QED BY ONLY <2>3 DEF PartOf
<1>16. QED BY <1>1, <1>12, <1>14, <1>15 DEF l

(* Leaving the items with an id out.                                       *)
LEMMA WithoutLeaves ==
    ASSUME NEW S, NEW items \in Seq(S), NEW id
    PROVE  LET l == Without(items, id)
           IN /\ l \in Seq(S) /\ PartOf(l, items)
              /\ \A i \in DOMAIN l : l[i].id # id
              /\ \A i \in DOMAIN items : items[i].id # id => \E n \in DOMAIN l : l[n] = items[i]
<1> DEFINE K == {i \in DOMAIN items : items[i].id # id}
           kept == Ascending(K)
           c == Cardinality(K)
           l == Without(items, id)
<1>1. DOMAIN items = 1..Len(items) /\ Len(items) \in Nat /\ items \in [1..Len(items) -> S]
      BY LenProperties
<1>2. K \in SUBSET (1..Len(items)) /\ IsFiniteSet(K) /\ K \in SUBSET Int
      <2>1. K \in SUBSET (1..Len(items))
            BY <1>1
      <2>2. IsFiniteSet(1..Len(items)) /\ (1..Len(items)) \subseteq Int
            BY <1>1, FS_Interval
      <2> HIDE DEF K
      <2>3. QED BY <2>1, <2>2, FS_Subset
<1> HIDE DEF K
<1>3. /\ c \in Nat /\ DOMAIN kept = 1..c
      /\ \A i \in 1..c : kept[i] \in K
      /\ \A i \in K : \E n \in 1..c : kept[n] = i
      /\ \A i, j \in 1..c : kept[i] = kept[j] => i = j
      BY <1>2, AscendingLists
<1>4. l = [n \in DOMAIN kept |-> items[kept[n]]]
      BY DEF Without, K
<1> HIDE DEF kept, c, l
<1>5. DOMAIN l = 1..c /\ \A n \in 1..c : l[n] = items[kept[n]]
      BY <1>3, <1>4
<1>6. \A n \in 1..c : kept[n] \in DOMAIN items /\ items[kept[n]].id # id
      BY <1>3 DEF K
<1>7. l \in Seq(S)
      <2>1. l \in [1..c -> S]
            BY <1>1, <1>3, <1>4, <1>6
      <2>2. QED BY <1>3, <2>1, SeqDef
<1>8. PartOf(l, items)
      <2> DEFINE f == [n \in 1..c |-> kept[n]]
      <2>1. f \in [1..c -> DOMAIN items] /\ (\A n \in 1..c : l[n] = items[f[n]])
            /\ \A i, j \in 1..c : f[i] = f[j] => i = j
            BY <1>3, <1>5, <1>6
      <2> HIDE DEF f
      <2>2. /\ f \in [DOMAIN l -> DOMAIN items]
            /\ \A n \in DOMAIN l : l[n] = items[f[n]]
            /\ \A i, j \in DOMAIN l : f[i] = f[j] => i = j
            BY <1>5, <2>1
      <2>3. QED BY <2>2, Zenon DEF PartOf
<1>9. \A i \in DOMAIN items : items[i].id # id => \E n \in 1..c : l[n] = items[i]
      BY <1>3, <1>5 DEF K
<1>10. QED BY <1>5, <1>6, <1>7, <1>8, <1>9 DEF l

(* The last items.                                                         *)
LEMMA GetTimelineIsPart ==
    ASSUME NEW S, NEW whole \in Seq(S), NEW itemCount \in Int
    PROVE  LET l == GetTimeline(whole, itemCount)
           IN l \in Seq(S) /\ PartOf(l, whole)
<1> DEFINE n == Len(whole)
           start == Max({n - itemCount, 0})
           l == GetTimeline(whole, itemCount)
<1>1. n \in Nat /\ DOMAIN whole = 1..n /\ \A j \in 1..n : whole[j] \in S
      BY LenProperties, ElementOfSeq
<1>2. start \in Nat
      BY <1>1, MaxOfTwo
<1>3. l = SubSeq(whole, start + 1, n)
      BY DEF GetTimeline
<1> HIDE DEF n, start, l
<1>4. \A j \in (start + 1)..n : whole[j] \in S
      BY <1>1, <1>2
<1>5. /\ l \in Seq(S) /\ Len(l) = IF start + 1 <= n THEN n - (start + 1) + 1 ELSE 0
      /\ \A j \in 1..(n - (start + 1) + 1) : l[j] = whole[(start + 1) + j - 1]
      BY <1>1, <1>2, <1>3, <1>4, SubSeqProperties
<1>6. DOMAIN l = 1..(n - start)
      <2>1. DOMAIN l = 1..Len(l)
            BY <1>5, LenProperties
      <2>2. QED BY <1>1, <1>2, <1>5, <2>1
<1> DEFINE f == [j \in 1..(n - start) |-> start + j]
<1>7. f \in [1..(n - start) -> 1..n] /\ \A i, j \in 1..(n - start) : f[i] = f[j] => i = j
      BY <1>1, <1>2
<1>8. \A j \in 1..(n - start) : l[j] = whole[f[j]]
      BY <1>1, <1>2, <1>5
<1> HIDE DEF f
<1>9. PartOf(l, whole)
      BY <1>1, <1>6, <1>7, <1>8 DEF PartOf
<1>10. QED BY <1>5, <1>9 DEF l

LEMMA AppendIsPart ==
    ASSUME NEW S, NEW t \in Seq(S), NEW w \in Seq(S), NEW x \in S, PartOf(t, w)
    PROVE  PartOf(Append(t, x), Append(w, x))
<1>1. PICK f \in [DOMAIN t -> DOMAIN w] : /\ \A i \in DOMAIN t : t[i] = w[f[i]]
                                          /\ \A i, j \in DOMAIN t : f[i] = f[j] => i = j
      BY DEF PartOf
<1> DEFINE n == Len(t)
           m == Len(w)
           s == Append(t, x)
           v == Append(w, x)
           g == [i \in 1..(n + 1) |-> IF i = n + 1 THEN m + 1 ELSE f[i]]
<1>2. n \in Nat /\ m \in Nat /\ DOMAIN t = 1..n /\ DOMAIN w = 1..m
      BY LenProperties
<1>3. /\ DOMAIN s = 1..(n + 1) /\ \A i \in 1..n : s[i] = t[i]
      /\ s[n + 1] = x
      BY <1>2, AppendProperties, LenProperties
<1>4. /\ DOMAIN v = 1..(m + 1) /\ \A i \in 1..m : v[i] = w[i]
      /\ v[m + 1] = x
      BY <1>2, AppendProperties, LenProperties
<1> HIDE DEF s, v, n, m
<1>5. g \in [1..(n + 1) -> 1..(m + 1)]
      BY <1>1, <1>2
<1>6. \A i \in 1..(n + 1) : s[i] = v[g[i]]
      <2>1. ASSUME NEW i \in 1..n PROVE s[i] = v[g[i]]
            <3>1. g[i] = f[i] /\ f[i] \in 1..m
                  BY <1>1, <1>2
            <3> HIDE DEF g
            <3>2. QED BY <1>1, <1>2, <1>3, <1>4, <3>1
      <2>2. g[n + 1] = m + 1
            BY <1>2
      <2>3. \A i \in 1..(n + 1) : i = n + 1 \/ i \in 1..n
            BY <1>2
      <2> HIDE DEF g
      <2>4. QED BY <1>3, <1>4, <2>1, <2>2, <2>3
<1>7. \A i, j \in 1..(n + 1) : g[i] = g[j] => i = j
      <2>1. \A i \in 1..n : g[i] = f[i] /\ f[i] \in 1..m
            BY <1>1, <1>2
      <2>2. g[n + 1] = m + 1
            BY <1>2
      <2> HIDE DEF g
      <2>3. \A i \in 1..(n + 1) : i = n + 1 \/ i \in 1..n
            BY <1>2
      <2>4. \A i \in 1..n : g[i] # m + 1
            BY <1>2, <2>1
      <2>5. QED BY <1>1, <1>2, <2>1, <2>2, <2>3, <2>4
<1> HIDE DEF g
<1>8. PartOf(s, v)
      <2>1. /\ g \in [DOMAIN s -> DOMAIN v]
            /\ \A i \in DOMAIN s : s[i] = v[g[i]]
            /\ \A i, j \in DOMAIN s : g[i] = g[j] => i = j
            BY <1>3, <1>4, <1>5, <1>6, <1>7
      <2>2. QED BY <2>1, Zenon DEF PartOf
<1>9. QED BY <1>8 DEF s, v

(* A part that is not shorter is the whole.                                *)
LEMMA PartIsWhole ==
    ASSUME NEW S, NEW t \in Seq(S), NEW w \in Seq(S), PartOf(t, w), Len(w) <= Len(t)
    PROVE  \A j \in DOMAIN w : \E i \in DOMAIN t : t[i] = w[j]
<1>1. PICK f \in [DOMAIN t -> DOMAIN w] : /\ \A i \in DOMAIN t : t[i] = w[f[i]]
                                          /\ \A i, j \in DOMAIN t : f[i] = f[j] => i = j
      BY DEF PartOf
<1>2. /\ Len(t) \in Nat /\ Len(w) \in Nat
      /\ DOMAIN t = 1..Len(t) /\ DOMAIN w = 1..Len(w)
      BY LenProperties
<1>3. /\ IsFiniteSet(DOMAIN t) /\ Cardinality(DOMAIN t) = Len(t)
      /\ IsFiniteSet(DOMAIN w) /\ Cardinality(DOMAIN w) = Len(w)
      <2>1. \A k \in Nat : IsFiniteSet(1..k) /\ Cardinality(1..k) = k
            BY FS_Interval
      <2>2. QED BY <1>2, <2>1
<1>4. f \in Injection(DOMAIN t, DOMAIN w)
      BY <1>1 DEF Injection, IsInjective
<1>5. Cardinality(DOMAIN t) <= Cardinality(DOMAIN w)
      BY <1>3, <1>4, FS_Injection
<1>6. Cardinality(DOMAIN t) = Cardinality(DOMAIN w)
      BY <1>2, <1>3, <1>5
<1>7. f \in Surjection(DOMAIN t, DOMAIN w)
      BY <1>3, <1>4, <1>6, FS_Injection
<1>8. QED BY <1>1, <1>7 DEF Surjection

-----------------------------------------------------------------------------
(* Lists that are parts of each other say the same.                        *)
LEMMA ReorderedAreAlike ==
    ASSUME NEW l, NEW w, PartOf(l, w), PartOf(w, l), NEW id
    PROVE  Alike(l, w, id)
<1>1. PICK f \in [DOMAIN l -> DOMAIN w] : /\ \A i \in DOMAIN l : l[i] = w[f[i]]
                                          /\ \A i, j \in DOMAIN l : f[i] = f[j] => i = j
      BY DEF PartOf
<1>2. PICK g \in [DOMAIN w -> DOMAIN l] : \A i \in DOMAIN w : w[i] = l[g[i]]
      BY DEF PartOf
<1>3. \A i \in At(l, id) : f[i] \in At(w, id) /\ l[i] = w[f[i]]
      BY <1>1 DEF At
<1>4. \A i \in At(w, id) : g[i] \in At(l, id)
      BY <1>2 DEF At
<1>5. At(l, id) = {} <=> At(w, id) = {}
      BY <1>3, <1>4
<1>6. ASSUME Once(w, id) PROVE Once(l, id)
      <2>1. \A i, j \in At(l, id) : f[i] = f[j]
            BY <1>3, <1>6 DEF Once
      <2>2. QED BY <1>1, <2>1 DEF Once, At
<1>7. QED BY <1>3, <1>5, <1>6 DEF Alike

LEMMA AlikeThrough ==
    ASSUME NEW l, NEW v, NEW w, NEW id, Alike(l, v, id), Alike(v, w, id)
    PROVE  Alike(l, w, id)
<1>1. \A i \in At(l, id) : \E j \in At(w, id) : l[i].text = w[j].text
      <2> TAKE i \in At(l, id)
      <2>1. PICK k \in At(v, id) : l[i].text = v[k].text
            BY DEF Alike
      <2>2. PICK j \in At(w, id) : v[k].text = w[j].text
            BY DEF Alike
      <2>3. QED BY <2>1, <2>2
<1>2. QED BY <1>1 DEF Alike

LEMMA AppendIsAlike ==
    ASSUME NEW S, NEW w \in Seq(S), NEW x, NEW id, x.id # id
    PROVE  At(Append(w, x), id) = At(w, id) /\ Alike(Append(w, x), w, id)
<1> DEFINE T == S \cup {x}
           n == Len(w)
           v == Append(w, x)
<1>1. w \in Seq(T)
      BY SeqMonotonic
<1>2. n \in Nat /\ DOMAIN w = 1..n
      BY LenProperties
<1>3. /\ DOMAIN v = 1..(n + 1) /\ \A i \in 1..n : v[i] = w[i]
      /\ v[n + 1] = x
      BY <1>1, <1>2, AppendProperties, LenProperties
<1> HIDE DEF v, n
<1>4. \A i \in DOMAIN v : i \in DOMAIN w \/ i = n + 1
      BY <1>2, <1>3
<1>5. \A i \in DOMAIN w : i \in DOMAIN v /\ v[i] = w[i]
      BY <1>2, <1>3
<1>6. At(v, id) = At(w, id) /\ \A i \in At(w, id) : v[i] = w[i]
      BY <1>3, <1>4, <1>5 DEF At
<1>7. Alike(v, w, id)
      BY <1>6 DEF Alike, Once
<1>8. QED BY <1>6, <1>7 DEF v

(* Of a new item, a list to which it is added has it, once.                *)
LEMMA AppendHasIt ==
    ASSUME NEW S, NEW w \in Seq(S), NEW x, At(w, x.id) = {}
    PROVE  LET v == Append(w, x)
           IN /\ At(v, x.id) # {} /\ Once(v, x.id)
              /\ \A i \in At(v, x.id) : v[i] = x
<1> DEFINE T == S \cup {x}
           n == Len(w)
           v == Append(w, x)
<1>1. w \in Seq(T)
      BY SeqMonotonic
<1>2. n \in Nat /\ DOMAIN w = 1..n
      BY LenProperties
<1>3. /\ DOMAIN v = 1..(n + 1) /\ \A i \in 1..n : v[i] = w[i]
      /\ v[n + 1] = x
      BY <1>1, <1>2, AppendProperties, LenProperties
<1> HIDE DEF v, n
<1>4. \A i \in DOMAIN v : i \in DOMAIN w \/ i = n + 1
      BY <1>2, <1>3
<1>5. \A i \in DOMAIN w : w[i].id # x.id
      BY DEF At
<1>6. At(v, x.id) = {n + 1}
      <2>1. n + 1 \in DOMAIN v
            BY <1>2, <1>3
      <2>2. \A i \in DOMAIN v : v[i].id = x.id => i = n + 1
            BY <1>2, <1>3, <1>4, <1>5
      <2>3. QED BY <1>3, <2>1, <2>2 DEF At
<1>7. QED BY <1>3, <1>6 DEF Once, v

(* A sorted list says of an item what the list did.                        *)
LEMMA SortedIsAlike ==
    ASSUME NEW S, NEW items \in Seq(S), \A x \in S : x.id \in Int, NEW id
    PROVE  Alike(SortTimelineByDate(items), items, id)
BY SortReorders, ReorderedAreAlike

LEMMA WithoutIsAlike ==
    ASSUME NEW S, NEW items \in Seq(S), NEW gone, NEW id, id # gone
    PROVE  Alike(Without(items, gone), items, id)
<1> DEFINE l == Without(items, gone)
<1>1. /\ PartOf(l, items)
      /\ \A i \in DOMAIN items : items[i].id # gone => \E n \in DOMAIN l : l[n] = items[i]
      BY WithoutLeaves
<1> HIDE DEF l
<1>2. PICK f \in [DOMAIN l -> DOMAIN items] : /\ \A i \in DOMAIN l : l[i] = items[f[i]]
                                              /\ \A i, j \in DOMAIN l : f[i] = f[j] => i = j
      BY <1>1 DEF PartOf
<1>3. \A i \in At(l, id) : f[i] \in At(items, id) /\ l[i] = items[f[i]]
      BY <1>2 DEF At
<1>4. \A i \in At(items, id) : \E n \in At(l, id) : TRUE
      BY <1>1 DEF At
<1>5. At(l, id) = {} <=> At(items, id) = {}
      BY <1>3, <1>4
<1>6. ASSUME Once(items, id) PROVE Once(l, id)
      <2>1. \A i, j \in At(l, id) : f[i] = f[j]
            BY <1>3, <1>6 DEF Once
      <2>2. QED BY <1>2, <2>1 DEF Once, At
<1>7. Alike(l, items, id)
      BY <1>3, <1>5, <1>6 DEF Alike
<1>8. QED BY <1>7 DEF l

(* Items changed where they are.                                           *)
LEMMA ChangedIsAlike ==
    ASSUME NEW l, NEW w, DOMAIN l = DOMAIN w, \A i \in DOMAIN w : l[i].id = w[i].id,
           NEW id, \A i \in At(w, id) : l[i].text = w[i].text
    PROVE  Alike(l, w, id)
<1>1. At(l, id) = At(w, id)
      BY DEF At
<1>2. QED BY <1>1 DEF Alike, Once

-----------------------------------------------------------------------------
(* What is well formed.                                                    *)

(* What is made, and the live messages that wait.                          *)
Made == [kind : Kind, parent : Content, text : 0..MaxText, deleted : BOOLEAN]
Tlm == [event : {"created", "modified", "deleted", "undeleted"}, id : Nat, text : 0..MaxText]

MadeInv ==
    /\ made \in Seq(Made) /\ Len(made) <= MaxItem
    /\ \A id \in DOMAIN made : made[id].kind = "revision" =>
          made[id].text = 0 /\ ~made[id].deleted

(* The text that is told of an item is its text, or another one will be.   *)
TlmsInv ==
    /\ tlms \in Seq(Tlm)
    /\ \A j \in DOMAIN tlms :
          /\ tlms[j].id \in DOMAIN made
          /\ tlms[j].event = "deleted" => made[tlms[j].id].deleted \/ tlms[j].id \in disturbed
          /\ tlms[j].event = "undeleted" => tlms[j].id \in disturbed
          /\ made[tlms[j].id].kind = "revision" => tlms[j].event = "created"
          /\ tlms[j].event # "deleted" =>
                \/ tlms[j].text = made[tlms[j].id].text
                \/ \E k \in DOMAIN tlms : /\ k > j /\ tlms[k].id = tlms[j].id
                                          /\ tlms[k].event = "modified"
          /\ \A k \in DOMAIN tlms : k > j /\ tlms[k].id = tlms[j].id => tlms[k].event # "created"

(* A page token is the first one, or an item's.                            *)
IsToken(t, length) == t \in 1..FirstPage /\ (t # FirstPage => t <= length)

AnyItem == [id : Nat, text : 0..MaxText \cup {None},
            translation : {"disabled", "untranslated", "pending", "translated"}]
IsItem(x, length) == x \in AnyItem /\ x.id \in 1..length
IsItems(l, length) == l \in Seq(AnyItem) /\ \A i \in DOMAIN l : l[i].id \in 1..length

(* What is displayed is part of the timeline.                              *)
ListsInv ==
    /\ IsItems(wholeTimeline, Len(made)) /\ IsItems(timeline, Len(made))
    /\ PartOf(timeline, wholeTimeline)

TabInv ==
    /\ mounted \in Content /\ opened \in Content /\ content \in Content
    /\ pageToken \in [Kind -> 1..FirstPage] /\ hasMore \in [Kind -> BOOLEAN]
    /\ \A k \in Kind : IsToken(pageToken[k], Len(made))
    /\ loadingTimeline \in BOOLEAN /\ isLoadMoreTimelineInProgress \in BOOLEAN
    /\ disturbed \subseteq DOMAIN made

(* A call that was answered, and not by an error.                          *)
Read(call) == call.answer \notin {None, Refused, Lost}

(* A page has items of a content and a kind, from its next token on.       *)
IsPage(all, kind, c, from, page) ==
    /\ IsItems(page.items, Len(all))
    /\ IsToken(page.next, Len(all)) /\ page.next <= from /\ page.more \in BOOLEAN
    /\ \A i \in DOMAIN page.items :
          /\ all[page.items[i].id].kind = kind /\ all[page.items[i].id].parent = c
          /\ page.next <= page.items[i].id /\ page.items[i].id < from
    /\ \A i, j \in DOMAIN page.items : page.items[i].id = page.items[j].id => i = j

IsPagesCall(all, call) ==
    /\ {"op", "of", "count", "from", "answer"} \subseteq DOMAIN call
    /\ call.op \in {"load", "more"}
    /\ call.of \in Content /\ call.count \in Nat
    /\ call.from \in [Kind -> 1..FirstPage]
    /\ \A k \in Kind : IsToken(call.from[k], Len(all))
    /\ call.op = "load" => \A k \in Kind : call.from[k] = FirstPage
    /\ Read(call) => \A k \in Kind : IsPage(all, k, call.of, call.from[k], call.answer[k])

IsSingleCall(all, gone, call) ==
    /\ {"op", "id", "text", "answer"} \subseteq DOMAIN call
    /\ call.op \in {"add", "update", "revision", "translate"}
    /\ call.id \in DOMAIN all
    /\ all[call.id].kind = IF call.op = "revision" THEN "revision" ELSE "comment"
    /\ call.text \in 0..MaxText \cup {None}
    /\ Read(call) =>
          IF call.op = "revision"
          THEN /\ call.answer \in DOMAIN all
               /\ call.answer # call.id => {call.answer, call.id} \subseteq gone
          ELSE call.answer \in 0..MaxText

IsCall(all, gone, call) == IsPagesCall(all, call) \/ IsSingleCall(all, gone, call)

CallsInv ==
    /\ \E S : calls \in Seq(S)
    /\ Len(calls) <= MaxCall
    /\ \A i \in DOMAIN calls : IsCall(made, disturbed, calls[i])

TypeInv == MadeInv /\ TlmsInv /\ ListsInv /\ TabInv /\ CallsInv

(* Revisions and children are only added, and remain what and where they are. *)
Grows(later, all) ==
    /\ Len(all) <= Len(later) /\ DOMAIN all \subseteq DOMAIN later
    /\ \A id \in DOMAIN all : later[id].kind = all[id].kind /\ later[id].parent = all[id].parent

-----------------------------------------------------------------------------
(* The ids of what is made are the numbers from 1 on.                      *)
LEMMA MadeIsSeq ==
    ASSUME MadeInv
    PROVE  /\ Len(made) \in Nat /\ DOMAIN made = 1..Len(made) /\ Id = 1..Len(made)
           /\ \A id \in DOMAIN made : made[id] \in Made
           /\ Len(made) < FirstPage /\ FirstPage \in Nat
<1>1. Len(made) \in Nat /\ DOMAIN made = 1..Len(made) /\ \A id \in DOMAIN made : made[id] \in Made
      BY LenProperties, ElementOfSeq DEF MadeInv
<1>2. QED BY <1>1, BoundAssumption DEF MadeInv, FirstPage, Id

LEMMA GrowsTrivially == ASSUME NEW all, Len(all) \in Nat PROVE Grows(all, all)
BY DEF Grows

LEMMA TokenStill ==
    ASSUME NEW t, NEW m \in Nat, NEW n \in Nat, m <= n, IsToken(t, m)
    PROVE  IsToken(t, n)
BY BoundAssumption DEF IsToken, FirstPage

LEMMA ItemsStill ==
    ASSUME NEW l, NEW m \in Nat, NEW n \in Nat, m <= n, IsItems(l, m)
    PROVE  IsItems(l, n)
BY DEF IsItems

LEMMA PageStill ==
    ASSUME NEW all, NEW later, Grows(later, all), Len(all) \in Nat, Len(later) \in Nat,
           DOMAIN all = 1..Len(all),
           NEW kind, NEW c, NEW from, NEW page, IsPage(all, kind, c, from, page)
    PROVE  IsPage(later, kind, c, from, page)
<1>1. Len(all) <= Len(later)
      BY DEF Grows
<1>2. IsItems(page.items, Len(later)) /\ IsToken(page.next, Len(later))
      BY <1>1, ItemsStill, TokenStill DEF IsPage
<1>3. \A i \in DOMAIN page.items : page.items[i].id \in DOMAIN all
      BY DEF IsPage, IsItems
<1>4. \A i \in DOMAIN page.items :
          /\ later[page.items[i].id].kind = kind /\ later[page.items[i].id].parent = c
      BY <1>3 DEF IsPage, Grows
<1>5. QED BY <1>2, <1>4 DEF IsPage

(* A call stays well formed while more is made and disturbed.              *)
LEMMA CallStill ==
    ASSUME NEW all, NEW later, Grows(later, all), Len(all) \in Nat, Len(later) \in Nat,
           DOMAIN all = 1..Len(all),
           NEW gone, NEW more, gone \subseteq more,
           NEW call, IsCall(all, gone, call)
    PROVE  IsCall(later, more, call)
<1>1. CASE IsPagesCall(all, call)
      <2>1. \A k \in Kind : IsToken(call.from[k], Len(later))
            <3>1. Len(all) <= Len(later) /\ \A k \in Kind : IsToken(call.from[k], Len(all))
                  BY <1>1 DEF IsPagesCall, Grows
            <3>2. QED BY <3>1, TokenStill
      <2>2. ASSUME Read(call), NEW k \in Kind
            PROVE  IsPage(later, k, call.of, call.from[k], call.answer[k])
            <3>1. IsPage(all, k, call.of, call.from[k], call.answer[k])
                  BY <1>1, <2>2 DEF IsPagesCall
            <3>2. QED BY <3>1, PageStill
      <2>3. IsPagesCall(later, call)
            BY <1>1, <2>1, <2>2 DEF IsPagesCall
      <2>4. QED BY <2>3 DEF IsCall
<1>2. CASE IsSingleCall(all, gone, call)
      <2>1. IsSingleCall(later, more, call)
            BY <1>2 DEF IsSingleCall, Grows
      <2>2. QED BY <2>1 DEF IsCall
<1>3. QED BY <1>1, <1>2 DEF IsCall

-----------------------------------------------------------------------------
(* What making, ending and answering a call leave.                         *)
CallsGrow(made_, before, call) ==
    /\ \E S : made_ \in Seq(S)
    /\ Len(made_) = Len(before) + 1
    /\ DOMAIN before \subseteq DOMAIN made_
    /\ \A j \in DOMAIN before : made_[j] = before[j]
    /\ \A j \in DOMAIN made_ : j \in DOMAIN before \/ j = Len(made_)
    /\ Len(made_) \in DOMAIN made_ /\ Len(made_) \notin DOMAIN before
    /\ made_[Len(made_)] = call

(* A call is made: it is the last one.                                     *)
LEMMA CallsWith ==
    ASSUME NEW before, \E S : before \in Seq(S), NEW call
    PROVE  CallsGrow(Append(before, call), before, call)
<1>1. PICK S : before \in Seq(S)
      OBVIOUS
<1> DEFINE T == S \cup {call}
           after == Append(before, call)
<1>2. before \in Seq(T) /\ call \in T
      BY <1>1, SeqMonotonic
<1>3. DOMAIN before = 1..Len(before) /\ Len(before) \in Nat
      BY <1>1, LenProperties
<1>4. /\ after \in Seq(T) /\ DOMAIN after = 1..(Len(before) + 1) /\ Len(after) = Len(before) + 1
      /\ \A j \in 1..Len(before) : after[j] = before[j]
      /\ after[Len(before) + 1] = call
      BY <1>2, <1>3, AppendProperties, LenProperties
<1> HIDE DEF after, T
<1>5. \E U : after \in Seq(U)
      BY <1>4
<1>6. QED BY <1>3, <1>4, <1>5 DEF CallsGrow, after

(* old: where each of the calls that are left was.                         *)
CallsShrink(after, before, i) ==
    /\ \E S : after \in Seq(S)
    /\ Len(after) < Len(before)
    /\ \E old \in [DOMAIN after -> DOMAIN before] :
          /\ \A j \in DOMAIN after : old[j] # i /\ after[j] = before[old[j]]
          /\ \A j, k \in DOMAIN after : old[j] = old[k] => j = k
          /\ \A k \in DOMAIN before : k # i => \E j \in DOMAIN after : old[j] = k

(* A call ends: the others are left.                                       *)
LEMMA CallsWithout ==
    ASSUME NEW before, \E S : before \in Seq(S), NEW i \in DOMAIN before
    PROVE  CallsShrink(RemoveAt(before, i), before, i)
<1>1. PICK S : before \in Seq(S)
      OBVIOUS
<1> DEFINE n == Len(before)
           after == RemoveAt(before, i)
           old == [j \in 1..(n - 1) |-> IF j < i THEN j ELSE j + 1]
<1>2. DOMAIN before = 1..n /\ n \in Nat
      BY <1>1, LenProperties
<1>3. /\ after \in Seq(S) /\ Len(after) = n - 1
      /\ \A j \in 1..(n - 1) : after[j] = IF j < i THEN before[j] ELSE before[j + 1]
      BY <1>1, <1>2, RemoveAtProperties
<1> HIDE DEF after, n
<1>4. DOMAIN after = 1..(n - 1)
      BY <1>3, LenProperties
<1>5. old \in [DOMAIN after -> DOMAIN before]
      BY <1>2, <1>4
<1>6. \A j \in DOMAIN after : old[j] # i /\ after[j] = before[old[j]]
      BY <1>2, <1>3, <1>4
<1>7. \A j, k \in DOMAIN after : old[j] = old[k] => j = k
      BY <1>2, <1>4
<1>8. ASSUME NEW k \in DOMAIN before, k # i
      PROVE  \E j \in DOMAIN after : old[j] = k
      <2>1. CASE k < i
            <3>1. k \in DOMAIN after /\ old[k] = k
                  BY <1>2, <1>4, <2>1
            <3>2. QED BY <3>1
      <2>2. CASE k > i
            <3>1. k - 1 \in DOMAIN after /\ old[k - 1] = k
                  BY <1>2, <1>4, <2>2
            <3>2. QED BY <3>1
      <2>3. QED BY <1>2, <1>8, <2>1, <2>2
<1> HIDE DEF old
<1>9. (\E U : after \in Seq(U)) /\ Len(after) < Len(before)
      BY <1>2, <1>3 DEF n
<1>10. \E o \in [DOMAIN after -> DOMAIN before] :
          /\ \A j \in DOMAIN after : o[j] # i /\ after[j] = before[o[j]]
          /\ \A j, k \in DOMAIN after : o[j] = o[k] => j = k
          /\ \A k \in DOMAIN before : k # i => \E j \in DOMAIN after : o[j] = k
      BY <1>5, <1>6, <1>7, <1>8
<1>11. QED BY <1>9, <1>10, Zenon DEF CallsShrink, after

(* A call is answered: the others are left.                                *)
LEMMA CallsAnswered ==
    ASSUME NEW before, \E S : before \in Seq(S), NEW i \in DOMAIN before,
           \A j \in DOMAIN before : "answer" \in DOMAIN before[j], NEW answer
    PROVE  LET after == [before EXCEPT ![i].answer = answer]
           IN /\ \E S : after \in Seq(S)
              /\ Len(after) = Len(before) /\ DOMAIN after = DOMAIN before
              /\ \A j \in DOMAIN before : j # i => after[j] = before[j]
              /\ after[i] = [before[i] EXCEPT !.answer = answer]
<1>1. PICK S : before \in Seq(S)
      OBVIOUS
<1> DEFINE call == [before[i] EXCEPT !.answer = answer]
           T == S \cup {call}
           after == [before EXCEPT ![i].answer = answer]
<1>2. before \in Seq(T) /\ DOMAIN before = 1..Len(before) /\ call \in T
      BY <1>1, SeqMonotonic, LenProperties
<1>3. after = [before EXCEPT ![i] = call]
      OBVIOUS
<1> HIDE DEF call, T, after
<1>4. after \in Seq(T) /\ Len(after) = Len(before)
      BY <1>2, <1>3, ExceptSeq, LenProperties
<1>5. DOMAIN after = DOMAIN before /\ \A j \in DOMAIN before : j # i => after[j] = before[j]
      BY <1>3
<1>6. after[i] = call
      BY <1>3
<1>7. \E U : after \in Seq(U)
      BY <1>4
<1>8. QED BY <1>4, <1>5, <1>6, <1>7 DEF after, call

-----------------------------------------------------------------------------
(* Lists hold items through every operation on them.                       *)

LEMMA ItemsAreNumbered == \A x \in AnyItem : x.id \in Int
BY DEF AnyItem

LEMMA PartHoldsItems ==
    ASSUME NEW n, NEW w, IsItems(w, n), NEW t \in Seq(AnyItem), PartOf(t, w)
    PROVE  IsItems(t, n)
BY DEF IsItems, PartOf

LEMMA SortHoldsItems ==
    ASSUME NEW n, NEW w, IsItems(w, n)
    PROVE  /\ IsItems(SortTimelineByDate(w), n)
           /\ PartOf(SortTimelineByDate(w), w) /\ PartOf(w, SortTimelineByDate(w))
<1>1. w \in Seq(AnyItem)
      BY DEF IsItems
<1>2. /\ SortTimelineByDate(w) \in Seq(AnyItem)
      /\ PartOf(SortTimelineByDate(w), w) /\ PartOf(w, SortTimelineByDate(w))
      BY <1>1, ItemsAreNumbered, SortReorders
<1>3. QED BY <1>2, PartHoldsItems

LEMMA WithoutHoldsItems ==
    ASSUME NEW n, NEW w, IsItems(w, n), NEW id
    PROVE  IsItems(Without(w, id), n)
<1>1. w \in Seq(AnyItem)
      BY DEF IsItems
<1>2. Without(w, id) \in Seq(AnyItem) /\ PartOf(Without(w, id), w)
      BY <1>1, WithoutLeaves
<1>3. QED BY <1>2, PartHoldsItems

LEMMA AppendHoldsItems ==
    ASSUME NEW n, NEW w, IsItems(w, n), NEW x, IsItem(x, n)
    PROVE  IsItems(Append(w, x), n)
<1>1. w \in Seq(AnyItem) /\ x \in AnyItem /\ x.id \in 1..n
      BY DEF IsItems, IsItem
<1>2. /\ Append(w, x) \in Seq(AnyItem) /\ DOMAIN Append(w, x) = 1..(Len(w) + 1)
      /\ \A i \in 1..Len(w) : Append(w, x)[i] = w[i]
      /\ Append(w, x)[Len(w) + 1] = x
      BY <1>1, AppendProperties, LenProperties
<1>3. DOMAIN w = 1..Len(w) /\ Len(w) \in Nat
      BY <1>1, LenProperties
<1>4. \A i \in 1..(Len(w) + 1) : i \in DOMAIN w \/ i = Len(w) + 1
      BY <1>3
<1>5. \A i \in DOMAIN Append(w, x) : Append(w, x)[i].id \in 1..n
      BY <1>1, <1>2, <1>3, <1>4 DEF IsItems
<1>6. QED BY <1>2, <1>5 DEF IsItems

(* Items are changed where they are.                                       *)
LEMMA ChangeHoldsItems ==
    ASSUME NEW n, NEW w, IsItems(w, n), NEW l, l = [i \in DOMAIN w |-> l[i]],
           \A i \in DOMAIN w : IsItem(l[i], n)
    PROVE  IsItems(l, n)
<1>1. DOMAIN w = 1..Len(w) /\ Len(w) \in Nat
      BY LenProperties DEF IsItems
<1>2. l \in [1..Len(w) -> AnyItem] /\ DOMAIN l = DOMAIN w
      BY <1>1 DEF IsItem
<1>3. l \in Seq(AnyItem)
      BY <1>1, <1>2, SeqDef
<1>4. QED BY <1>2, <1>3 DEF IsItems, IsItem

LEMMA ConcatHoldsItems ==
    ASSUME NEW n, NEW v, NEW w, IsItems(v, n), IsItems(w, n)
    PROVE  IsItems(v \o w, n)
<1>1. v \in Seq(AnyItem) /\ w \in Seq(AnyItem)
      BY DEF IsItems
<1>2. /\ DOMAIN v = 1..Len(v) /\ Len(v) \in Nat
      /\ DOMAIN w = 1..Len(w) /\ Len(w) \in Nat
      BY <1>1, LenProperties
<1>3. /\ v \o w \in Seq(AnyItem) /\ DOMAIN (v \o w) = 1..(Len(v) + Len(w))
      /\ \A i \in 1..(Len(v) + Len(w)) :
            (v \o w)[i] = IF i <= Len(v) THEN v[i] ELSE w[i - Len(v)]
      BY <1>1, ConcatProperties, LenProperties
<1>4. ASSUME NEW i \in 1..(Len(v) + Len(w)) PROVE (v \o w)[i].id \in 1..n
      <2>1. CASE i <= Len(v)
            BY <1>2, <1>3, <2>1 DEF IsItems
      <2>2. CASE ~(i <= Len(v))
            <3>1. i - Len(v) \in DOMAIN w
                  BY <1>2, <2>2
            <3>2. QED BY <1>3, <2>2, <3>1 DEF IsItems
      <2>3. QED BY <2>1, <2>2
<1>5. QED BY <1>3, <1>4 DEF IsItems

LEMMA ItemIsItem ==
    ASSUME NEW n \in Nat, NEW id \in 1..n, NEW text \in 0..MaxText \cup {None}
    PROVE  /\ IsItem(Item(id, text), n)
           /\ Item(id, text).id = id /\ Item(id, text).text = text
BY DEF IsItem, Item, AnyItem

-----------------------------------------------------------------------------
ListsOf(n) == /\ IsItems(wholeTimeline, n) /\ IsItems(timeline, n)
              /\ PartOf(timeline, wholeTimeline)

(* What is displayed of a list is part of it.                              *)
LEMMA SetTimelineLists ==
    ASSUME NEW n, NEW w, IsItems(w, n), NEW itemCount \in Int, SetTimeline(w, itemCount)
    PROVE  ListsOf(n)'
<1>1. w \in Seq(AnyItem) /\ wholeTimeline' = w /\ timeline' = GetTimeline(w, itemCount)
      BY DEF IsItems, SetTimeline
<1>2. GetTimeline(w, itemCount) \in Seq(AnyItem) /\ PartOf(GetTimeline(w, itemCount), w)
      BY <1>1, GetTimelineIsPart
<1>3. IsItems(timeline', n)
      BY <1>1, <1>2, PartHoldsItems
<1>4. QED BY <1>1, <1>2, <1>3 DEF ListsOf

LEMMA AddLists ==
    ASSUME NEW n, ListsOf(n), NEW item, IsItem(item, n), AddChildContentToTimeline(item)
    PROVE  ListsOf(n)'
<1> DEFINE w == Append(wholeTimeline, item)
           t == Append(timeline, item)
<1>1. wholeTimeline' = SortTimelineByDate(w) /\ timeline' = SortTimelineByDate(t)
      BY DEF AddChildContentToTimeline
<1>2. IsItems(w, n) /\ IsItems(t, n)
      BY AppendHoldsItems DEF ListsOf
<1>3. PartOf(t, w)
      <2>1. wholeTimeline \in Seq(AnyItem) /\ timeline \in Seq(AnyItem) /\ item \in AnyItem
            BY DEF ListsOf, IsItems, IsItem
      <2>2. QED BY <2>1, AppendIsPart DEF ListsOf
<1> HIDE DEF w, t
<1>4. /\ IsItems(wholeTimeline', n) /\ PartOf(w, wholeTimeline')
      /\ IsItems(timeline', n) /\ PartOf(timeline', t)
      BY <1>1, <1>2, SortHoldsItems
<1>5. PartOf(timeline', wholeTimeline')
      BY <1>3, <1>4, PartOfPart
<1>6. QED BY <1>4, <1>5 DEF ListsOf

LEMMA EmptyLists ==
    ASSUME NEW n, wholeTimeline' = <<>>, timeline' = <<>>
    PROVE  ListsOf(n)'
<1>1. IsItems(<<>>, n)
      BY DEF IsItems
<1>2. PartOf(<<>>, <<>>)
      BY PartOfItself
<1>3. QED BY <1>1, <1>2 DEF ListsOf

LEMMA ListsAreOf == ListsInv <=> ListsOf(Len(made))
BY DEF ListsInv, ListsOf

-----------------------------------------------------------------------------
(* The calls, when one is made, when one ends and when nothing is awaited. *)
LEMMA CallsStay ==
    ASSUME MadeInv, MadeInv', Grows(made', made), disturbed \subseteq disturbed', CallsInv,
           UNCHANGED calls
    PROVE  CallsInv'
<1>1. \A i \in DOMAIN calls : IsCall(made', disturbed', calls[i])
      BY CallStill, MadeIsSeq, LenProperties DEF CallsInv, MadeInv
<1>2. QED BY <1>1 DEF CallsInv

LEMMA CallsComeAndStay ==
    ASSUME MadeInv, MadeInv', Grows(made', made), disturbed \subseteq disturbed', CallsInv,
           NEW call, calls' = Append(calls, call), Len(calls) < MaxCall,
           IsCall(made', disturbed', call)
    PROVE  CallsInv'
<1>1. \A i \in DOMAIN calls : IsCall(made', disturbed', calls[i])
      BY CallStill, MadeIsSeq, LenProperties DEF CallsInv, MadeInv
<1>2. CallsGrow(calls', calls, call)
      BY CallsWith DEF CallsInv
<1>3. Len(calls) \in Nat
      BY LenProperties DEF CallsInv
<1>4. \A i \in DOMAIN calls' : IsCall(made', disturbed', calls'[i])
      BY <1>1, <1>2 DEF CallsGrow
<1>5. QED BY <1>2, <1>3, <1>4, BoundAssumption DEF CallsInv, CallsGrow

LEMMA CallsGoAndStay ==
    ASSUME MadeInv, MadeInv', Grows(made', made), disturbed \subseteq disturbed', CallsInv,
           NEW i \in DOMAIN calls, calls' = RemoveAt(calls, i)
    PROVE  CallsInv'
<1>1. \A j \in DOMAIN calls : IsCall(made', disturbed', calls[j])
      BY CallStill, MadeIsSeq, LenProperties DEF CallsInv, MadeInv
<1>2. CallsShrink(calls', calls, i)
      BY CallsWithout DEF CallsInv
<1>3. Len(calls) \in Nat /\ Len(calls') \in Nat
      BY <1>2, LenProperties DEF CallsInv, CallsShrink
<1>4. PICK old \in [DOMAIN calls' -> DOMAIN calls] :
          \A j \in DOMAIN calls' : calls'[j] = calls[old[j]]
      BY <1>2 DEF CallsShrink
<1>5. \A j \in DOMAIN calls' : IsCall(made', disturbed', calls'[j])
      BY <1>1, <1>4
<1>6. QED BY <1>2, <1>3, <1>5, BoundAssumption DEF CallsInv, CallsShrink

-----------------------------------------------------------------------------
(* The other users: what they create, edit and delete, and its message.    *)

(* What a step of another user does to what is made.                       *)
Changes(event, id, text) ==
    /\ Grows(made', made) /\ MadeInv'
    /\ id \in DOMAIN made' /\ text \in 0..MaxText
    /\ event \in {"created", "modified", "deleted", "undeleted"}
    /\ \A q \in DOMAIN made : q # id => made'[q] = made[q]
    /\ \A q \in DOMAIN made' : q # id => q \in DOMAIN made
    /\ event = "deleted" => made'[id].deleted
    /\ made'[id].kind = "revision" => event = "created"
    /\ event # "deleted" => text = made'[id].text
    /\ event = "created" <=> id \notin DOMAIN made
    /\ event = "created" => id > Len(made) /\ ~made'[id].deleted
    /\ event \in {"modified", "deleted"} => ~made[id].deleted
    /\ event \in {"modified", "undeleted"} => ~made'[id].deleted
    /\ event \in {"deleted", "undeleted"} => made'[id].text = made[id].text

LEMMA CreateChanges ==
    ASSUME MadeInv, NEW kind \in ChildKind \cup {"revision"}, NEW c \in Content, Create(kind, c)
    PROVE  /\ Changes("created", Len(made) + 1, 0) /\ Publish("created", Len(made) + 1, 0)
           /\ Len(made') = Len(made) + 1
<1> DEFINE new == [kind |-> kind, parent |-> c, text |-> 0, deleted |-> FALSE]
<1>1. new \in Made
      BY KindAssumption, BoundAssumption DEF Made, Kind
<1>2. made' = Append(made, new) /\ Publish("created", Len(made) + 1, 0) /\ Len(made) < MaxItem
      BY DEF Create
<1>3. new.text = 0 /\ ~new.deleted
      OBVIOUS
<1> HIDE DEF new
<1>4. Len(made) \in Nat /\ DOMAIN made = 1..Len(made)
      BY MadeIsSeq
<1>5. /\ made' \in Seq(Made) /\ Len(made') = Len(made) + 1 /\ DOMAIN made' = 1..(Len(made) + 1)
      /\ \A q \in 1..Len(made) : made'[q] = made[q]
      /\ made'[Len(made) + 1] = new
      BY <1>1, <1>2, <1>4, AppendProperties, LenProperties DEF MadeInv
<1>6. \A q \in DOMAIN made' : q \in DOMAIN made \/ q = Len(made) + 1
      BY <1>4, <1>5
<1>7. MadeInv'
      <2>1. \A q \in DOMAIN made' : made'[q].kind = "revision" => made'[q].text = 0 /\ ~made'[q].deleted
            BY <1>3, <1>4, <1>5, <1>6 DEF MadeInv
      <2>2. Len(made') <= MaxItem
            BY <1>2, <1>4, <1>5, BoundAssumption
      <2>3. QED BY <1>5, <2>1, <2>2 DEF MadeInv
<1>8. Grows(made', made)
      BY <1>4, <1>5 DEF Grows
<1>9. QED BY <1>2, <1>3, <1>4, <1>5, <1>6, <1>7, <1>8, BoundAssumption DEF Changes

LEMMA OneChanged ==
    ASSUME MadeInv, NEW id \in DOMAIN made, NEW new \in Made, made' = [made EXCEPT ![id] = new],
           made[id].kind # "revision", new.kind = made[id].kind, new.parent = made[id].parent
    PROVE  /\ MadeInv' /\ Grows(made', made) /\ DOMAIN made' = DOMAIN made
           /\ \A q \in DOMAIN made : q # id => made'[q] = made[q]
           /\ made'[id] = new
<1>1. DOMAIN made' = DOMAIN made /\ made'[id] = new /\ \A q \in DOMAIN made : q # id => made'[q] = made[q]
      OBVIOUS
<1>2. made' \in Seq(Made) /\ Len(made') = Len(made)
      BY <1>1, ExceptSeq, LenProperties, MadeIsSeq DEF MadeInv
<1>3. MadeInv'
      BY <1>1, <1>2 DEF MadeInv
<1>4. Grows(made', made)
      BY <1>1, <1>2, MadeIsSeq DEF Grows
<1>5. QED BY <1>1, <1>3, <1>4

LEMMA EditChanges ==
    ASSUME MadeInv, NEW id \in Id, Edit(id)
    PROVE  /\ Changes("modified", id, made[id].text + 1)
           /\ Publish("modified", id, made[id].text + 1)
<1>1. id \in DOMAIN made /\ made[id] \in Made
      BY MadeIsSeq
<1> DEFINE new == [made[id] EXCEPT !.text = made[id].text + 1]
<1>2. /\ made' = [made EXCEPT ![id] = new] /\ Publish("modified", id, made[id].text + 1)
      /\ made[id].kind # "revision" /\ ~made[id].deleted /\ made[id].text < MaxText
      BY <1>1 DEF Edit, IsChild
<1>3. /\ new \in Made /\ new.kind = made[id].kind /\ new.parent = made[id].parent
      /\ new.text = made[id].text + 1 /\ ~new.deleted /\ new.text \in 0..MaxText
      BY <1>1, <1>2, BoundAssumption DEF Made
<1> HIDE DEF new
<1>4. /\ MadeInv' /\ Grows(made', made) /\ DOMAIN made' = DOMAIN made
      /\ \A q \in DOMAIN made : q # id => made'[q] = made[q]
      /\ made'[id] = new
      BY <1>1, <1>2, <1>3, OneChanged
<1>5. QED BY <1>1, <1>2, <1>3, <1>4 DEF Changes

LEMMA DeleteChanges ==
    ASSUME MadeInv, NEW id \in Id, Delete(id)
    PROVE  Changes("deleted", id, made[id].text) /\ Publish("deleted", id, made[id].text)
<1>1. id \in DOMAIN made /\ made[id] \in Made
      BY MadeIsSeq
<1> DEFINE new == [made[id] EXCEPT !.deleted = TRUE]
<1>2. /\ made' = [made EXCEPT ![id] = new] /\ Publish("deleted", id, made[id].text)
      /\ made[id].kind # "revision" /\ ~made[id].deleted
      BY <1>1 DEF Delete, IsChild
<1>3. /\ new \in Made /\ new.kind = made[id].kind /\ new.parent = made[id].parent
      /\ new.text = made[id].text /\ new.deleted /\ new.text \in 0..MaxText
      BY <1>1, <1>2 DEF Made
<1> HIDE DEF new
<1>4. /\ MadeInv' /\ Grows(made', made) /\ DOMAIN made' = DOMAIN made
      /\ \A q \in DOMAIN made : q # id => made'[q] = made[q]
      /\ made'[id] = new
      BY <1>1, <1>2, <1>3, OneChanged
<1>5. QED BY <1>1, <1>2, <1>3, <1>4 DEF Changes

LEMMA RestoreChanges ==
    ASSUME MadeInv, NEW id \in Id, Restore(id)
    PROVE  Changes("undeleted", id, made[id].text) /\ Publish("undeleted", id, made[id].text)
<1>1. id \in DOMAIN made /\ made[id] \in Made
      BY MadeIsSeq
<1> DEFINE new == [made[id] EXCEPT !.deleted = FALSE]
<1>2. /\ made' = [made EXCEPT ![id] = new] /\ Publish("undeleted", id, made[id].text)
      /\ made[id].kind # "revision"
      BY <1>1 DEF Restore, IsChild
<1>3. /\ new \in Made /\ new.kind = made[id].kind /\ new.parent = made[id].parent
      /\ new.text = made[id].text /\ ~new.deleted /\ new.text \in 0..MaxText
      BY <1>1, <1>2 DEF Made
<1> HIDE DEF new
<1>4. /\ MadeInv' /\ Grows(made', made) /\ DOMAIN made' = DOMAIN made
      /\ \A q \in DOMAIN made : q # id => made'[q] = made[q]
      /\ made'[id] = new
      BY <1>1, <1>2, <1>3, OneChanged
<1>5. QED BY <1>1, <1>2, <1>3, <1>4 DEF Changes

(* The live message of a change is the last of those that wait.            *)
LEMMA Published ==
    ASSUME TlmsInv, NEW event, NEW id, NEW text, Publish(event, id, text),
           event \in {"created", "modified", "deleted", "undeleted"}, id \in Nat, text \in 0..MaxText
    PROVE  /\ tlms' \in Seq(Tlm) /\ DOMAIN tlms' = DOMAIN tlms \cup {Len(tlms) + 1}
           /\ DOMAIN tlms = 1..Len(tlms) /\ Len(tlms) \in Nat /\ Len(tlms) + 1 \notin DOMAIN tlms
           /\ \A j \in DOMAIN tlms : tlms'[j] = tlms[j]
           /\ tlms'[Len(tlms) + 1] = [event |-> event, id |-> id, text |-> text]
<1> DEFINE new == [event |-> event, id |-> id, text |-> text]
<1>1. new \in Tlm /\ tlms' = Append(tlms, new) /\ tlms \in Seq(Tlm)
      BY DEF Tlm, Publish, TlmsInv
<1> HIDE DEF new
<1>2. DOMAIN tlms = 1..Len(tlms) /\ Len(tlms) \in Nat
      BY <1>1, LenProperties
<1>3. /\ tlms' \in Seq(Tlm) /\ DOMAIN tlms' = 1..(Len(tlms) + 1)
      /\ \A j \in 1..Len(tlms) : tlms'[j] = tlms[j]
      /\ tlms'[Len(tlms) + 1] = new
      BY <1>1, <1>2, AppendProperties, LenProperties
<1>4. QED BY <1>2, <1>3 DEF new

(* What is published is true, and the messages before it may be outdated.  *)
LEMMA PublishedTlms ==
    ASSUME MadeInv, TlmsInv, NEW event, NEW id, NEW text, Publish(event, id, text),
           Changes(event, id, text)
    PROVE  TlmsInv'
<1> DEFINE n == Len(tlms) + 1
<1>1. event \in {"created", "modified", "deleted", "undeleted"} /\ id \in Nat /\ text \in 0..MaxText
      <2>1. DOMAIN made' = 1..Len(made')
            BY LenProperties DEF Changes, MadeInv
      <2>2. QED BY <2>1 DEF Changes
<1>2. /\ tlms' \in Seq(Tlm) /\ DOMAIN tlms' = DOMAIN tlms \cup {n}
      /\ \A j \in DOMAIN tlms : j \in Nat /\ j < n /\ tlms'[j] = tlms[j]
      /\ n \in Nat /\ n \notin DOMAIN tlms
      /\ tlms'[n].event = event /\ tlms'[n].id = id /\ tlms'[n].text = text
      <2>1. /\ tlms' \in Seq(Tlm) /\ DOMAIN tlms' = DOMAIN tlms \cup {Len(tlms) + 1}
            /\ DOMAIN tlms = 1..Len(tlms) /\ Len(tlms) \in Nat /\ Len(tlms) + 1 \notin DOMAIN tlms
            /\ \A j \in DOMAIN tlms : tlms'[j] = tlms[j]
            /\ tlms'[Len(tlms) + 1] = [event |-> event, id |-> id, text |-> text]
            BY <1>1, Published
      <2>2. tlms'[n].event = event /\ tlms'[n].id = id /\ tlms'[n].text = text
            BY <2>1
      <2>3. \A j \in DOMAIN tlms : j \in Nat /\ j < n
            BY <2>1
      <2>4. QED BY <2>1, <2>2, <2>3
<1> HIDE DEF n
<1>3. \A j \in DOMAIN tlms' : tlms'[j].id \in DOMAIN made'
      BY <1>2 DEF Changes, Grows, TlmsInv
<1>4. ASSUME NEW j \in DOMAIN tlms'
      PROVE  /\ tlms'[j].event = "deleted" => made'[tlms'[j].id].deleted \/ tlms'[j].id \in disturbed'
             /\ tlms'[j].event = "undeleted" => tlms'[j].id \in disturbed'
      <2>1. disturbed' = IF event = "undeleted" THEN disturbed \cup {id} ELSE disturbed
            BY DEF Publish
      <2>2. CASE j = n
            BY <1>2, <2>1, <2>2 DEF Changes
      <2>3. CASE j # n
            <3>1. /\ j \in DOMAIN tlms /\ tlms'[j] = tlms[j] /\ tlms[j].id \in DOMAIN made
                  /\ tlms[j].event = "deleted" => made[tlms[j].id].deleted \/ tlms[j].id \in disturbed
                  /\ tlms[j].event = "undeleted" => tlms[j].id \in disturbed
                  BY <1>2, <2>3 DEF TlmsInv
            <3>2. CASE tlms[j].id # id
                  BY <2>1, <3>1, <3>2 DEF Changes
            <3>3. CASE tlms[j].id = id
                  BY <1>1, <2>1, <3>1, <3>3 DEF Changes
            <3>4. QED BY <3>2, <3>3
      <2>4. QED BY <2>2, <2>3
<1>5. \A j \in DOMAIN tlms' : made'[tlms'[j].id].kind = "revision" => tlms'[j].event = "created"
      BY <1>2 DEF Changes, Grows, TlmsInv
<1>6. ASSUME NEW j \in DOMAIN tlms', tlms'[j].event # "deleted"
      PROVE  \/ tlms'[j].text = made'[tlms'[j].id].text
             \/ \E k \in DOMAIN tlms' : /\ k > j /\ tlms'[k].id = tlms'[j].id
                                        /\ tlms'[k].event = "modified"
      <2>1. CASE j = n
            BY <1>2, <1>6, <2>1 DEF Changes
      <2>2. CASE j # n
            <3>1. j \in DOMAIN tlms /\ tlms'[j] = tlms[j] /\ tlms[j].id \in DOMAIN made
                  BY <1>2, <2>2 DEF TlmsInv
            <3>2. CASE \E k \in DOMAIN tlms : /\ k > j /\ tlms[k].id = tlms[j].id
                                              /\ tlms[k].event = "modified"
                  BY <1>2, <3>1, <3>2
            <3>3. CASE tlms[j].text = made[tlms[j].id].text /\ tlms[j].id # id
                  BY <3>1, <3>3 DEF Changes
            <3>4. CASE tlms[j].text = made[tlms[j].id].text /\ tlms[j].id = id
                  <4>1. CASE event = "modified"
                        BY <1>2, <3>1, <3>4, <4>1
                  <4>2. CASE event \in {"deleted", "undeleted"}
                        BY <3>1, <3>4, <4>2 DEF Changes
                  <4>3. QED BY <1>1, <3>1, <3>4, <4>1, <4>2 DEF Changes
            <3>5. QED BY <1>6, <3>1, <3>2, <3>3, <3>4 DEF TlmsInv
      <2>3. QED BY <2>1, <2>2
<1>7. ASSUME NEW j \in DOMAIN tlms', NEW k \in DOMAIN tlms', k > j, tlms'[k].id = tlms'[j].id
      PROVE  tlms'[k].event # "created"
      <2>1. CASE k = n
            <3>1. j \in DOMAIN tlms /\ tlms[j].id = id
                  BY <1>2, <1>7, <2>1
            <3>2. QED BY <1>2, <2>1, <3>1 DEF TlmsInv, Changes
      <2>2. CASE k # n
            <3>1. k \in DOMAIN tlms /\ j \in DOMAIN tlms
                  BY <1>2, <1>7, <2>2
            <3>2. QED BY <1>2, <1>7, <3>1 DEF TlmsInv
      <2>3. QED BY <2>1, <2>2
<1>8. QED BY <1>2, <1>3, <1>4, <1>5, <1>6, <1>7 DEF TlmsInv

LEMMA TabGrows ==
    ASSUME MadeInv, MadeInv', Grows(made', made), TabInv,
           UNCHANGED <<openVars, content, pageVars, loadingTimeline, isLoadMoreTimelineInProgress>>,
           disturbed' \subseteq DOMAIN made'
    PROVE  TabInv'
<1>1. Len(made) <= Len(made') /\ Len(made) \in Nat /\ Len(made') \in Nat
      BY MadeIsSeq, LenProperties DEF Grows, MadeInv
<1>2. \A k \in Kind : IsToken(pageToken[k], Len(made'))
      BY <1>1, TokenStill DEF TabInv
<1>3. QED BY <1>2 DEF TabInv, openVars, pageVars

(* What another user does leaves the state well formed.                    *)
LEMMA ChangedTypes ==
    ASSUME TypeInv, NEW event, NEW id, NEW text, Publish(event, id, text),
           Changes(event, id, text)
    PROVE  TypeInv'
<1>1. MadeInv /\ MadeInv' /\ Grows(made', made)
      BY DEF Changes, TypeInv
<1>2. TlmsInv'
      BY <1>1, PublishedTlms DEF TypeInv
<1>3. ListsInv'
      <2>1. Len(made) <= Len(made') /\ Len(made) \in Nat /\ Len(made') \in Nat
            BY <1>1, MadeIsSeq, LenProperties DEF Grows, MadeInv
      <2>2. IsItems(wholeTimeline, Len(made')) /\ IsItems(timeline, Len(made'))
            BY <2>1, ItemsStill DEF TypeInv, ListsInv
      <2>3. QED BY <2>2 DEF TypeInv, ListsInv, Publish, listVars
<1>4. disturbed \subseteq disturbed' /\ disturbed' \subseteq DOMAIN made'
      BY <1>1 DEF Publish, Changes, Grows, TypeInv, TabInv
<1>5. TabInv'
      BY <1>1, <1>4, TabGrows DEF TypeInv, Publish
<1>6. CallsInv'
      BY <1>1, <1>4, CallsStay DEF TypeInv, Publish
<1>7. QED BY <1>1, <1>2, <1>3, <1>5, <1>6 DEF TypeInv

-----------------------------------------------------------------------------
(* What the server answers.                                                *)

(* What the server answers: the newest items below the token, up to date.  *)
Listed(all, kind, c, from, id) ==
    /\ id \in DOMAIN all /\ all[id].kind = kind /\ all[id].parent = c
    /\ ~all[id].deleted /\ id < from

(* A page has the newest items listed below its token, and no other.       *)
LEMMA PageAnswers ==
    ASSUME MadeInv, NEW kind, NEW c, NEW from, IsToken(from, Len(made))
    PROVE  LET page == Page(kind, c, from)
           IN /\ IsPage(made, kind, c, from, page)
              /\ \A i \in DOMAIN page.items :
                    /\ Listed(made, kind, c, from, page.items[i].id)
                    /\ page.items[i].text = made[page.items[i].id].text
              /\ \A id \in DOMAIN made :
                    Listed(made, kind, c, from, id) /\ (page.next <= id \/ ~page.more) =>
                        At(page.items, id) # {}
<1> DEFINE found == {id \in Id : /\ made[id].kind = kind /\ ParentOf(id) = c
                                 /\ ~made[id].deleted /\ id < from}
           newest == {id \in found : Cardinality({o \in found : o >= id}) <= PageSize}
           listed == Ascending(newest)
           n == Cardinality(newest)
           page == Page(kind, c, from)
<1>1. /\ Len(made) \in Nat /\ DOMAIN made = 1..Len(made) /\ Id = 1..Len(made)
      /\ \A id \in DOMAIN made : made[id] \in Made
      /\ Len(made) < FirstPage /\ FirstPage \in Nat
      BY MadeIsSeq
<1>2. \A id \in Id : id \in found <=> Listed(made, kind, c, from, id)
      BY <1>1 DEF Listed, ParentOf
<1>3. found \in SUBSET Id /\ found \in SUBSET (1..Len(made))
      BY <1>1
<1>4. page = [items |-> [i \in DOMAIN listed |-> Item(listed[i], made[listed[i]].text)],
              next |-> IF newest = {} THEN from ELSE Min(newest),
              more |-> newest # found]
      BY DEF Page
<1> HIDE DEF page, found
<1>5. IsFiniteSet(found) /\ found \in SUBSET Int
      <2>1. IsFiniteSet(1..Len(made)) /\ (1..Len(made)) \subseteq Int
            BY <1>1, FS_Interval
      <2>2. QED BY <1>3, <2>1, FS_Subset
<1>6. newest \in SUBSET found
      OBVIOUS
<1>7. ASSUME NEW id \in newest, NEW o \in found, o >= id PROVE o \in newest
      <2> DEFINE A == {p \in found : p >= o}
                 B == {p \in found : p >= id}
      <2>1. id \in Int /\ o \in Int /\ \A p \in found : p \in Int
            BY <1>5, <1>6
      <2>2. A \in SUBSET B
            <3>1. \A p \in found : p >= o => p >= id
                  BY <1>7, <2>1
            <3>2. QED BY <3>1
      <2>3. IsFiniteSet(B) /\ Cardinality(B) <= PageSize
            BY <1>5, FS_Subset
      <2>4. Cardinality(A) = Cardinality({p \in found : p >= o})
            OBVIOUS
      <2> HIDE DEF A, B
      <2>5. Cardinality(A) <= Cardinality(B) /\ Cardinality(A) \in Nat /\ Cardinality(B) \in Nat
            BY <2>2, <2>3, FewerElements
      <2>6. Cardinality(A) <= PageSize
            BY <2>3, <2>5, BoundAssumption
      <2>7. QED BY <2>4, <2>6
<1>8. newest \in SUBSET Int /\ newest \in SUBSET Nat /\ IsFiniteSet(newest)
      <2>1. (1..Len(made)) \subseteq Nat
            OBVIOUS
      <2>2. QED BY <1>3, <1>5, <1>6, <2>1, FS_Subset
<1> HIDE DEF newest
<1>9. /\ n \in Nat /\ DOMAIN listed = 1..n
      /\ \A i \in 1..n : listed[i] \in newest
      /\ \A id \in newest : \E i \in 1..n : listed[i] = id
      /\ \A i, j \in 1..n : listed[i] = listed[j] => i = j
      BY <1>8, AscendingLists
<1>10. newest # {} => Min(newest) \in newest /\ \A id \in newest : Min(newest) <= id
      BY <1>8, MinIsLeast
<1> HIDE DEF listed, n
<1>11. /\ DOMAIN page.items = 1..n
       /\ \A i \in 1..n : page.items[i] = Item(listed[i], made[listed[i]].text)
       /\ page.next = IF newest = {} THEN from ELSE Min(newest)
       /\ page.more = (newest # found)
       /\ page.items = [i \in 1..n |-> page.items[i]]
      BY <1>4, <1>9
<1>12. \A i \in 1..n : /\ listed[i] \in newest /\ listed[i] \in found /\ listed[i] \in DOMAIN made
                       /\ page.items[i].id = listed[i]
                       /\ page.items[i].text = made[listed[i]].text
                       /\ IsItem(page.items[i], Len(made))
      <2> TAKE i \in 1..n
      <2>1. listed[i] \in newest /\ listed[i] \in found /\ listed[i] \in 1..Len(made)
            BY <1>3, <1>6, <1>9
      <2>2. made[listed[i]].text \in 0..MaxText
            BY <1>1, <2>1 DEF Made
      <2>3. QED BY <1>1, <1>11, <2>1, <2>2, ItemIsItem
<1>13. \A i \in 1..n : Listed(made, kind, c, from, listed[i])
      BY <1>1, <1>2, <1>12
<1>14. IsItems(page.items, Len(made))
      <2>1. page.items \in [1..n -> AnyItem]
            BY <1>11, <1>12 DEF IsItem
      <2>2. page.items \in Seq(AnyItem)
            BY <1>9, <2>1, SeqDef
      <2>3. QED BY <1>11, <1>12, <2>2 DEF IsItems, IsItem
<1>15. IsToken(page.next, Len(made)) /\ page.next <= from
      <2>1. from \in 1..FirstPage
            BY DEF IsToken
      <2>2. CASE newest = {}
            BY <1>1, <1>11, <2>1, <2>2
      <2>3. CASE newest # {}
            <3>1. page.next \in found /\ page.next \in 1..Len(made)
                  BY <1>3, <1>6, <1>10, <1>11, <2>3
            <3>2. page.next < from
                  BY <1>1, <1>2, <3>1 DEF Listed
            <3>3. QED BY <1>1, <2>1, <3>1, <3>2 DEF IsToken
      <2>4. QED BY <2>2, <2>3
<1>16. \A i \in 1..n : page.next <= page.items[i].id
      <2> TAKE i \in 1..n
      <2>1. newest # {} /\ page.next = Min(newest)
            BY <1>11, <1>12
      <2>2. QED BY <1>10, <1>12, <2>1
<1>17. IsPage(made, kind, c, from, page)
      <2>1. \A i \in DOMAIN page.items :
                /\ made[page.items[i].id].kind = kind /\ made[page.items[i].id].parent = c
                /\ page.next <= page.items[i].id /\ page.items[i].id < from
            BY <1>11, <1>12, <1>13, <1>16 DEF Listed
      <2>2. \A i, j \in DOMAIN page.items : page.items[i].id = page.items[j].id => i = j
            BY <1>9, <1>11, <1>12
      <2>3. page.more \in BOOLEAN
            BY <1>11
      <2>4. QED BY <1>14, <1>15, <2>1, <2>2, <2>3 DEF IsPage
<1>18. \A i \in DOMAIN page.items :
          /\ Listed(made, kind, c, from, page.items[i].id)
          /\ page.items[i].text = made[page.items[i].id].text
      BY <1>11, <1>12, <1>13
<1>19. ASSUME NEW id \in DOMAIN made, Listed(made, kind, c, from, id),
              page.next <= id \/ ~page.more
       PROVE  At(page.items, id) # {}
      <2>1. id \in found /\ id \in 1..Len(made)
            BY <1>1, <1>2, <1>19
      <2>2. id \in newest
            <3>1. CASE ~page.more
                  BY <1>11, <2>1, <3>1
            <3>2. CASE newest = {} /\ page.next <= id
                  <4>1. from <= id /\ id < from /\ from \in 1..FirstPage
                        BY <1>11, <1>19, <3>2 DEF Listed, IsToken
                  <4>2. QED BY <1>1, <2>1, <4>1
            <3>3. CASE newest # {} /\ page.next <= id
                  <4>1. Min(newest) \in newest /\ Min(newest) <= id /\ Min(newest) \in Int
                        BY <1>8, <1>10, <1>11, <3>3
                  <4>2. id >= Min(newest)
                        BY <2>1, <4>1
                  <4>3. QED BY <1>7, <2>1, <4>1, <4>2
            <3>4. QED BY <1>19, <3>1, <3>2, <3>3
      <2>3. PICK i \in 1..n : listed[i] = id
            BY <1>9, <2>2
      <2>4. QED BY <1>11, <1>12, <2>3 DEF At
<1>20. QED BY <1>17, <1>18, <1>19 DEF page

LEMMA CurrentRevisionIs ==
    ASSUME MadeInv, NEW c, \E r \in DOMAIN made : made[r].kind = "revision" /\ made[r].parent = c
    PROVE  CurrentRevision(c) \in DOMAIN made
<1> DEFINE S == {r \in Id : made[r].kind = "revision" /\ ParentOf(r) = c}
<1>1. Len(made) \in Nat /\ Id = 1..Len(made) /\ DOMAIN made = Id
      BY MadeIsSeq
<1>2. S # {} /\ S \in SUBSET (1..Len(made))
      BY <1>1 DEF ParentOf
<1>3. \E r \in S : \A s \in S : s <= r
      <2> HIDE DEF S
      <2>1. QED BY <1>1, <1>2, GreatestExists
<1>4. \E r \in Id : /\ made[r].kind = "revision" /\ ParentOf(r) = c
                    /\ \A s \in Id : made[s].kind = "revision" /\ ParentOf(s) = c => s <= r
      BY <1>3
<1>5. QED BY <1>1, <1>4 DEF CurrentRevision

-----------------------------------------------------------------------------
(* Live messages, as far as what is well formed goes.                      *)

(* A call is for pages or about one item.                                  *)
LEMMA CallKinds ==
    ASSUME CallsInv, NEW i \in DOMAIN calls
    PROVE  /\ IsPages(calls[i]) => IsPagesCall(made, calls[i])
           /\ ~IsPages(calls[i]) => IsSingleCall(made, disturbed, calls[i])
           /\ "answer" \in DOMAIN calls[i]
BY DEF CallsInv, IsCall, IsPages, IsPagesCall, IsSingleCall

LEMMA AwaitedAreMade ==
    ASSUME MadeInv, CallsInv
    PROVE  Awaited \subseteq DOMAIN made
<1>1. Id = DOMAIN made
      BY MadeIsSeq
<1>2. ASSUME ~ \E i \in DOMAIN calls : IsPages(calls[i]), NEW i \in DOMAIN calls
      PROVE  calls[i].id \in DOMAIN made
      BY <1>2, CallKinds DEF IsSingleCall
<1>3. QED BY <1>1, <1>2 DEF Awaited

LEMMA SingleIsCall ==
    ASSUME NEW gone, NEW op \in {"add", "update", "revision", "translate"},
           NEW id \in DOMAIN made, NEW text \in 0..MaxText \cup {None},
           made[id].kind = IF op = "revision" THEN "revision" ELSE "comment"
    PROVE  LET call == Single(op, id, text)
           IN /\ IsCall(made, gone, call) /\ ~IsPages(call) /\ ~Read(call)
              /\ call.op = op /\ call.id = id /\ call.text = text /\ call.answer = None
<1> DEFINE call == Single(op, id, text)
<1>1. /\ {"op", "id", "text", "answer"} \subseteq DOMAIN call /\ ~IsPages(call)
      /\ call.op = op /\ call.id = id /\ call.text = text /\ call.answer = None
      BY DEF Single, IsPages
<1> HIDE DEF call
<1>2. ~Read(call)
      BY <1>1 DEF Read
<1>3. IsCall(made, gone, call)
      BY <1>1, <1>2 DEF IsCall, IsSingleCall
<1>4. QED BY <1>1, <1>2, <1>3 DEF call

LEMMA PagesIsCall ==
    ASSUME NEW gone, NEW op \in {"load", "more"}, NEW c \in Content, NEW count \in Nat,
           NEW from \in [Kind -> 1..FirstPage], \A k \in Kind : IsToken(from[k], Len(made)),
           op = "load" => \A k \in Kind : from[k] = FirstPage
    PROVE  LET call == Pages(op, c, count, from)
           IN /\ IsCall(made, gone, call) /\ IsPages(call) /\ ~Read(call)
              /\ call.op = op /\ call.of = c /\ call.count = count /\ call.from = from
<1> DEFINE call == Pages(op, c, count, from)
<1>1. /\ {"op", "of", "count", "from", "answer"} \subseteq DOMAIN call /\ IsPages(call)
      /\ call.op = op /\ call.of = c /\ call.count = count /\ call.from = from
      /\ call.answer = None
      BY DEF Pages, IsPages
<1> HIDE DEF call
<1>2. ~Read(call)
      BY <1>1 DEF Read
<1>3. IsCall(made, gone, call)
      BY <1>1, <1>2 DEF IsCall, IsPagesCall
<1>4. QED BY <1>1, <1>2, <1>3 DEF call

-----------------------------------------------------------------------------
(* The first message is handled: what is left of the others.               *)
LEMMA TailLeaves ==
    ASSUME TlmsInv, tlms # <<>>, tlms' = Tail(tlms)
    PROVE  /\ tlms' \in Seq(Tlm) /\ Head(tlms) = tlms[1] /\ 1 \in DOMAIN tlms
           /\ Head(tlms) \in Tlm
           /\ \A j \in DOMAIN tlms' : j + 1 \in DOMAIN tlms /\ tlms'[j] = tlms[j + 1] /\ j \in Nat
           /\ \A j \in DOMAIN tlms : j \in Nat /\ (j = 1 \/ (j - 1 \in DOMAIN tlms' /\ tlms'[j - 1] = tlms[j] /\ j > 1))
<1>1. tlms \in Seq(Tlm) /\ DOMAIN tlms = 1..Len(tlms) /\ Len(tlms) \in Nat
      BY LenProperties DEF TlmsInv
<1>2. Len(tlms) >= 1
      BY <1>1, EmptySeq
<1>3. /\ tlms' \in Seq(Tlm) /\ Head(tlms) = tlms[1] /\ Head(tlms) \in Tlm
      /\ Len(tlms') = Len(tlms) - 1
      /\ \A j \in 1..(Len(tlms) - 1) : tlms'[j] = tlms[j + 1]
      BY <1>1, HeadTailProperties
<1>4. DOMAIN tlms' = 1..(Len(tlms) - 1)
      BY <1>3, LenProperties
<1>5. QED BY <1>1, <1>2, <1>3, <1>4

(* The messages that are left are true.                                    *)
LEMMA TailTlms ==
    ASSUME TlmsInv, tlms # <<>>, tlms' = Tail(tlms), UNCHANGED made, disturbed \subseteq disturbed'
    PROVE  TlmsInv'
<1>1. /\ tlms' \in Seq(Tlm)
      /\ \A j \in DOMAIN tlms' : j + 1 \in DOMAIN tlms /\ tlms'[j] = tlms[j + 1] /\ j \in Nat
      /\ \A j \in DOMAIN tlms : j \in Nat /\ (j = 1 \/ (j - 1 \in DOMAIN tlms' /\ tlms'[j - 1] = tlms[j] /\ j > 1))
      BY TailLeaves
<1>2. \A j \in DOMAIN tlms' :
          /\ tlms'[j].id \in DOMAIN made
          /\ tlms'[j].event = "deleted" => made[tlms'[j].id].deleted \/ tlms'[j].id \in disturbed'
          /\ tlms'[j].event = "undeleted" => tlms'[j].id \in disturbed'
          /\ made[tlms'[j].id].kind = "revision" => tlms'[j].event = "created"
      BY <1>1 DEF TlmsInv
<1>3. ASSUME NEW j \in DOMAIN tlms', tlms'[j].event # "deleted"
      PROVE  \/ tlms'[j].text = made[tlms'[j].id].text
             \/ \E k \in DOMAIN tlms' : /\ k > j /\ tlms'[k].id = tlms'[j].id
                                        /\ tlms'[k].event = "modified"
      <2>1. CASE tlms'[j].text = made[tlms'[j].id].text
            BY <2>1
      <2>2. CASE tlms'[j].text # made[tlms'[j].id].text
            <3>1. PICK k \in DOMAIN tlms : /\ k > j + 1 /\ tlms[k].id = tlms'[j].id
                                           /\ tlms[k].event = "modified"
                  BY <1>1, <1>3, <2>2 DEF TlmsInv
            <3>2. k - 1 \in DOMAIN tlms' /\ tlms'[k - 1] = tlms[k] /\ k - 1 > j
                  BY <1>1, <3>1
            <3>3. QED BY <3>1, <3>2
      <2>3. QED BY <2>1, <2>2
<1>4. ASSUME NEW j \in DOMAIN tlms', NEW k \in DOMAIN tlms', k > j, tlms'[k].id = tlms'[j].id
      PROVE  tlms'[k].event # "created"
      <2>1. k + 1 > j + 1 /\ tlms[k + 1].id = tlms[j + 1].id
            BY <1>1, <1>4
      <2>2. QED BY <1>1, <2>1 DEF TlmsInv
<1>5. QED BY <1>1, <1>2, <1>3, <1>4 DEF TlmsInv

LEMMA LengthsAreInt ==
    ASSUME ListsInv
    PROVE  Len(timeline) \in Nat /\ Len(wholeTimeline) \in Nat
BY LenProperties DEF ListsInv, IsItems

(* The handlers of live messages keep the lists lists of items.            *)
LEMMA HandleLists ==
    ASSUME TypeInv, UNCHANGED made, NEW tlm, tlm \in Tlm, tlm.id \in DOMAIN made,
           \/ UNCHANGED listVars
           \/ AddChildContentToTimeline(Item(tlm.id, tlm.text))
           \/ SetTimeline(Without(wholeTimeline, tlm.id), Len(timeline) - 1)
           \/ \E index \in DOMAIN wholeTimeline :
                 SetTimeline([wholeTimeline EXCEPT ![index] = Item(tlm.id, tlm.text)], Len(timeline))
    PROVE  ListsInv'
<1>0. ListsOf(Len(made)) /\ Len(timeline) \in Nat /\ Len(made) \in Nat /\ DOMAIN made = 1..Len(made)
      BY ListsAreOf, LengthsAreInt, MadeIsSeq DEF TypeInv
<1> DEFINE n == Len(made)
<1>1. IsItem(Item(tlm.id, tlm.text), n)
      BY <1>0, ItemIsItem DEF Tlm
<1>2. IsItems(wholeTimeline, n)
      BY DEF TypeInv, ListsInv
<1>3. PICK m : m = n
      OBVIOUS
<1>4. ListsOf(m)'
      <2>1. CASE UNCHANGED listVars
            BY <1>0, <1>3, <2>1 DEF ListsOf, listVars
      <2>2. CASE AddChildContentToTimeline(Item(tlm.id, tlm.text))
            BY <1>0, <1>1, <1>3, <2>2, AddLists
      <2>3. CASE SetTimeline(Without(wholeTimeline, tlm.id), Len(timeline) - 1)
            <3>1. IsItems(Without(wholeTimeline, tlm.id), m) /\ Len(timeline) - 1 \in Int
                  BY <1>0, <1>2, <1>3, WithoutHoldsItems
            <3>2. QED BY <2>3, <3>1, SetTimelineLists
      <2>4. ASSUME NEW index \in DOMAIN wholeTimeline,
                   SetTimeline([wholeTimeline EXCEPT ![index] = Item(tlm.id, tlm.text)], Len(timeline))
            PROVE  ListsOf(m)'
            <3> DEFINE item == Item(tlm.id, tlm.text)
                       l == [wholeTimeline EXCEPT ![index] = item]
            <3>1. IsItem(item, m) /\ SetTimeline(l, Len(timeline))
                  BY <1>1, <1>3, <2>4
            <3> HIDE DEF item
            <3>2. wholeTimeline \in Seq(AnyItem)
                  BY DEF TypeInv, ListsInv, IsItems
            <3>3. l = [i \in DOMAIN wholeTimeline |-> l[i]]
                  BY <3>2, LenProperties
            <3>4. \A i \in DOMAIN wholeTimeline : IsItem(l[i], m)
                  BY <1>2, <1>3, <3>1, <3>2, ElementOfSeq, LenProperties DEF IsItems, IsItem
            <3> HIDE DEF l
            <3>5. IsItems(l, m)
                  BY <1>2, <1>3, <3>3, <3>4, ChangeHoldsItems
            <3>6. QED BY <1>0, <3>1, <3>5, SetTimelineLists
      <2>5. QED BY <2>1, <2>2, <2>3, <2>4
<1>5. QED BY <1>3, <1>4 DEF ListsInv, ListsOf

(* A live message leaves the state well formed.                            *)
LEMMA HandleTlmTypes == TypeInv /\ HandleTlm => TypeInv'
<1> SUFFICES ASSUME TypeInv, HandleTlm PROVE TypeInv'
    OBVIOUS
<1>1. PICK tlm : tlm = Head(tlms)
      OBVIOUS
<1>2. /\ tlms # <<>> /\ Len(calls) < MaxCall /\ Handled(tlm.id) /\ UNCHANGED made
      /\ \/ HandleCommentCreated(tlm)
         \/ HandleContentCommentModified(tlm)
         \/ HandleContentModified(tlm)
         \/ HandleChildContentCreated(tlm)
         \/ HandleChildContentDeleted(tlm)
         \/ HandleChildContentModified(tlm)
         \/ HandleChildContentRestored(tlm)
      BY <1>1 DEF HandleTlm, Handled
<1>3. tlms' = Tail(tlms) /\ tlm \in Tlm /\ tlm.id \in DOMAIN made
      BY <1>1, <1>2, TailLeaves DEF Handled, TypeInv, TlmsInv
<1>4. disturbed \subseteq disturbed' /\ disturbed' \subseteq DOMAIN made
      BY <1>2, <1>3 DEF Handled, TypeInv, TabInv
<1>5. MadeInv /\ MadeInv' /\ Grows(made', made) /\ TlmsInv'
      BY <1>2, <1>3, <1>4, TailTlms, GrowsTrivially, MadeIsSeq DEF TypeInv, MadeInv
<1>6. ListsInv'
      <2>1. \/ UNCHANGED listVars
            \/ AddChildContentToTimeline(Item(tlm.id, tlm.text))
            \/ SetTimeline(Without(wholeTimeline, tlm.id), Len(timeline) - 1)
            \/ \E index \in DOMAIN wholeTimeline :
                  SetTimeline([wholeTimeline EXCEPT ![index] = Item(tlm.id, tlm.text)], Len(timeline))
            <3>1. CASE HandleCommentCreated(tlm)
                  BY <3>1 DEF HandleCommentCreated, Await
            <3>2. CASE HandleContentCommentModified(tlm)
                  BY <3>2 DEF HandleContentCommentModified, Await
            <3>3. CASE HandleContentModified(tlm)
                  BY <3>3 DEF HandleContentModified, Await
            <3>4. CASE HandleChildContentCreated(tlm)
                  BY <3>4 DEF HandleChildContentCreated
            <3>5. CASE HandleChildContentDeleted(tlm)
                  BY <3>5 DEF HandleChildContentDeleted
            <3>6. CASE HandleChildContentModified(tlm)
                  <4> DEFINE I == {i \in DOMAIN wholeTimeline : wholeTimeline[i].id = tlm.id}
                  <4>1. tlm.id \in Ids(wholeTimeline) => Min(I) \in I
                        <5>1. I \in SUBSET Nat
                              BY LenProperties DEF TypeInv, ListsInv, IsItems
                        <5>2. tlm.id \in Ids(wholeTimeline) => I # {}
                              BY DEF Ids
                        <5> HIDE DEF I
                        <5>3. QED BY <5>1, <5>2, MinIsLeast
                  <4>2. QED BY <3>6, <4>1 DEF HandleChildContentModified
            <3>7. CASE HandleChildContentRestored(tlm)
                  BY <3>7 DEF HandleChildContentRestored
            <3>8. QED BY <1>2, <3>1, <3>2, <3>3, <3>4, <3>5, <3>6, <3>7
      <2>2. QED BY <1>2, <1>3, <2>1, HandleLists
<1>7. TabInv'
      BY <1>2, <1>4, <1>5, TabGrows DEF TypeInv, Handled
<1>8. CallsInv'
      <2>1. UNCHANGED calls
            \/ \E op \in {"add", "update", "revision"} :
                  /\ calls' = Append(calls, Single(op, tlm.id, 0))
                  /\ made[tlm.id].kind = IF op = "revision" THEN "revision" ELSE "comment"
            BY <1>2 DEF HandleCommentCreated, HandleContentCommentModified, HandleContentModified,
                        HandleChildContentCreated, HandleChildContentDeleted,
                        HandleChildContentModified, HandleChildContentRestored, Await
      <2>2. ASSUME NEW op \in {"add", "update", "revision"},
                   calls' = Append(calls, Single(op, tlm.id, 0)),
                   made[tlm.id].kind = IF op = "revision" THEN "revision" ELSE "comment"
            PROVE  CallsInv'
            <3>1. PICK call : call = Single(op, tlm.id, 0)
                  OBVIOUS
            <3>2. 0 \in 0..MaxText \cup {None}
                  BY BoundAssumption
            <3>3. PICK gone : gone = disturbed'
                  OBVIOUS
            <3>4. IsCall(made, gone, call)
                  BY <1>3, <2>2, <3>1, <3>2, SingleIsCall
            <3>5. QED BY <1>2, <1>4, <1>5, <2>2, <3>1, <3>3, <3>4, CallsComeAndStay DEF TypeInv
      <2>3. QED BY <1>4, <1>5, <2>1, <2>2, CallsStay DEF TypeInv
<1>9. QED BY <1>5, <1>6, <1>7, <1>8 DEF TypeInv

-----------------------------------------------------------------------------
(* Showing, loading more, translating, and the answers.                    *)

LEMMA ShowContentTypes ==
    ASSUME TypeInv, NEW c \in Content, ShowContent(c)
    PROVE  TypeInv'
<1>1. MadeInv /\ MadeInv' /\ Grows(made', made) /\ TlmsInv' /\ UNCHANGED made
      BY GrowsTrivially, MadeIsSeq DEF TypeInv, ShowContent, serverVars, MadeInv, TlmsInv
<1>2. disturbed \subseteq disturbed' /\ disturbed' \subseteq DOMAIN made
      BY AwaitedAreMade DEF ShowContent, TypeInv, TabInv
<1>3. /\ wholeTimeline' = <<>> /\ timeline' = <<>>
      /\ pageToken' = [k \in Kind |-> FirstPage] /\ hasMore' = [k \in Kind |-> TRUE]
      /\ loadingTimeline' = TRUE /\ opened' = c
      /\ calls' = Append(calls, Pages("load", c, PageSize, pageToken')) /\ Len(calls) < MaxCall
      /\ UNCHANGED <<mounted, content, isLoadMoreTimelineInProgress>>
      BY DEF ShowContent, LoadTimeline
<1>4. PICK n : n = Len(made)
      OBVIOUS
<1>5. ListsInv'
      BY <1>1, <1>3, <1>4, EmptyLists DEF ListsInv, ListsOf
<1>6. FirstPage \in 1..FirstPage
      BY BoundAssumption DEF FirstPage
<1>7. \A k \in Kind : IsToken(FirstPage, Len(made))
      BY <1>6 DEF IsToken
<1>8. TabInv'
      BY <1>1, <1>2, <1>3, <1>6, <1>7 DEF TypeInv, TabInv
<1>9. CallsInv'
      <2>1. PICK from : from = pageToken'
            OBVIOUS
      <2>2. /\ from \in [Kind -> 1..FirstPage] /\ \A k \in Kind : IsToken(from[k], Len(made))
            /\ \A k \in Kind : from[k] = FirstPage
            BY <1>3, <1>6, <1>7, <2>1
      <2>3. PICK call : call = Pages("load", c, PageSize, from)
            OBVIOUS
      <2>4. PICK gone : gone = disturbed'
            OBVIOUS
      <2>5. IsCall(made, gone, call)
            BY <2>2, <2>3, PagesIsCall, BoundAssumption
      <2>6. QED BY <1>1, <1>2, <1>3, <2>1, <2>3, <2>4, <2>5, CallsComeAndStay DEF TypeInv
<1>10. QED BY <1>1, <1>5, <1>8, <1>9 DEF TypeInv

LEMMA LoadMoreTypes == TypeInv /\ LoadMoreTimelineItems => TypeInv'
<1> SUFFICES ASSUME TypeInv, LoadMoreTimelineItems PROVE TypeInv'
    OBVIOUS
<1>1. MadeInv /\ MadeInv' /\ Grows(made', made) /\ TlmsInv' /\ UNCHANGED made
      BY GrowsTrivially, MadeIsSeq DEF TypeInv, LoadMoreTimelineItems, serverVars, MadeInv, TlmsInv
<1>2. disturbed \subseteq disturbed' /\ disturbed' \subseteq DOMAIN made
      BY AwaitedAreMade DEF LoadMoreTimelineItems, TypeInv, TabInv
<1>3. /\ calls' = Append(calls, Pages("more", content, Len(timeline) + PageSize, pageToken))
      /\ Len(calls) < MaxCall /\ isLoadMoreTimelineInProgress' = TRUE
      /\ UNCHANGED <<openVars, content, listVars, pageVars, loadingTimeline>>
      BY DEF LoadMoreTimelineItems
<1>4. ListsInv' /\ TabInv'
      BY <1>1, <1>2, <1>3 DEF TypeInv, ListsInv, TabInv, openVars, listVars, pageVars
<1>5. CallsInv'
      <2>1. PICK call : call = Pages("more", content, Len(timeline) + PageSize, pageToken)
            OBVIOUS
      <2>2. PICK gone : gone = disturbed'
            OBVIOUS
      <2>3. Len(timeline) + PageSize \in Nat
            BY LengthsAreInt, BoundAssumption DEF TypeInv
      <2>4. IsCall(made, gone, call)
            BY <2>1, <2>3, PagesIsCall DEF TypeInv, TabInv
      <2>5. QED BY <1>1, <1>2, <1>3, <2>1, <2>2, <2>4, CallsComeAndStay DEF TypeInv
<1>6. QED BY <1>1, <1>4, <1>5 DEF TypeInv

(* A comment is replaced in the timeline.                                  *)
LEMMA ReplaceHoldsItems ==
    ASSUME NEW n, NEW w, IsItems(w, n), NEW item, IsItem(item, n)
    PROVE  IsItems(ReplaceComment(item, w), n)
<1> DEFINE l == ReplaceComment(item, w)
<1>1. l = [i \in DOMAIN w |-> IF w[i].id = item.id THEN item ELSE w[i]]
      BY DEF ReplaceComment
<1>2. \A i \in DOMAIN w : IsItem(w[i], n)
      BY ElementOfSeq, LenProperties DEF IsItems, IsItem
<1>3. l = [i \in DOMAIN w |-> l[i]] /\ \A i \in DOMAIN w : IsItem(l[i], n)
      BY <1>1, <1>2
<1> HIDE DEF l
<1>4. IsItems(l, n)
      BY <1>3, ChangeHoldsItems
<1>5. QED BY <1>4 DEF l

LEMMA ReplaceLists ==
    ASSUME TypeInv, UNCHANGED made, NEW item, IsItem(item, Len(made)),
           SetTimeline(ReplaceComment(item, wholeTimeline), Len(timeline))
    PROVE  ListsInv'
<1>1. PICK n : n = Len(made)
      OBVIOUS
<1>2. IsItems(ReplaceComment(item, wholeTimeline), n)
      BY <1>1, ReplaceHoldsItems DEF TypeInv, ListsInv
<1>3. ListsOf(n)'
      BY <1>2, LengthsAreInt, SetTimelineLists DEF TypeInv
<1>4. QED BY <1>1, <1>3 DEF ListsOf, ListsInv

LEMMA DisplayedIsItem ==
    ASSUME TypeInv, NEW j \in DOMAIN timeline
    PROVE  /\ IsItem(timeline[j], Len(made)) /\ timeline[j].id \in DOMAIN made
           /\ \A t \in {"disabled", "untranslated", "pending", "translated"} :
                 IsItem([timeline[j] EXCEPT !.translation = t], Len(made))
<1>1. timeline[j] \in AnyItem /\ timeline[j].id \in 1..Len(made) /\ DOMAIN made = 1..Len(made)
      BY ElementOfSeq, LenProperties, MadeIsSeq DEF TypeInv, ListsInv, IsItems
<1>2. QED BY <1>1 DEF IsItem, AnyItem

LEMMA TranslateTypes ==
    ASSUME TypeInv, NEW j \in DOMAIN timeline, TranslateComment(timeline[j])
    PROVE  TypeInv'
<1>1. MadeInv /\ MadeInv' /\ Grows(made', made) /\ TlmsInv' /\ UNCHANGED made
      BY GrowsTrivially, MadeIsSeq DEF TypeInv, TranslateComment, serverVars, MadeInv, TlmsInv
<1>2. PICK item : item = timeline[j]
      OBVIOUS
<1>3. /\ IsItem([item EXCEPT !.translation = "pending"], Len(made))
      /\ item.id \in DOMAIN made /\ IsItem(item, Len(made))
      BY <1>2, DisplayedIsItem
<1>4. /\ Len(calls) < MaxCall /\ made[item.id].kind = "comment"
      /\ SetTimeline(ReplaceComment([item EXCEPT !.translation = "pending"], wholeTimeline),
                     Len(timeline))
      /\ calls' = Append(calls, Single("translate", item.id, item.text))
      /\ disturbed' = disturbed \cup ({item.id} \cap Awaited)
      /\ UNCHANGED <<openVars, content, pageVars, loadingTimeline, isLoadMoreTimelineInProgress>>
      BY <1>2 DEF TranslateComment
<1>5. disturbed \subseteq disturbed' /\ disturbed' \subseteq DOMAIN made
      BY <1>3, <1>4 DEF TypeInv, TabInv
<1>6. ListsInv'
      BY <1>1, <1>3, <1>4, ReplaceLists
<1>7. TabInv'
      BY <1>1, <1>4, <1>5, TabGrows DEF TypeInv
<1>8. CallsInv'
      <2>1. PICK call : call = Single("translate", item.id, item.text)
            OBVIOUS
      <2>2. item.text \in 0..MaxText \cup {None}
            BY <1>3 DEF IsItem, AnyItem
      <2>3. PICK gone : gone = disturbed'
            OBVIOUS
      <2>4. IsCall(made, gone, call)
            BY <1>3, <1>4, <2>1, <2>2, SingleIsCall
      <2>5. QED BY <1>1, <1>4, <1>5, <2>1, <2>3, <2>4, CallsComeAndStay DEF TypeInv
<1>9. QED BY <1>1, <1>6, <1>7, <1>8 DEF TypeInv

LEMMA RestoreTypes ==
    ASSUME TypeInv, NEW j \in DOMAIN timeline, RestoreComment(timeline[j])
    PROVE  TypeInv'
<1>1. MadeInv /\ MadeInv' /\ Grows(made', made) /\ TlmsInv' /\ UNCHANGED made
      BY GrowsTrivially, MadeIsSeq DEF TypeInv, RestoreComment, serverVars, MadeInv, TlmsInv
<1>2. IsItem([timeline[j] EXCEPT !.translation = "untranslated"], Len(made))
      BY DisplayedIsItem
<1>3. ListsInv'
      BY <1>1, <1>2, ReplaceLists DEF RestoreComment
<1>4. TabInv'
      BY <1>1, TabGrows DEF TypeInv, RestoreComment, TabInv
<1>5. CallsInv'
      BY <1>1, CallsStay DEF TypeInv, RestoreComment
<1>6. QED BY <1>1, <1>3, <1>4, <1>5 DEF TypeInv

-----------------------------------------------------------------------------
(* The answers.                                                            *)
LEMMA AnswerIs ==
    ASSUME MadeInv, CallsInv, NEW i \in DOMAIN calls
    PROVE  /\ calls[i].op = "revision" => Answer(calls[i]) \in DOMAIN made
           /\ ~IsPages(calls[i]) /\ calls[i].op # "revision" =>
                 /\ Answer(calls[i]) = made[calls[i].id].text
                 /\ Answer(calls[i]) \in 0..MaxText
           /\ IsPages(calls[i]) =>
                 Answer(calls[i]) = [k \in Kind |-> Page(k, calls[i].of, calls[i].from[k])]
<1>1. PICK call : call = calls[i]
      OBVIOUS
<1>2. CASE call.op = "revision"
      <2>1. ~IsPages(call) /\ Answer(call) = CurrentRevision(ParentOf(call.id))
            BY <1>2 DEF IsPages, Answer
      <2>2. call.id \in DOMAIN made /\ made[call.id].kind = "revision"
            BY <1>1, <1>2, <2>1, CallKinds DEF IsSingleCall
      <2>3. QED BY <1>1, <1>2, <2>1, <2>2, CurrentRevisionIs DEF ParentOf
<1>3. CASE ~IsPages(call) /\ call.op # "revision"
      <2>1. Answer(call) = made[call.id].text
            BY <1>3 DEF Answer
      <2>2. call.id \in DOMAIN made
            BY <1>1, <1>3, CallKinds DEF IsSingleCall
      <2>3. made[call.id].text \in 0..MaxText
            BY <2>2, MadeIsSeq DEF Made
      <2>4. QED BY <1>1, <1>3, <2>1, <2>3
<1>4. CASE IsPages(call)
      BY <1>1, <1>4 DEF Answer, IsPages
<1>5. QED BY <1>1, <1>2, <1>3, <1>4

(* The server answers one call, with what it has or by an error.           *)
LEMMA ServerAnswersIs ==
    ASSUME TypeInv, NEW i \in DOMAIN calls, ServerAnswers(i)
    PROVE  \E answer :
             /\ answer \in {Answer(calls[i]), Refused, Lost}
             /\ \E S : calls' \in Seq(S)
             /\ Len(calls') = Len(calls) /\ DOMAIN calls' = DOMAIN calls
             /\ \A j \in DOMAIN calls : j # i => calls'[j] = calls[j]
             /\ calls'[i] = [calls[i] EXCEPT !.answer = answer]
<1>1. PICK answer \in {Answer(calls[i])} \cup Failures :
          calls' = [calls EXCEPT ![i].answer = answer]
      BY DEF ServerAnswers
<1>2. \A j \in DOMAIN calls : "answer" \in DOMAIN calls[j]
      BY CallKinds DEF TypeInv
<1>3. /\ \E S : calls' \in Seq(S)
      /\ Len(calls') = Len(calls) /\ DOMAIN calls' = DOMAIN calls
      /\ \A j \in DOMAIN calls : j # i => calls'[j] = calls[j]
      /\ calls'[i] = [calls[i] EXCEPT !.answer = answer]
      BY <1>1, <1>2, CallsAnswered DEF TypeInv, CallsInv
<1>4. answer \in {Answer(calls[i]), Refused, Lost}
      BY FailureAssumption
<1>5. QED BY <1>3, <1>4

LEMMA ServerAnswersTypes ==
    ASSUME TypeInv, NEW i \in DOMAIN calls, ServerAnswers(i)
    PROVE  TypeInv'
<1>1. MadeInv /\ MadeInv' /\ Grows(made', made) /\ TlmsInv' /\ UNCHANGED made
      BY GrowsTrivially, MadeIsSeq DEF TypeInv, ServerAnswers, serverVars, MadeInv, TlmsInv
<1>2. PICK answer :
             /\ answer \in {Answer(calls[i]), Refused, Lost}
             /\ \E S : calls' \in Seq(S)
             /\ Len(calls') = Len(calls) /\ DOMAIN calls' = DOMAIN calls
             /\ \A j \in DOMAIN calls : j # i => calls'[j] = calls[j]
             /\ calls'[i] = [calls[i] EXCEPT !.answer = answer]
      BY ServerAnswersIs
<1>3. disturbed' = disturbed \cup DisturbedByAnswer(calls[i])
      BY DEF ServerAnswers
<1>4. disturbed' \subseteq DOMAIN made
      <2>1. \A j \in DOMAIN tlms : tlms[j].id \in DOMAIN made
            BY DEF TypeInv, TlmsInv
      <2>2. calls[i].op = "revision" => calls[i].id \in DOMAIN made /\ Answer(calls[i]) \in DOMAIN made
            BY CallKinds, AnswerIs DEF TypeInv, IsPages, IsSingleCall
      <2>3. QED BY <1>3, <2>1, <2>2 DEF TypeInv, TabInv, DisturbedByAnswer
<1>5. PICK call : call = calls[i]
      OBVIOUS
<1>6. PICK next : next = calls'[i]
      OBVIOUS
<1>7. /\ DOMAIN next = DOMAIN call /\ next = [call EXCEPT !.answer = answer]
      /\ "answer" \in DOMAIN call
      BY <1>2, <1>5, <1>6, CallKinds DEF TypeInv
<1>8. next.answer = answer
      BY <1>7
<1>9. PICK gone : gone = disturbed'
      OBVIOUS
<1>10. IsCall(made, gone, next)
      <2>1. CASE IsPages(call)
            <3>1. IsPagesCall(made, call)
                  BY <1>5, <2>1, CallKinds DEF TypeInv
            <3>2. next.op = call.op /\ next.of = call.of /\ next.count = call.count /\ next.from = call.from
                  BY <1>7
            <3>3. ASSUME Read(next), NEW k \in Kind
                  PROVE  IsPage(made, k, next.of, next.from[k], next.answer[k])
                  <4>1. answer = [q \in Kind |-> Page(q, call.of, call.from[q])]
                        BY <1>2, <1>5, <1>8, <2>1, <3>3, AnswerIs DEF TypeInv, Read
                  <4>2. next.answer[k] = Page(k, call.of, call.from[k])
                        BY <1>8, <4>1
                  <4>3. QED BY <1>1, <3>1, <3>2, <4>2, PageAnswers DEF IsPagesCall
            <3>4. IsPagesCall(made, next)
                  BY <1>7, <3>1, <3>2, <3>3 DEF IsPagesCall
            <3>5. QED BY <3>4 DEF IsCall
      <2>2. CASE ~IsPages(call)
            <3>1. IsSingleCall(made, disturbed, call)
                  BY <1>5, <2>2, CallKinds DEF TypeInv
            <3>2. next.op = call.op /\ next.id = call.id /\ next.text = call.text
                  BY <1>7
            <3>3. ASSUME Read(next)
                  PROVE  IF next.op = "revision"
                         THEN /\ next.answer \in DOMAIN made
                              /\ next.answer # next.id => {next.answer, next.id} \subseteq gone
                         ELSE next.answer \in 0..MaxText
                  <4>1. next.answer = Answer(call)
                        BY <1>2, <1>5, <1>8, <3>3 DEF Read
                  <4>2. CASE call.op = "revision" /\ Answer(call) # call.id
                        <5>1. DisturbedByAnswer(call) = {call.id, Answer(call)}
                              BY <2>2, <4>2 DEF DisturbedByAnswer
                        <5>2. QED BY <1>1, <1>3, <1>5, <1>9, <3>2, <4>1, <4>2, <5>1, AnswerIs DEF TypeInv
                  <4>3. CASE ~(call.op = "revision" /\ Answer(call) # call.id)
                        BY <1>1, <1>5, <2>2, <3>2, <4>1, <4>3, AnswerIs DEF TypeInv
                  <4>4. QED BY <4>2, <4>3
            <3>4. IsSingleCall(made, gone, next)
                  BY <1>7, <3>1, <3>2, <3>3 DEF IsSingleCall
            <3>5. QED BY <3>4 DEF IsCall
      <2>3. QED BY <2>1, <2>2
<1>11. \A j \in DOMAIN calls : j # i => IsCall(made, gone, calls[j])
      <2>1. disturbed \subseteq gone
            BY <1>3, <1>9
      <2>2. QED BY <1>1, <2>1, CallStill, MadeIsSeq DEF TypeInv, CallsInv
<1>12. CallsInv'
      BY <1>1, <1>2, <1>6, <1>9, <1>10, <1>11 DEF TypeInv, CallsInv
<1>13. ListsInv' /\ TabInv'
      BY <1>1, <1>4 DEF TypeInv, ListsInv, TabInv, ServerAnswers, openVars, listVars, pageVars
<1>14. QED BY <1>1, <1>12, <1>13 DEF TypeInv

-----------------------------------------------------------------------------
(* What follows the await of a handler.                                    *)

(* What a single call brings: a text, or a revision.                       *)
LEMMA SingleBrings ==
    ASSUME MadeInv, NEW gone, NEW call, IsSingleCall(made, gone, call),
           call.answer # None, call.answer # Lost
    PROVE  /\ call.op # "revision" => AnsweredText(call) \in 0..MaxText \cup {None}
           /\ call.op = "revision" =>
                 (IF call.answer = Refused THEN call.id ELSE call.answer) \in DOMAIN made
           /\ 0 \in 0..MaxText \cup {None}
BY BoundAssumption DEF IsSingleCall, AnsweredText, Read

(* What is read of an item makes lists of items.                           *)
LEMMA ResumeLists ==
    ASSUME TypeInv, UNCHANGED made, NEW call, IsSingleCall(made, disturbed, call),
           call.answer # None, call.answer # Lost,
           \/ ResumeCommentCreated(call) \/ ResumeCommentModified(call)
           \/ ResumeContentModified(call) \/ ResumeTranslate(call)
    PROVE  ListsInv'
<1>1. PICK n : n = Len(made)
      OBVIOUS
<1>2. /\ ListsOf(n) /\ n \in Nat /\ DOMAIN made = 1..n /\ call.id \in 1..n
      /\ IsItems(wholeTimeline, n) /\ Len(timeline) \in Nat
      BY <1>1, ListsAreOf, MadeIsSeq, LengthsAreInt DEF TypeInv, ListsInv, IsSingleCall
<1>3. CASE ResumeCommentCreated(call)
      <2>1. call.op = "add" /\ IsItem(Item(call.id, AnsweredText(call)), n)
            BY <1>2, <1>3, SingleBrings, ItemIsItem DEF ResumeCommentCreated, TypeInv
      <2>2. ListsOf(n)'
            BY <1>2, <1>3, <2>1, AddLists DEF ResumeCommentCreated, ListsOf, listVars
      <2>3. QED BY <1>1, <2>2 DEF ListsOf, ListsInv
<1>4. CASE ResumeCommentModified(call)
      <2> DEFINE text == AnsweredText(call)
                 w == UpdateCommentOnTimeline(call, wholeTimeline)
      <2>1. text \in 0..MaxText \cup {None} /\ SetTimeline(w, Len(timeline) + 1)
            BY <1>4, SingleBrings DEF ResumeCommentModified, TypeInv
      <2>2. w = [i \in DOMAIN wholeTimeline |->
                   IF wholeTimeline[i].id = call.id
                   THEN [wholeTimeline[i] EXCEPT !.text = text] ELSE wholeTimeline[i]]
            BY DEF UpdateCommentOnTimeline
      <2> HIDE DEF text, w
      <2>3. \A i \in DOMAIN wholeTimeline : IsItem(wholeTimeline[i], n)
            BY <1>2, ElementOfSeq, LenProperties DEF IsItems, IsItem
      <2>4. w = [i \in DOMAIN wholeTimeline |-> w[i]]
            BY <2>2
      <2>5. ASSUME NEW i \in DOMAIN wholeTimeline PROVE IsItem(w[i], n)
            BY <2>1, <2>2, <2>3 DEF IsItem, AnyItem
      <2>6. IsItems(w, n)
            BY <1>2, <2>4, <2>5, ChangeHoldsItems
      <2>7. ListsOf(n)'
            BY <1>2, <2>1, <2>6, SetTimelineLists
      <2>8. QED BY <1>1, <2>7 DEF ListsOf, ListsInv
<1>5. CASE ResumeContentModified(call)
      <2> DEFINE r == IF call.answer = Refused THEN call.id ELSE call.answer
                 w == AddRevisionFromTLM(wholeTimeline, r)
      <2>1. r \in 1..n /\ SetTimeline(w, Len(timeline) + 1) /\ 0 \in 0..MaxText \cup {None}
            BY <1>2, <1>5, SingleBrings DEF ResumeContentModified, TypeInv
      <2>2. w = wholeTimeline \/ w = Append(wholeTimeline, Item(r, 0))
            BY DEF AddRevisionFromTLM
      <2> HIDE DEF r, w
      <2>3. IsItem(Item(r, 0), n)
            BY <1>2, <2>1, ItemIsItem
      <2>4. IsItems(w, n)
            BY <1>2, <2>2, <2>3, AppendHoldsItems
      <2>5. ListsOf(n)'
            BY <1>2, <2>1, <2>4, SetTimelineLists
      <2>6. QED BY <1>1, <2>5 DEF ListsOf, ListsInv
<1>6. CASE ResumeTranslate(call)
      <2> DEFINE item == [Item(call.id, call.text) EXCEPT !.translation =
                             IF call.answer = Refused THEN "untranslated" ELSE "translated"]
      <2>1. IsItem(Item(call.id, call.text), n)
            BY <1>2, ItemIsItem DEF IsSingleCall
      <2>2. IsItem(item, n)
            BY <2>1 DEF IsItem, AnyItem, Item
      <2>3. SetTimeline(ReplaceComment(item, wholeTimeline), Len(timeline))
            BY <1>6 DEF ResumeTranslate
      <2> HIDE DEF item
      <2>4. QED BY <1>1, <2>2, <2>3, ReplaceLists
<1>7. QED BY <1>3, <1>4, <1>5, <1>6

LEMMA ResumeSingleTypes ==
    ASSUME TypeInv, NEW i \in DOMAIN calls, ResumeSingle(i)
    PROVE  TypeInv'
<1>1. MadeInv /\ MadeInv' /\ Grows(made', made) /\ TlmsInv' /\ UNCHANGED made
      BY GrowsTrivially, MadeIsSeq DEF TypeInv, ResumeSingle, Resumed, serverVars, MadeInv, TlmsInv
<1>2. PICK call : call = calls[i]
      OBVIOUS
<1>3. IsSingleCall(made, disturbed, call) /\ call.answer # None
      BY <1>2, CallKinds DEF ResumeSingle, TypeInv
<1>4. disturbed \subseteq disturbed' /\ disturbed' \subseteq DOMAIN made
      BY <1>2, <1>3 DEF ResumeSingle, Resumed, TypeInv, TabInv, IsSingleCall
<1>5. ListsInv'
      <2>1. CASE call.answer = Lost
            BY <1>1, <1>2, <2>1 DEF ResumeSingle, TypeInv, ListsInv, listVars
      <2>2. CASE call.answer # Lost
            BY <1>1, <1>2, <1>3, <2>2, ResumeLists DEF ResumeSingle
      <2>3. QED BY <2>1, <2>2
<1>6. TabInv'
      BY <1>1, <1>4, TabGrows DEF TypeInv, ResumeSingle, Resumed
<1>7. CallsInv'
      BY <1>1, <1>4, CallsGoAndStay DEF TypeInv, ResumeSingle, Resumed
<1>8. QED BY <1>1, <1>5, <1>6, <1>7 DEF TypeInv

(* The list a page makes.                                                  *)
LEMMA LoadedHolds ==
    ASSUME NEW n, NEW answer, \A k \in Kind : IsItems(answer[k].items, n)
    PROVE  IsItems(LoadedItems(answer), n)
<1>1. /\ IsItems(answer["comment"].items, n) /\ IsItems(answer["file"].items, n)
      /\ IsItems(answer["revision"].items, n)
      BY DEF Kind
<1>2. IsItems(answer["comment"].items \o answer["file"].items, n)
      BY <1>1, ConcatHoldsItems
<1>3. IsItems((answer["comment"].items \o answer["file"].items) \o answer["revision"].items, n)
      BY <1>1, <1>2, ConcatHoldsItems
<1>4. QED BY <1>3 DEF LoadedItems

(* The end of a load leaves the state well formed.                         *)
LEMMA ResumePagesTypes ==
    ASSUME TypeInv, NEW i \in DOMAIN calls, ResumePages(i)
    PROVE  TypeInv'
<1>1. MadeInv /\ MadeInv' /\ Grows(made', made) /\ TlmsInv' /\ UNCHANGED made
      BY GrowsTrivially, MadeIsSeq DEF TypeInv, ResumePages, serverVars, MadeInv, TlmsInv
<1>2. PICK call : call = calls[i]
      OBVIOUS
<1>3. IsPages(call) /\ IsPagesCall(made, call) /\ call.answer # None
      BY <1>2, CallKinds DEF ResumePages, TypeInv
<1>4. disturbed \subseteq disturbed' /\ disturbed' \subseteq DOMAIN made
      BY <1>2, MadeIsSeq DEF ResumePages, TypeInv, TabInv, DisturbedByMore
<1>5. EndOfLoad(call) /\ calls' = RemoveAt(calls, i) /\ UNCHANGED openVars
      BY <1>2 DEF ResumePages
<1>6. CallsInv'
      BY <1>1, <1>4, <1>5, CallsGoAndStay DEF TypeInv
<1>7. loadingTimeline' \in BOOLEAN /\ isLoadMoreTimelineInProgress' \in BOOLEAN
      BY <1>5 DEF EndOfLoad, TypeInv, TabInv
<1>8. CASE call.answer \in {Refused, Lost}
      <2>1. UNCHANGED <<content, listVars, pageVars>>
            BY <1>2, <1>8 DEF ResumePages
      <2>2. ListsInv' /\ TabInv'
            BY <1>1, <1>4, <1>5, <1>7, <2>1 DEF TypeInv, ListsInv, TabInv, listVars, pageVars, openVars
      <2>3. QED BY <1>1, <1>6, <2>2 DEF TypeInv
<1>9. CASE call.answer \notin {Refused, Lost}
      <2> DEFINE w == LoadedItems(call.answer) \o (IF call.op = "more" THEN wholeTimeline ELSE <<>>)
      <2>1. /\ SetTimeline(SortTimelineByDate(w), call.count)
            /\ content' = call.of
            /\ pageToken' = [k \in Kind |-> call.answer[k].next]
            /\ hasMore' = [k \in Kind |-> call.answer[k].more]
            BY <1>2, <1>9 DEF ResumePages
      <2>2. \A k \in Kind : IsPage(made, k, call.of, call.from[k], call.answer[k])
            BY <1>3, <1>9 DEF IsPagesCall, Read
      <2>3. PICK n : n = Len(made)
            OBVIOUS
      <2>4. IsItems(w, n)
            <3>1. IsItems(LoadedItems(call.answer), n)
                  BY <2>2, <2>3, LoadedHolds DEF IsPage
            <3>2. IsItems(wholeTimeline, n) /\ IsItems(<<>>, n)
                  BY <2>3 DEF TypeInv, ListsInv, IsItems
            <3>3. QED BY <3>1, <3>2, ConcatHoldsItems
      <2> HIDE DEF w
      <2>5. call.count \in Int /\ IsItems(SortTimelineByDate(w), n)
            BY <1>3, <2>4, SortHoldsItems DEF IsPagesCall
      <2>6. ListsOf(n)'
            BY <2>1, <2>5, SetTimelineLists
      <2>7. ListsInv'
            BY <1>1, <2>3, <2>6 DEF ListsOf, ListsInv
      <2>8. \A k \in Kind : /\ IsToken(call.answer[k].next, Len(made))
                            /\ call.answer[k].next \in 1..FirstPage /\ call.answer[k].more \in BOOLEAN
            BY <2>2 DEF IsPage, IsToken
      <2>9. TabInv'
            <3>1. call.of \in Content /\ UNCHANGED <<mounted, opened>>
                  BY <1>3, <1>5 DEF IsPagesCall, openVars
            <3>2. QED BY <1>1, <1>4, <1>7, <2>1, <2>8, <3>1 DEF TypeInv, TabInv
      <2>10. QED BY <1>1, <1>6, <2>7, <2>9 DEF TypeInv
<1>10. QED BY <1>8, <1>9

-----------------------------------------------------------------------------
LEMMA TypeInit == Init => TypeInv
<1> SUFFICES ASSUME Init PROVE TypeInv
    OBVIOUS
<1>1. PICK order \in SetToSeqs(Content), c \in Content :
        /\ made = [i \in DOMAIN order |->
                     [kind |-> "revision", parent |-> order[i], text |-> 0, deleted |-> FALSE]]
        /\ tlms = <<>>
        /\ mounted = c /\ opened = c /\ content = c
        /\ wholeTimeline = <<>> /\ timeline = <<>>
        /\ pageToken = [k \in Kind |-> FirstPage] /\ hasMore = [k \in Kind |-> TRUE]
        /\ loadingTimeline = TRUE
        /\ isLoadMoreTimelineInProgress = FALSE
        /\ calls = <<[op |-> "load", of |-> c, count |-> PageSize, from |-> pageToken,
                      answer |-> None]>>
        /\ disturbed = {}
      BY DEF Init
<1>2. Cardinality(Content) \in Nat /\ Cardinality(Content) <= MaxItem /\ MaxItem \in Nat
      BY BoundAssumption
<1>3. order \in [1..Cardinality(Content) -> Content]
      BY DEF SetToSeqs
<1>4. MadeInv
      <2>1. /\ made \in [1..Cardinality(Content) -> Made]
            /\ \A id \in DOMAIN made : made[id].text = 0 /\ ~made[id].deleted
            BY <1>1, <1>3, BoundAssumption DEF Made, Kind
      <2>2. made \in Seq(Made) /\ Len(made) = Cardinality(Content)
            BY <1>2, <2>1, SeqDef, LenProperties
      <2>3. QED BY <1>2, <2>1, <2>2 DEF MadeInv
<1>5. TlmsInv
      BY <1>1 DEF TlmsInv
<1>6. ListsInv
      BY <1>1, PartOfItself DEF ListsInv, IsItems
<1>7. FirstPage \in 1..FirstPage /\ \A k \in Kind : pageToken[k] = FirstPage
      BY <1>1, <1>2 DEF FirstPage
<1>8. TabInv
      BY <1>1, <1>7 DEF TabInv, IsToken
<1>9. CallsInv
      <2>1. PICK call : call = [op |-> "load", of |-> c, count |-> PageSize, from |-> pageToken,
                                answer |-> None]
            OBVIOUS
      <2>2. call = Pages("load", c, PageSize, pageToken)
            BY <2>1 DEF Pages
      <2>3. IsCall(made, disturbed, call)
            BY <1>7, <1>8, <2>2, PagesIsCall, BoundAssumption DEF TabInv
      <2>4. calls = <<call>>
            BY <1>1, <2>1
      <2>5. calls \in Seq({call}) /\ Len(calls) = 1 /\ DOMAIN calls = {1} /\ calls[1] = call
            BY <2>4
      <2>6. QED BY <2>3, <2>5, BoundAssumption DEF CallsInv
<1>10. QED BY <1>4, <1>5, <1>6, <1>8, <1>9 DEF TypeInv

(* TypeInv is inductive.                                                   *)
LEMMA TypeStep == TypeInv /\ [Next]_vars => TypeInv'
<1> SUFFICES ASSUME TypeInv, [Next]_vars PROVE TypeInv'
    OBVIOUS
<1>1. ASSUME NEW kind \in ChildKind \cup {"revision"}, NEW c \in Content, Create(kind, c)
      PROVE  TypeInv'
      BY <1>1, CreateChanges, ChangedTypes DEF TypeInv
<1>2. ASSUME NEW id \in Id, Edit(id)
      PROVE  TypeInv'
      BY <1>2, EditChanges, ChangedTypes DEF TypeInv
<1>3. ASSUME NEW id \in Id, Delete(id) \/ Restore(id)
      PROVE  TypeInv'
      BY <1>3, DeleteChanges, RestoreChanges, ChangedTypes DEF TypeInv
<1>4. CASE HandleTlm
      BY <1>4, HandleTlmTypes
<1>5. ASSUME NEW c \in Content, ShowContent(c)
      PROVE  TypeInv'
      BY <1>5, ShowContentTypes
<1>6. CASE LoadMoreTimelineItems
      BY <1>6, LoadMoreTypes
<1>7. ASSUME NEW j \in DOMAIN timeline, TranslateComment(timeline[j])
      PROVE  TypeInv'
      BY <1>7, TranslateTypes
<1>8. ASSUME NEW j \in DOMAIN timeline, RestoreComment(timeline[j])
      PROVE  TypeInv'
      BY <1>8, RestoreTypes
<1>9. ASSUME NEW i \in DOMAIN calls, ServerAnswers(i)
      PROVE  TypeInv'
      BY <1>9, ServerAnswersTypes
<1>10. ASSUME NEW i \in DOMAIN calls, ResumeSingle(i)
       PROVE  TypeInv'
       BY <1>10, ResumeSingleTypes
<1>11. ASSUME NEW i \in DOMAIN calls, ResumePages(i)
       PROVE  TypeInv'
       BY <1>11, ResumePagesTypes
<1>12. CASE UNCHANGED vars
       BY <1>12 DEF vars, serverVars, openVars, listVars, pageVars, TypeInv, MadeInv, TlmsInv,
                    ListsInv, TabInv, CallsInv
<1>13. QED BY <1>1, <1>2, <1>3, <1>4, <1>5, <1>6, <1>7, <1>8, <1>9, <1>10, <1>11, <1>12 DEF Next

LEMMA TypesAreOK == TypeInv => TypeOK
<1> SUFFICES ASSUME TypeInv PROVE TypeOK
    OBVIOUS
<1>1. Id = 1..Len(made) /\ DOMAIN made = Id
      BY MadeIsSeq DEF TypeInv
<1>2. ASSUME NEW l, IsItems(l, Len(made)) PROVE l \in Seq(Items)
      <2>1. ASSUME NEW i \in DOMAIN l PROVE l[i] \in Items
            <3>1. l[i] \in AnyItem /\ l[i].id \in 1..Len(made)
                  BY <1>2, <2>1, ElementOfSeq, LenProperties DEF IsItems
            <3>2. QED BY <1>1, <3>1 DEF AnyItem, Items
      <2>2. l \in [1..Len(l) -> Items] /\ Len(l) \in Nat
            BY <1>2, <2>1, LenProperties DEF IsItems
      <2>3. QED BY <2>2, SeqDef
<1>3. wholeTimeline \in Seq(Items) /\ timeline \in Seq(Items)
      BY <1>2 DEF TypeInv, ListsInv
<1>4. QED BY <1>1, <1>3 DEF TypeOK, TypeInv, TabInv, CallsInv

(* The state is well formed, whatever is refused, lost or answered late.   *)
THEOREM TypeCorrect == Spec => []TypeOK
<1>1. QED BY TypeInit, TypeStep, TypesAreOK, PTL DEF Spec

-----------------------------------------------------------------------------
(* What is right about an item.                                            *)

(* A message of those waiting is about an item.                            *)
Waits(waiting, id, event) ==
    \E j \in DOMAIN waiting : waiting[j].id = id /\ waiting[j].event = event

(* A call is about an item: every call for pages is.                       *)
IsOn(call, id) == ~IsPages(call) /\ call.id = id
About(call, id) == IsPages(call) \/ IsOn(call, id)
AtMostOne(all, id) == \A i, j \in DOMAIN all : About(all[i], id) /\ About(all[j], id) => i = j

(* An item whose creation the tab has not been told of is nowhere.         *)
FreshToken(t, id) == t = FirstPage \/ t < id

FreshCall(k, call, id) ==
    /\ ~IsOn(call, id)
    /\ IsPages(call) =>
          /\ FreshToken(call.from[k], id)
          /\ Read(call) =>
                /\ At(call.answer[k].items, id) = {}
                /\ FreshToken(call.answer[k].next, id)

FreshInv(id) ==
    /\ At(wholeTimeline, id) = {}
    /\ made[id].deleted => Waits(tlms, id, "deleted")
    /\ FreshToken(pageToken[made[id].kind], id)
    /\ \A i \in DOMAIN calls : FreshCall(made[id].kind, calls[i], id)

(* A text of an item is its text, or the tab is to be told of a change.    *)
Right(all, waiting, text, id) == text = all[id].text \/ Waits(waiting, id, "modified")
Gone(all, waiting, id) == all[id].deleted /\ ~Waits(waiting, id, "deleted")
Adding(awaited, id) ==
    \E i \in DOMAIN awaited : IsOn(awaited[i], id) /\ awaited[i].op \in {"add", "revision"}
Updating(awaited, id) ==
    \E i \in DOMAIN awaited : IsOn(awaited[i], id) /\ awaited[i].op = "update"

(* An item of the content is there once, when it is loaded or is being     *)
(* added, with a text that is right or is being read.                      *)
ShownInv(id) ==
    LET t == pageToken[made[id].kind] IN
    /\ Once(wholeTimeline, id)
    /\ ~Adding(calls, id) /\ (t <= id \/ ~hasMore[made[id].kind]) => At(wholeTimeline, id) # {}
    /\ Adding(calls, id) \/ At(wholeTimeline, id) # {} => t <= id \/ t = FirstPage
    /\ \/ made[id].kind = "file" /\ made[id].parent # mounted
       \/ Updating(calls, id)
       \/ \A i \in At(wholeTimeline, id) : Right(made, tlms, wholeTimeline[i].text, id)

(* What is awaited about an item.                                          *)
SingleInv(all, waiting, c, whole, call, id) ==
    /\ call.op # "translate" => all[id].parent = c
    /\ call.op \in {"add", "revision"} => At(whole, id) = {} /\ ~Gone(all, waiting, id)
    /\ ~all[id].deleted =>
          /\ call.op \in {"add", "update"} /\ Read(call) => Right(all, waiting, call.answer, id)
          /\ call.op = "translate" => Right(all, waiting, call.text, id)

PageInv(all, waiting, page, from, c, id) ==
    /\ Gone(all, waiting, id) => At(page.items, id) = {}
    /\ ~all[id].deleted =>
          /\ all[id].parent = c /\ id < from /\ (page.next <= id \/ ~page.more) =>
                At(page.items, id) # {}
          /\ \A i \in At(page.items, id) : Right(all, waiting, page.items[i].text, id)

CallInv(all, waiting, c, whole, call, id) ==
    /\ IsPages(call) /\ Read(call) =>
          PageInv(all, waiting, call.answer[all[id].kind], call.from[all[id].kind], call.of, id)
    /\ IsOn(call, id) => SingleInv(all, waiting, c, whole, call, id)

(* An item the tab was told of or found on a page.                         *)
KnownInv(id) ==
    /\ AtMostOne(calls, id)
    /\ made[id].parent # content \/ Gone(made, tlms, id) => At(wholeTimeline, id) = {}
    /\ made[id].parent = content /\ ~made[id].deleted => ShownInv(id)
    /\ \A i \in DOMAIN calls : CallInv(made, tlms, content, wholeTimeline, calls[i], id)

ItemInv(id) == IF Waits(tlms, id, "created") THEN FreshInv(id) ELSE KnownInv(id)

RightInv == \A id \in DOMAIN made \ disturbed : ItemInv(id)

-----------------------------------------------------------------------------
(* The calls about an item are those there were.                           *)
CallsAlike(later, before, id) ==
    /\ AtMostOne(before, id) => AtMostOne(later, id)
    /\ \A i \in DOMAIN later : About(later[i], id) => \E j \in DOMAIN before : before[j] = later[i]
    /\ \A j \in DOMAIN before : About(before[j], id) => \E i \in DOMAIN later : later[i] = before[j]

SameTlms(later, before, id) ==
    \A e \in {"created", "modified", "deleted"} : Waits(later, id, e) <=> Waits(before, id, e)

Same(id) ==
    /\ made'[id] = made[id]
    /\ SameTlms(tlms', tlms, id)
    /\ UNCHANGED <<mounted, content, pageToken, hasMore>>
    /\ Alike(wholeTimeline', wholeTimeline, id)
    /\ CallsAlike(calls', calls, id)

LEMMA AlikeIsAlike == ASSUME NEW w, NEW id PROVE Alike(w, w, id)
BY DEF Alike

LEMMA SameCalls == ASSUME NEW before, NEW id PROVE CallsAlike(before, before, id)
BY DEF CallsAlike

LEMMA SameTlmsAreSame == ASSUME NEW before, NEW id PROVE SameTlms(before, before, id)
BY DEF SameTlms

LEMMA AlikeCalls ==
    ASSUME NEW later, NEW before, NEW id, CallsAlike(later, before, id)
    PROVE  (Adding(later, id) <=> Adding(before, id)) /\ (Updating(later, id) <=> Updating(before, id))
BY DEF CallsAlike, Adding, Updating, About

(* What says the same of an item and of what waits about it.               *)
LEMMA SameCallInv ==
    ASSUME NEW id, NEW all, NEW later, later[id] = all[id],
           NEW before, NEW waiting, SameTlms(waiting, before, id), NEW c,
           NEW w, NEW whole, At(w, id) = {} => At(whole, id) = {},
           NEW call, CallInv(all, before, c, w, call, id)
    PROVE  CallInv(later, waiting, c, whole, call, id)
<1>1. /\ Gone(later, waiting, id) <=> Gone(all, before, id)
      /\ \A text : Right(later, waiting, text, id) <=> Right(all, before, text, id)
      BY DEF Gone, Right, SameTlms
<1>2. IsOn(call, id) => SingleInv(later, waiting, c, whole, call, id)
      BY <1>1 DEF SingleInv, CallInv
<1>3. ASSUME NEW page, NEW from, NEW of, PageInv(all, before, page, from, of, id)
      PROVE  PageInv(later, waiting, page, from, of, id)
      BY <1>1, <1>3 DEF PageInv
<1>4. QED BY <1>2, <1>3 DEF CallInv

(* What a step leaves of an item, it leaves right.                         *)
LEMMA SameStaysRight ==
    ASSUME NEW id, Same(id), ItemInv(id)
    PROVE  ItemInv(id)'
<1>1. /\ made'[id] = made[id] /\ SameTlms(tlms', tlms, id)
      /\ \A e \in {"created", "modified", "deleted"} : Waits(tlms', id, e) <=> Waits(tlms, id, e)
      /\ mounted' = mounted /\ content' = content /\ pageToken' = pageToken /\ hasMore' = hasMore
      /\ At(wholeTimeline', id) = {} <=> At(wholeTimeline, id) = {}
      BY DEF Same, SameTlms, Alike
<1>2. \A i \in DOMAIN calls' : About(calls'[i], id) => \E j \in DOMAIN calls : calls[j] = calls'[i]
      BY DEF Same, CallsAlike
<1>3. CASE Waits(tlms, id, "created")
      <2>1. FreshInv(id)
            BY <1>3 DEF ItemInv
      <2>2. \A i \in DOMAIN calls' : FreshCall(made[id].kind, calls'[i], id)
            BY <1>2, <2>1 DEF FreshInv, FreshCall, About
      <2>3. FreshInv(id)'
            BY <1>1, <2>1, <2>2 DEF FreshInv
      <2>4. QED BY <1>1, <1>3, <2>3 DEF ItemInv
<1>4. CASE ~Waits(tlms, id, "created")
      <2>1. KnownInv(id)
            BY <1>4 DEF ItemInv
      <2>2. /\ Gone(made', tlms', id) <=> Gone(made, tlms, id)
            /\ \A text : Right(made', tlms', text, id) <=> Right(made, tlms, text, id)
            BY <1>1 DEF Gone, Right
      <2>3. /\ Adding(calls', id) <=> Adding(calls, id)
            /\ Updating(calls', id) <=> Updating(calls, id)
            BY AlikeCalls DEF Same
      <2>4. AtMostOne(calls', id)
            BY <2>1 DEF KnownInv, Same, CallsAlike
      <2>5. ASSUME ShownInv(id) PROVE ShownInv(id)'
            <3>1. Once(wholeTimeline', id)
                  BY <2>5 DEF ShownInv, Same, Alike
            <3>2. (\A i \in At(wholeTimeline, id) : Right(made, tlms, wholeTimeline[i].text, id))
                     => \A i \in At(wholeTimeline', id) : Right(made', tlms', wholeTimeline'[i].text, id)
                  BY <2>2 DEF Same, Alike
            <3>3. QED BY <1>1, <2>3, <2>5, <3>1, <3>2 DEF ShownInv
      <2>6. ASSUME NEW i \in DOMAIN calls'
            PROVE  CallInv(made', tlms', content', wholeTimeline', calls'[i], id)
            <3>1. CASE About(calls'[i], id)
                  <4>1. PICK j \in DOMAIN calls : calls[j] = calls'[i]
                        BY <1>2, <2>6, <3>1
                  <4>2. CallInv(made, tlms, content, wholeTimeline, calls[j], id)
                        BY <2>1 DEF KnownInv
                  <4>3. QED BY <1>1, <4>1, <4>2, SameCallInv
            <3>2. CASE ~About(calls'[i], id)
                  BY <3>2 DEF About, CallInv
            <3>3. QED BY <3>1, <3>2
      <2>7. KnownInv(id)'
            BY <1>1, <2>1, <2>2, <2>4, <2>5, <2>6 DEF KnownInv
      <2>8. QED BY <1>1, <1>4, <2>7 DEF ItemInv
<1>5. QED BY <1>3, <1>4

-----------------------------------------------------------------------------
(* Calls that come and go and are about another item.                      *)
LEMMA OtherComes ==
    ASSUME NEW before, NEW later, NEW call, CallsGrow(later, before, call), NEW id, ~About(call, id)
    PROVE  CallsAlike(later, before, id)
<1>1. \A j \in DOMAIN later : About(later[j], id) => j \in DOMAIN before /\ later[j] = before[j]
      BY DEF CallsGrow
<1>2. \A j \in DOMAIN before : j \in DOMAIN later /\ later[j] = before[j]
      BY DEF CallsGrow
<1>3. QED BY <1>1, <1>2 DEF CallsAlike, AtMostOne

LEMMA OtherGoes ==
    ASSUME NEW before, NEW later, NEW i \in DOMAIN before, CallsShrink(later, before, i),
           NEW id, ~About(before[i], id)
    PROVE  CallsAlike(later, before, id)
<1>1. PICK old \in [DOMAIN later -> DOMAIN before] :
          /\ \A j \in DOMAIN later : old[j] # i /\ later[j] = before[old[j]]
          /\ \A j, k \in DOMAIN later : old[j] = old[k] => j = k
          /\ \A k \in DOMAIN before : k # i => \E j \in DOMAIN later : old[j] = k
      BY DEF CallsShrink
<1>2. \A j \in DOMAIN later : old[j] \in DOMAIN before
      BY <1>1
<1>3. QED BY <1>1, <1>2 DEF CallsAlike, AtMostOne

(* When the only call about an item ends, none is left.                    *)
LEMMA OnlyOneGoes ==
    ASSUME NEW before, NEW later, NEW i \in DOMAIN before, CallsShrink(later, before, i),
           NEW id, About(before[i], id), AtMostOne(before, id)
    PROVE  \A j \in DOMAIN later : ~About(later[j], id)
BY DEF CallsShrink, AtMostOne

(* The calls that are left were there before.                              *)
LEMMA LeftWereThere ==
    ASSUME NEW before, NEW later, NEW i \in DOMAIN before, CallsShrink(later, before, i)
    PROVE  \A j \in DOMAIN later : \E k \in DOMAIN before : later[j] = before[k]
BY DEF CallsShrink

-----------------------------------------------------------------------------
(* The other users leave what is right.                                    *)

LEMMA PublishWaits ==
    ASSUME TlmsInv, NEW event, NEW id, NEW text, Publish(event, id, text),
           event \in {"created", "modified", "deleted", "undeleted"}, id \in Nat, text \in 0..MaxText
    PROVE  \A q, e : Waits(tlms', q, e) <=> Waits(tlms, q, e) \/ (q = id /\ e = event)
<1>1. /\ DOMAIN tlms' = DOMAIN tlms \cup {Len(tlms) + 1}
      /\ \A j \in DOMAIN tlms : tlms'[j] = tlms[j]
      /\ tlms'[Len(tlms) + 1] = [event |-> event, id |-> id, text |-> text]
      BY Published
<1>2. QED BY <1>1 DEF Waits

(* What is not made yet is nowhere.                                        *)
LEMMA NotMadeIsNowhere ==
    ASSUME MadeInv, NEW id \in Nat, id > Len(made)
    PROVE  /\ \A l : IsItems(l, Len(made)) => At(l, id) = {}
           /\ \A t : IsToken(t, Len(made)) => FreshToken(t, id)
<1>1. Len(made) \in Nat
      BY MadeIsSeq
<1>2. ASSUME NEW l, IsItems(l, Len(made)) PROVE At(l, id) = {}
      <2>1. \A i \in DOMAIN l : l[i].id \in 1..Len(made)
            BY <1>2 DEF IsItems
      <2>2. \A i \in DOMAIN l : l[i].id # id
            BY <1>1, <2>1
      <2>3. QED BY <2>2 DEF At
<1>3. ASSUME NEW t, IsToken(t, Len(made)) PROVE FreshToken(t, id)
      BY <1>1, <1>3, MadeIsSeq DEF IsToken, FreshToken
<1>4. QED BY <1>2, <1>3

(* What was just created is nowhere.                                       *)
LEMMA CreatedIsFresh ==
    ASSUME TypeInv, NEW id, NEW text, Publish("created", id, text), Changes("created", id, text)
    PROVE  ItemInv(id)'
<1>1. /\ id \in Nat /\ id > Len(made) /\ id \notin DOMAIN made /\ text \in 0..MaxText
      /\ made'[id].kind \in Kind /\ ~made'[id].deleted
      <2>1. MadeInv' /\ id \in DOMAIN made' /\ id > Len(made) /\ id \notin DOMAIN made
            /\ text \in 0..MaxText /\ ~made'[id].deleted
            BY DEF Changes
      <2>2. made' \in Seq(Made)
            BY <2>1 DEF MadeInv
      <2>3. made'[id] \in Made /\ id \in Nat
            BY <2>1, <2>2, ElementOfSeq, LenProperties
      <2>4. QED BY <2>1, <2>3 DEF Made
<1>2. Waits(tlms', id, "created")
      BY <1>1, PublishWaits DEF TypeInv
<1>3. UNCHANGED <<wholeTimeline, pageToken, calls>>
      BY DEF Publish, listVars, pageVars
<1>4. PICK k : k = made'[id].kind
      OBVIOUS
<1>5. At(wholeTimeline, id) = {} /\ FreshToken(pageToken[k], id)
      BY <1>1, <1>4, NotMadeIsNowhere DEF TypeInv, ListsInv, TabInv
<1>6. ASSUME NEW i \in DOMAIN calls PROVE FreshCall(k, calls[i], id)
      <2>1. CASE IsPages(calls[i])
            <3>1. IsPagesCall(made, calls[i])
                  BY <2>1, CallKinds DEF TypeInv
            <3>2. FreshToken(calls[i].from[k], id)
                  BY <1>1, <1>4, <3>1, NotMadeIsNowhere DEF IsPagesCall, TypeInv
            <3>3. ASSUME Read(calls[i])
                  PROVE  At(calls[i].answer[k].items, id) = {} /\ FreshToken(calls[i].answer[k].next, id)
                  <4>1. IsPage(made, k, calls[i].of, calls[i].from[k], calls[i].answer[k])
                        BY <1>1, <1>4, <3>1, <3>3 DEF IsPagesCall
                  <4>2. QED BY <1>1, <4>1, NotMadeIsNowhere DEF IsPage, TypeInv
            <3>4. QED BY <2>1, <3>2, <3>3 DEF FreshCall, IsOn
      <2>2. CASE ~IsPages(calls[i])
            <3>1. calls[i].id \in DOMAIN made
                  BY <2>2, CallKinds DEF TypeInv, IsSingleCall
            <3>2. QED BY <1>1, <2>2, <3>1 DEF FreshCall, IsOn
      <2>3. QED BY <2>1, <2>2
<1>7. FreshInv(id)'
      BY <1>1, <1>3, <1>4, <1>5, <1>6 DEF FreshInv
<1>8. QED BY <1>2, <1>7 DEF ItemInv

(* What is changed waits to be told of.                                    *)
LEMMA ChangedStaysRight ==
    ASSUME TypeInv, NEW event, NEW id, NEW text, Publish(event, id, text),
           Changes(event, id, text), event \in {"modified", "deleted"}, ItemInv(id)
    PROVE  ItemInv(id)'
<1>1. /\ id \in DOMAIN made /\ id \in Nat /\ text \in 0..MaxText
      /\ event \in {"modified", "deleted"} /\ ~made[id].deleted
      /\ made'[id].kind = made[id].kind /\ made'[id].parent = made[id].parent
      /\ event = "modified" => ~made'[id].deleted
      /\ event = "deleted" => made'[id].deleted
      <2>1. id \in DOMAIN made
            BY DEF Changes
      <2>2. id \in Nat
            BY <2>1, MadeIsSeq DEF TypeInv
      <2>3. QED BY <2>1, <2>2 DEF Changes, Grows
<1>2. \A e : Waits(tlms', id, e) <=> Waits(tlms, id, e) \/ e = event
      BY <1>1, PublishWaits DEF TypeInv
<1>3. UNCHANGED <<mounted, content, wholeTimeline, pageToken, hasMore, calls>>
      BY DEF Publish, listVars, pageVars, openVars
<1>4. CASE Waits(tlms, id, "created")
      <2>1. FreshInv(id)
            BY <1>4 DEF ItemInv
      <2>2. FreshInv(id)'
            BY <1>1, <1>2, <1>3, <2>1 DEF FreshInv
      <2>3. QED BY <1>2, <1>4, <2>2 DEF ItemInv
<1>5. CASE ~Waits(tlms, id, "created")
      <2>1. KnownInv(id)
            BY <1>5 DEF ItemInv
      <2>2. ~Gone(made', tlms', id) /\ ~Gone(made, tlms, id)
            BY <1>1, <1>2 DEF Gone
      <2>3. ~made'[id].deleted => \A t : Right(made', tlms', t, id)
            BY <1>1, <1>2 DEF Right
      <2>4. ASSUME NEW call, NEW whole, NEW c, CallInv(made, tlms, c, whole, call, id)
            PROVE  CallInv(made', tlms', c, whole, call, id)
            <3>1. ASSUME NEW page, NEW from, NEW of, PageInv(made, tlms, page, from, of, id)
                  PROVE  PageInv(made', tlms', page, from, of, id)
                  BY <1>1, <2>2, <2>3, <3>1 DEF PageInv
            <3>2. SingleInv(made, tlms, c, whole, call, id) => SingleInv(made', tlms', c, whole, call, id)
                  BY <1>1, <2>2, <2>3 DEF SingleInv
            <3>3. QED BY <1>1, <2>4, <3>1, <3>2 DEF CallInv
      <2>5. \A i \in DOMAIN calls' : CallInv(made', tlms', content', wholeTimeline', calls'[i], id)
            BY <1>3, <2>1, <2>4 DEF KnownInv
      <2>6. ~made'[id].deleted /\ ShownInv(id) => ShownInv(id)'
            BY <1>1, <1>3, <2>3 DEF ShownInv
      <2>7. KnownInv(id)'
            BY <1>1, <1>3, <2>1, <2>2, <2>5, <2>6 DEF KnownInv
      <2>8. QED BY <1>1, <1>2, <1>5, <2>7 DEF ItemInv
<1>6. QED BY <1>4, <1>5

(* What another user does leaves what is right, or waits to be told.       *)
LEMMA PublishStaysRight ==
    ASSUME TypeInv, RightInv, NEW event, NEW id, NEW text, Publish(event, id, text),
           Changes(event, id, text)
    PROVE  RightInv'
<1> SUFFICES ASSUME NEW q \in DOMAIN made', q \notin disturbed' PROVE ItemInv(q)'
    BY DEF RightInv
<1>1. disturbed' = IF event = "undeleted" THEN disturbed \cup {id} ELSE disturbed
      BY DEF Publish
<1>2. CASE q # id
      <2>1. q \in DOMAIN made /\ made'[q] = made[q]
            BY <1>2 DEF Changes
      <2>2. ItemInv(q)
            BY <1>1, <2>1 DEF RightInv
      <2>3. id \in Nat /\ event \in {"created", "modified", "deleted", "undeleted"} /\ text \in 0..MaxText
            <3>1. id \in DOMAIN made' /\ made' \in Seq(Made)
                  BY DEF Changes, MadeInv
            <3>2. id \in Nat
                  BY <3>1, LenProperties
            <3>3. QED BY <3>2 DEF Changes
      <2>4. SameTlms(tlms', tlms, q)
            BY <1>2, <2>3, PublishWaits DEF TypeInv, SameTlms
      <2>5. Same(q)
            BY <2>1, <2>4, AlikeIsAlike, SameCalls DEF Same, Publish, openVars, listVars, pageVars
      <2>6. QED BY <2>2, <2>5, SameStaysRight
<1>3. CASE q = id /\ event = "created"
      BY <1>3, CreatedIsFresh
<1>4. CASE q = id /\ event # "created"
      <2>1. q \in DOMAIN made
            BY <1>4 DEF Changes
      <2>2. ItemInv(q)
            BY <1>1, <2>1 DEF RightInv
      <2>3. event \in {"modified", "deleted"}
            BY <1>1, <1>4 DEF Changes
      <2>4. QED BY <1>4, <2>2, <2>3, ChangedStaysRight
<1>5. QED BY <1>2, <1>3, <1>4

-----------------------------------------------------------------------------
(* A live message leaves the other items as they are.                      *)

NoneAbout(all, id) == \A i \in DOMAIN all : ~About(all[i], id)

LEMMA NoneIsFine ==
    ASSUME NEW all, NEW id, NoneAbout(all, id)
    PROVE  /\ AtMostOne(all, id) /\ ~Adding(all, id) /\ ~Updating(all, id)
           /\ \A i \in DOMAIN all :
                 \A m, waiting, c, whole : CallInv(m, waiting, c, whole, all[i], id)
BY DEF NoneAbout, AtMostOne, Adding, Updating, CallInv, About

(* The only call about an item is one that was just made.                  *)
LEMMA OnlyOneComes ==
    ASSUME NEW before, NEW later, NEW call, CallsGrow(later, before, call), NEW id,
           NoneAbout(before, id)
    PROVE  /\ AtMostOne(later, id)
           /\ Adding(later, id) <=> IsOn(call, id) /\ call.op \in {"add", "revision"}
           /\ Updating(later, id) <=> IsOn(call, id) /\ call.op = "update"
           /\ \A j \in DOMAIN later : About(later[j], id) => later[j] = call
<1>1. \A j \in DOMAIN later : About(later[j], id) => j = Len(later) /\ later[j] = call
      BY DEF CallsGrow, NoneAbout
<1>2. Len(later) \in DOMAIN later /\ later[Len(later)] = call
      BY DEF CallsGrow
<1>3. QED BY <1>1, <1>2 DEF AtMostOne, Adding, Updating, About

(* Nothing is awaited about an item that a step does not disturb.          *)
LEMMA NotAwaitedIsFree ==
    ASSUME MadeInv, NEW id \in DOMAIN made, id \notin Awaited
    PROVE  NoneAbout(calls, id)
<1>1. id \in Id
      BY MadeIsSeq
<1>2. QED BY <1>1 DEF Awaited, NoneAbout, About, IsOn

(* Who adds one item, or takes one away, leaves the others as they were.   *)
LEMMA AddIsAlike ==
    ASSUME NEW n, NEW w, IsItems(w, n), NEW x, IsItem(x, n), NEW id, x.id # id
    PROVE  Alike(SortTimelineByDate(Append(w, x)), w, id)
<1>1. w \in Seq(AnyItem) /\ Append(w, x) \in Seq(AnyItem)
      BY AppendProperties DEF IsItems, IsItem
<1>2. Alike(Append(w, x), w, id)
      BY <1>1, AppendIsAlike
<1>3. Alike(SortTimelineByDate(Append(w, x)), Append(w, x), id)
      BY <1>1, SortedIsAlike, ItemsAreNumbered
<1>4. QED BY <1>2, <1>3, AlikeThrough

LEMMA AddHasIt ==
    ASSUME NEW n, NEW w, IsItems(w, n), NEW x, IsItem(x, n), At(w, x.id) = {}
    PROVE  LET v == SortTimelineByDate(Append(w, x))
           IN /\ At(v, x.id) # {} /\ Once(v, x.id)
              /\ \A i \in At(v, x.id) : v[i].text = x.text
<1>1. w \in Seq(AnyItem) /\ Append(w, x) \in Seq(AnyItem)
      BY AppendProperties DEF IsItems, IsItem
<1>2. PICK id : id = x.id
      OBVIOUS
<1> DEFINE u == Append(w, x)
           v == SortTimelineByDate(u)
<1>3. At(u, id) # {} /\ Once(u, id) /\ \A i \in At(u, id) : u[i] = x
      BY <1>1, <1>2, AppendHasIt
<1>4. Alike(v, u, id)
      BY <1>1, SortedIsAlike, ItemsAreNumbered
<1> HIDE DEF u, v
<1>5. At(v, id) # {} /\ Once(v, id) /\ \A i \in At(v, id) : v[i].text = x.text
      BY <1>3, <1>4 DEF Alike
<1>6. QED BY <1>2, <1>5 DEF u, v

-----------------------------------------------------------------------------
(* What is told of an item, and what waits to be told of it after that.    *)
LEMMA TailWaits ==
    ASSUME TlmsInv, tlms # <<>>, tlms' = Tail(tlms)
    PROVE  LET tlm == Head(tlms)
           IN /\ tlm.id \in DOMAIN made /\ tlm.event \in {"created", "modified", "deleted", "undeleted"}
              /\ tlm.text \in 0..MaxText /\ tlm \in Tlm
              /\ \A q, e : Waits(tlms', q, e) => Waits(tlms, q, e)
              /\ \A q, e : Waits(tlms, q, e) /\ (q # tlm.id \/ e # tlm.event) => Waits(tlms', q, e)
              /\ ~Waits(tlms', tlm.id, "created")
              /\ tlm.event = "created" => Waits(tlms, tlm.id, "created")
              /\ tlm.event = "deleted" => made[tlm.id].deleted \/ tlm.id \in disturbed
              /\ tlm.event = "undeleted" => tlm.id \in disturbed
              /\ made[tlm.id].kind = "revision" => tlm.event = "created"
              /\ tlm.event # "deleted" => Right(made, tlms', tlm.text, tlm.id)
<1>1. PICK tlm : tlm = Head(tlms)
      OBVIOUS
<1>2. /\ tlm = tlms[1] /\ 1 \in DOMAIN tlms /\ tlm \in Tlm
      /\ \A j \in DOMAIN tlms' : j + 1 \in DOMAIN tlms /\ tlms'[j] = tlms[j + 1] /\ j \in Nat
      /\ \A j \in DOMAIN tlms : j \in Nat /\ (j = 1 \/ (j - 1 \in DOMAIN tlms' /\ tlms'[j - 1] = tlms[j] /\ j > 1))
      BY <1>1, TailLeaves
<1>3. \A q, e : Waits(tlms', q, e) => \E k \in DOMAIN tlms : k \in Nat /\ tlms[k].id = q /\ tlms[k].event = e
      BY <1>2 DEF Waits
<1>4. ASSUME NEW k \in DOMAIN tlms, k > 1 PROVE Waits(tlms', tlms[k].id, tlms[k].event)
      BY <1>2, <1>4 DEF Waits
<1>5. \A q, e : Waits(tlms, q, e) /\ (q # tlm.id \/ e # tlm.event) => Waits(tlms', q, e)
      <2>1. \A k \in DOMAIN tlms : k = 1 \/ k > 1
            BY <1>2
      <2>2. QED BY <1>2, <1>4, <2>1 DEF Waits
<1>6. ~Waits(tlms', tlm.id, "created")
      <2>1. \A k \in DOMAIN tlms : k > 1 /\ tlms[k].id = tlm.id => tlms[k].event # "created"
            BY <1>2 DEF TlmsInv
      <2>2. ASSUME NEW j \in DOMAIN tlms', tlms'[j].id = tlm.id
            PROVE  tlms'[j].event # "created"
            <3>1. j + 1 \in DOMAIN tlms /\ tlms'[j] = tlms[j + 1] /\ j \in Nat
                  BY <1>2
            <3>2. 1 <= j
                  <4>1. j \in 1..Len(tlms') /\ Len(tlms') \in Nat
                        BY <2>2, TailLeaves, LenProperties
                  <4>2. QED BY <4>1
            <3>3. j + 1 > 1
                  BY <3>1, <3>2
            <3>4. QED BY <2>1, <2>2, <3>1, <3>3
      <2>3. QED BY <2>2 DEF Waits
<1>7. /\ tlm.id \in DOMAIN made
      /\ tlm.event = "deleted" => made[tlm.id].deleted \/ tlm.id \in disturbed
      /\ tlm.event = "undeleted" => tlm.id \in disturbed
      /\ made[tlm.id].kind = "revision" => tlm.event = "created"
      BY <1>2 DEF TlmsInv
<1>8. ASSUME tlm.event # "deleted" PROVE Right(made, tlms', tlm.text, tlm.id)
      <2>1. \/ tlm.text = made[tlm.id].text
            \/ \E k \in DOMAIN tlms : k > 1 /\ tlms[k].id = tlm.id /\ tlms[k].event = "modified"
            BY <1>2, <1>8 DEF TlmsInv
      <2>2. QED BY <1>4, <2>1 DEF Right
<1>9. tlm.event = "created" => Waits(tlms, tlm.id, "created")
      BY <1>2 DEF Waits
<1>10. tlm.event \in {"created", "modified", "deleted", "undeleted"} /\ tlm.text \in 0..MaxText
       BY <1>2 DEF Tlm
<1>11. \A q, e : Waits(tlms', q, e) => Waits(tlms, q, e)
       BY <1>3 DEF Waits
<1>12. QED BY <1>1, <1>2, <1>5, <1>6, <1>7, <1>8, <1>9, <1>10, <1>11

(* A modified file takes the place of the one with its id.                 *)
LEMMA ModifiedReplaces ==
    ASSUME NEW n, IsItems(wholeTimeline, n), NEW tlm, HandleChildContentModified(tlm),
           ParentOf(tlm.id) = mounted, tlm.id \in Ids(wholeTimeline)
    PROVE  \E index \in DOMAIN wholeTimeline :
              /\ wholeTimeline[index].id = tlm.id
              /\ wholeTimeline' = [wholeTimeline EXCEPT ![index] = Item(tlm.id, tlm.text)]
<1> DEFINE found == {i \in DOMAIN wholeTimeline : wholeTimeline[i].id = tlm.id}
<1>1. found \in SUBSET Nat /\ found # {}
      <2>1. DOMAIN wholeTimeline \subseteq Nat
            BY LenProperties DEF IsItems
      <2>2. QED BY <2>1 DEF Ids
<1>2. Min(found) \in found
      BY <1>1, MinIsLeast
<1>3. wholeTimeline' = [wholeTimeline EXCEPT ![Min(found)] = Item(tlm.id, tlm.text)]
      BY DEF HandleChildContentModified, SetTimeline
<1>4. PICK index : index = Min(found)
      OBVIOUS
<1>5. QED BY <1>2, <1>3, <1>4

(* What a live message does to the other items: nothing.                   *)
LEMMA HandleLeavesOthers ==
    ASSUME TypeInv, HandleTlm, NEW q, q # Head(tlms).id
    PROVE  Alike(wholeTimeline', wholeTimeline, q) /\ CallsAlike(calls', calls, q)
<1>1. PICK tlm : tlm = Head(tlms)
      OBVIOUS
<1>2. PICK n : n = Len(made)
      OBVIOUS
<1>3. /\ tlm.id \in 1..n /\ n \in Nat /\ tlm.text \in 0..MaxText \cup {None}
      /\ IsItems(wholeTimeline, n) /\ tlm.id # q
      <2>1. tlms # <<>> /\ tlms' = Tail(tlms)
            BY DEF HandleTlm, Handled
      <2>2. tlm.id \in DOMAIN made /\ tlm.text \in 0..MaxText
            BY <1>1, <2>1, TailWaits DEF TypeInv
      <2>3. QED BY <1>1, <1>2, <2>2, MadeIsSeq DEF TypeInv, ListsInv
<1>4. ASSUME NEW op \in {"add", "update", "revision"}, Await(op, tlm.id)
      PROVE  Alike(wholeTimeline', wholeTimeline, q) /\ CallsAlike(calls', calls, q)
      <2>1. wholeTimeline' = wholeTimeline
            BY <1>4 DEF Await, listVars
      <2>2. PICK call : call = Single(op, tlm.id, 0)
            OBVIOUS
      <2>3. ~About(call, q)
            BY <1>3, <1>4, <2>2 DEF About, IsOn, IsPages, Single
      <2>4. calls' = calls \/ calls' = Append(calls, call)
            BY <1>4, <2>2 DEF Await
      <2>5. CASE calls' = calls
            BY <2>1, <2>5, AlikeIsAlike, SameCalls
      <2>6. CASE calls' = Append(calls, call)
            <3>1. CallsGrow(calls', calls, call)
                  BY <2>6, CallsWith DEF TypeInv, CallsInv
            <3>2. QED BY <2>1, <2>3, <3>1, OtherComes, AlikeIsAlike
      <2>7. QED BY <2>4, <2>5, <2>6
<1>5. ASSUME UNCHANGED calls, UNCHANGED listVars
      PROVE  Alike(wholeTimeline', wholeTimeline, q) /\ CallsAlike(calls', calls, q)
      BY <1>5, AlikeIsAlike, SameCalls DEF listVars
<1>6. CASE HandleChildContentCreated(tlm)
      <2>1. UNCHANGED calls
            BY <1>6 DEF HandleChildContentCreated
      <2>2. CASE AddChildContentToTimeline(Item(tlm.id, tlm.text))
            <3>1. IsItem(Item(tlm.id, tlm.text), n) /\ Item(tlm.id, tlm.text).id = tlm.id
                  BY <1>3, ItemIsItem
            <3>2. wholeTimeline' = SortTimelineByDate(Append(wholeTimeline, Item(tlm.id, tlm.text)))
                  BY <2>2 DEF AddChildContentToTimeline
            <3>3. QED BY <1>3, <2>1, <3>1, <3>2, AddIsAlike, SameCalls
      <2>3. QED BY <1>5, <1>6, <2>1, <2>2 DEF HandleChildContentCreated
<1>7. CASE HandleChildContentDeleted(tlm)
      <2>1. UNCHANGED calls
            BY <1>7 DEF HandleChildContentDeleted
      <2>2. CASE wholeTimeline' = Without(wholeTimeline, tlm.id)
            <3>1. Alike(Without(wholeTimeline, tlm.id), wholeTimeline, q)
                  BY <1>3, WithoutIsAlike DEF IsItems
            <3>2. QED BY <2>1, <2>2, <3>1, SameCalls
      <2>3. QED BY <1>5, <1>7, <2>1, <2>2 DEF HandleChildContentDeleted, SetTimeline
<1>8. CASE HandleChildContentModified(tlm)
      <2>1. UNCHANGED calls
            BY <1>8 DEF HandleChildContentModified
      <2>2. CASE UNCHANGED listVars
            BY <1>5, <2>1, <2>2
      <2>3. ASSUME NEW index \in DOMAIN wholeTimeline, wholeTimeline[index].id = tlm.id,
                   wholeTimeline' = [wholeTimeline EXCEPT ![index] = Item(tlm.id, tlm.text)]
            PROVE  Alike(wholeTimeline', wholeTimeline, q) /\ CallsAlike(calls', calls, q)
            <3>1. Item(tlm.id, tlm.text).id = tlm.id
                  BY <1>3, ItemIsItem
            <3>2. DOMAIN wholeTimeline' = DOMAIN wholeTimeline
                  BY <2>3
            <3>3. \A i \in DOMAIN wholeTimeline : wholeTimeline'[i].id = wholeTimeline[i].id
                  BY <2>3, <3>1
            <3>4. \A i \in At(wholeTimeline, q) : wholeTimeline'[i].text = wholeTimeline[i].text
                  BY <1>3, <2>3 DEF At
            <3>5. QED BY <2>1, <3>2, <3>3, <3>4, ChangedIsAlike, SameCalls
      <2>4. CASE ParentOf(tlm.id) = mounted /\ tlm.id \in Ids(wholeTimeline)
            BY <1>3, <1>8, <2>3, <2>4, ModifiedReplaces
      <2>5. QED BY <1>8, <2>2, <2>4 DEF HandleChildContentModified
<1>9. CASE HandleChildContentRestored(tlm)
      BY <1>5, <1>9 DEF HandleChildContentRestored
<1>10. QED
      <2>1. \/ HandleCommentCreated(tlm) \/ HandleContentCommentModified(tlm)
            \/ HandleContentModified(tlm) \/ HandleChildContentCreated(tlm)
            \/ HandleChildContentDeleted(tlm) \/ HandleChildContentModified(tlm)
            \/ HandleChildContentRestored(tlm)
            BY <1>1 DEF HandleTlm
      <2>2. QED BY <1>4, <1>6, <1>7, <1>8, <1>9, <2>1 DEF HandleCommentCreated,
                   HandleContentCommentModified, HandleContentModified

-----------------------------------------------------------------------------
(* What a live message does to its item.                                   *)

(* A message about an item that nothing is awaited about.                  *)
Told(tlm, id) ==
    /\ tlm.id = id /\ id \in DOMAIN made /\ tlm.text \in 0..MaxText
    /\ NoneAbout(calls, id)
    /\ UNCHANGED <<made, mounted, content, pageToken, hasMore>>
    /\ \A e : Waits(tlms', id, e) => Waits(tlms, id, e)
    /\ \A e : Waits(tlms, id, e) /\ e # tlm.event => Waits(tlms', id, e)
    /\ ~Waits(tlms', id, "created")
    /\ tlm.event = "created" => Waits(tlms, id, "created")
    /\ tlm.event \in {"created", "modified", "deleted"}
    /\ tlm.event = "deleted" => made[id].deleted
    /\ made[id].kind = "revision" => tlm.event = "created"
    /\ tlm.event # "deleted" => Right(made, tlms', tlm.text, id)

(* A message that does not disturb its item.                               *)
LEMMA HeadIsTold ==
    ASSUME TypeInv, HandleTlm, NEW id, id = Head(tlms).id, id \notin disturbed'
    PROVE  Told(Head(tlms), id)
<1>1. PICK tlm : tlm = Head(tlms)
      OBVIOUS
<1>2. tlms # <<>> /\ Handled(tlm.id)
      BY <1>1 DEF HandleTlm
<1>3. tlms' = Tail(tlms)
      BY <1>2 DEF Handled
<1>4. id = tlm.id /\ id \in DOMAIN made /\ tlm.text \in 0..MaxText
      BY <1>1, <1>2, <1>3, TailWaits DEF TypeInv
<1>5. id \notin Awaited
      BY <1>2, <1>4 DEF Handled
<1>6. NoneAbout(calls, id)
      BY <1>4, <1>5, NotAwaitedIsFree DEF TypeInv
<1>7. UNCHANGED <<made, mounted, content, pageToken, hasMore>>
      BY <1>2 DEF Handled, openVars, pageVars
<1>8. id \notin disturbed
      BY <1>2 DEF Handled
<1>9. QED BY <1>1, <1>2, <1>3, <1>4, <1>6, <1>7, <1>8, TailWaits DEF Told, TypeInv

(* A message that starts a call, and one that does not.                    *)
LEMMA AwaitStarts ==
    ASSUME TypeInv, NEW op \in {"add", "update", "revision"}, NEW id, Await(op, id),
           made[id].parent = content, NoneAbout(calls, id)
    PROVE  \E call :
              /\ call.op = op /\ call.id = id /\ ~IsPages(call) /\ ~Read(call)
              /\ wholeTimeline' = wholeTimeline
              /\ AtMostOne(calls', id)
              /\ Adding(calls', id) <=> op # "update"
              /\ Updating(calls', id) <=> op = "update"
              /\ \A j \in DOMAIN calls' : About(calls'[j], id) => calls'[j] = call
<1>1. PICK call : call = Single(op, id, 0)
      OBVIOUS
<1>2. call.op = op /\ call.id = id /\ ~IsPages(call) /\ ~Read(call)
      BY <1>1 DEF Single, IsPages, Read
<1>3. calls' = Append(calls, call) /\ wholeTimeline' = wholeTimeline
      BY <1>1 DEF Await, ParentOf, listVars
<1>4. CallsGrow(calls', calls, call)
      BY <1>3, CallsWith DEF TypeInv, CallsInv
<1>5. /\ AtMostOne(calls', id)
      /\ Adding(calls', id) <=> IsOn(call, id) /\ call.op \in {"add", "revision"}
      /\ Updating(calls', id) <=> IsOn(call, id) /\ call.op = "update"
      /\ \A j \in DOMAIN calls' : About(calls'[j], id) => calls'[j] = call
      BY <1>4, OnlyOneComes
<1>6. (Adding(calls', id) <=> op # "update") /\ (Updating(calls', id) <=> op = "update")
      BY <1>2, <1>5 DEF IsOn
<1>7. QED BY <1>2, <1>3, <1>5, <1>6

LEMMA AwaitDoesNot ==
    ASSUME NEW op, NEW id, Await(op, id), made[id].parent # content
    PROVE  UNCHANGED calls /\ wholeTimeline' = wholeTimeline
BY DEF Await, ParentOf, listVars

(* What is created is added to the timeline or awaited, if it is there.    *)
LEMMA ToldOfCreation ==
    ASSUME TypeInv, NEW tlm, NEW id, Told(tlm, id), tlm.event = "created", FreshInv(id),
           \/ HandleCommentCreated(tlm) \/ HandleContentModified(tlm)
           \/ HandleChildContentCreated(tlm)
    PROVE  KnownInv(id)'
<1>1. /\ id \in DOMAIN made /\ tlm.id = id /\ NoneAbout(calls, id)
      /\ made' = made /\ mounted' = mounted /\ content' = content /\ pageToken' = pageToken
      BY DEF Told
<1>2. ~Gone(made', tlms', id)
      BY DEF Told, FreshInv, Gone
<1>3. At(wholeTimeline, id) = {} /\ FreshToken(pageToken[made[id].kind], id)
      BY DEF FreshInv
<1>4. id \in Nat /\ pageToken[made[id].kind] \in Nat /\ IsItems(wholeTimeline, Len(made))
      <2>1. id \in Nat /\ made[id].kind \in Kind
            BY <1>1, MadeIsSeq DEF TypeInv, Made
      <2>2. pageToken[made[id].kind] \in 1..FirstPage /\ FirstPage \in Nat
            BY <2>1, MadeIsSeq DEF TypeInv, TabInv
      <2>3. QED BY <2>1, <2>2 DEF TypeInv, ListsInv
<1>5. pageToken[made[id].kind] <= id \/ pageToken[made[id].kind] = FirstPage
      BY <1>3, <1>4 DEF FreshToken
<1>6. ASSUME UNCHANGED calls, wholeTimeline' = wholeTimeline, made[id].parent # content
      PROVE  KnownInv(id)'
      BY <1>1, <1>3, <1>6, NoneIsFine DEF KnownInv
<1>7. ASSUME NEW op \in {"add", "revision"}, Await(op, id), made[id].parent = content
      PROVE  KnownInv(id)'
      <2>1. PICK call :
              /\ call.op = op /\ call.id = id /\ ~IsPages(call) /\ ~Read(call)
              /\ wholeTimeline' = wholeTimeline
              /\ AtMostOne(calls', id)
              /\ Adding(calls', id) <=> op # "update"
              /\ Updating(calls', id) <=> op = "update"
              /\ \A j \in DOMAIN calls' : About(calls'[j], id) => calls'[j] = call
            BY <1>1, <1>7, AwaitStarts
      <2>2. SingleInv(made', tlms', content', wholeTimeline', call, id)
            BY <1>1, <1>2, <1>3, <1>7, <2>1 DEF SingleInv
      <2>3. \A j \in DOMAIN calls' : CallInv(made', tlms', content', wholeTimeline', calls'[j], id)
            BY <2>1, <2>2 DEF CallInv, About
      <2>4. ShownInv(id)'
            BY <1>1, <1>3, <1>5, <1>7, <2>1 DEF ShownInv, Once
      <2>5. QED BY <1>2, <2>1, <2>3, <2>4, <1>1, <1>7 DEF KnownInv
<1>8. CASE HandleCommentCreated(tlm)
      <2>1. Await("add", id)
            BY <1>1, <1>8 DEF HandleCommentCreated
      <2>2. QED BY <1>6, <1>7, <2>1, AwaitDoesNot
<1>9. CASE HandleContentModified(tlm)
      <2>1. Await("revision", id)
            BY <1>1, <1>9 DEF HandleContentModified
      <2>2. QED BY <1>6, <1>7, <2>1, AwaitDoesNot
<1>10. CASE HandleChildContentCreated(tlm)
      <2>1. UNCHANGED calls
            BY <1>10 DEF HandleChildContentCreated
      <2>2. CASE made[id].parent # content
            BY <1>1, <1>6, <1>10, <2>1, <2>2 DEF HandleChildContentCreated, ParentOf, listVars
      <2>3. CASE made[id].parent = content
            <3>1. PICK item : item = Item(id, tlm.text)
                  OBVIOUS
            <3>2. IsItem(item, Len(made)) /\ item.id = id /\ item.text = tlm.text
                  BY <1>1, <3>1, ItemIsItem, MadeIsSeq DEF TypeInv, Told
            <3>3. wholeTimeline' = SortTimelineByDate(Append(wholeTimeline, item))
                  BY <1>1, <1>10, <2>3, <3>1 DEF HandleChildContentCreated, ParentOf,
                     AddChildContentToTimeline
            <3>4. /\ At(wholeTimeline', id) # {} /\ Once(wholeTimeline', id)
                  /\ \A i \in At(wholeTimeline', id) : wholeTimeline'[i].text = tlm.text
                  BY <1>3, <1>4, <3>2, <3>3, AddHasIt
            <3>5. Right(made', tlms', tlm.text, id)
                  BY <1>1 DEF Told
            <3>6. ~Adding(calls', id) /\ ~Updating(calls', id) /\ AtMostOne(calls', id)
                  /\ \A j \in DOMAIN calls' : CallInv(made', tlms', content', wholeTimeline', calls'[j], id)
                  BY <1>1, <2>1, NoneIsFine
            <3>7. ShownInv(id)'
                  BY <1>1, <1>5, <3>4, <3>5, <3>6 DEF ShownInv
            <3>8. QED BY <1>1, <1>2, <2>3, <3>6, <3>7 DEF KnownInv
      <2>4. QED BY <2>2, <2>3
<1>11. QED BY <1>8, <1>9, <1>10

(* What is modified is read again, or takes the text that is told.         *)
LEMMA ToldOfChange ==
    ASSUME TypeInv, NEW tlm, NEW id, Told(tlm, id), tlm.event = "modified", KnownInv(id),
           HandleContentCommentModified(tlm) \/ HandleChildContentModified(tlm)
    PROVE  KnownInv(id)'
<1>1. /\ id \in DOMAIN made /\ tlm.id = id /\ NoneAbout(calls, id)
      /\ made' = made /\ mounted' = mounted /\ content' = content /\ pageToken' = pageToken
      /\ hasMore' = hasMore
      BY DEF Told
<1>2. Gone(made', tlms', id) <=> Gone(made, tlms, id)
      BY DEF Told, Gone
<1>3. ~Adding(calls, id) /\ ~Updating(calls, id)
      BY <1>1, NoneIsFine
<1>4. made[id].parent # content \/ Gone(made, tlms, id) => At(wholeTimeline, id) = {}
      BY DEF KnownInv
<1>5. CASE HandleContentCommentModified(tlm)
      <2>1. Await("update", id) /\ made[id].kind = "comment"
            BY <1>1, <1>5 DEF HandleContentCommentModified
      <2>2. CASE made[id].parent # content
            <3>1. UNCHANGED calls /\ wholeTimeline' = wholeTimeline
                  BY <2>1, <2>2, AwaitDoesNot
            <3>2. QED BY <1>1, <1>4, <2>2, <3>1, NoneIsFine DEF KnownInv
      <2>3. CASE made[id].parent = content
            <3>1. PICK call :
                    /\ call.op = "update" /\ call.id = id /\ ~IsPages(call) /\ ~Read(call)
                    /\ wholeTimeline' = wholeTimeline
                    /\ AtMostOne(calls', id)
                    /\ ~Adding(calls', id)
                    /\ Updating(calls', id)
                    /\ \A j \in DOMAIN calls' : About(calls'[j], id) => calls'[j] = call
                  BY <1>1, <2>1, <2>3, AwaitStarts
            <3>2. SingleInv(made', tlms', content', wholeTimeline', call, id)
                  BY <1>1, <2>3, <3>1 DEF SingleInv
            <3>3. \A j \in DOMAIN calls' : CallInv(made', tlms', content', wholeTimeline', calls'[j], id)
                  BY <3>1, <3>2 DEF CallInv, About
            <3>4. ShownInv(id) => ShownInv(id)'
                  BY <1>1, <1>3, <3>1 DEF ShownInv
            <3>5. QED BY <1>1, <1>2, <3>1, <3>3, <3>4 DEF KnownInv
      <2>4. QED BY <2>2, <2>3
<1>6. CASE HandleChildContentModified(tlm)
      <2>1. UNCHANGED calls /\ made[id].kind = "file"
            BY <1>1, <1>6 DEF HandleChildContentModified
      <2>2. /\ AtMostOne(calls', id) /\ ~Adding(calls', id) /\ ~Updating(calls', id)
            /\ \A j \in DOMAIN calls' : CallInv(made', tlms', content', wholeTimeline', calls'[j], id)
            BY <1>1, <2>1, NoneIsFine
      <2>3. CASE ParentOf(id) = mounted /\ id \in Ids(wholeTimeline)
            <3>1. IsItems(wholeTimeline, Len(made))
                  BY DEF TypeInv, ListsInv
            <3>2. PICK index \in DOMAIN wholeTimeline :
                    /\ wholeTimeline[index].id = id
                    /\ wholeTimeline' = [wholeTimeline EXCEPT ![index] = Item(id, tlm.text)]
                  BY <1>1, <1>6, <2>3, <3>1, ModifiedReplaces
            <3>3. Item(id, tlm.text).id = id /\ Item(id, tlm.text).text = tlm.text
                  BY <1>1, ItemIsItem, MadeIsSeq DEF TypeInv, Told
            <3>4. /\ DOMAIN wholeTimeline' = DOMAIN wholeTimeline
                  /\ \A i \in DOMAIN wholeTimeline : wholeTimeline'[i].id = wholeTimeline[i].id
                  /\ wholeTimeline'[index].text = tlm.text
                  BY <3>2, <3>3
            <3>5. At(wholeTimeline', id) = At(wholeTimeline, id) /\ index \in At(wholeTimeline, id)
                  BY <3>2, <3>4 DEF At
            <3>6. Right(made', tlms', tlm.text, id)
                  BY <1>1 DEF Told
            <3>7. Once(wholeTimeline, id) =>
                    /\ Once(wholeTimeline', id)
                    /\ \A i \in At(wholeTimeline', id) : Right(made', tlms', wholeTimeline'[i].text, id)
                  BY <3>4, <3>5, <3>6 DEF Once
            <3>8. ShownInv(id) => ShownInv(id)'
                  BY <1>1, <1>3, <2>2, <3>5, <3>7 DEF ShownInv
            <3>9. QED BY <1>1, <1>2, <2>2, <3>5, <3>8 DEF KnownInv
      <2>4. CASE ParentOf(id) # mounted \/ id \notin Ids(wholeTimeline)
            <3>1. wholeTimeline' = wholeTimeline
                  BY <1>1, <1>6, <2>4 DEF HandleChildContentModified, listVars
            <3>2. made[id].parent # mounted \/ At(wholeTimeline, id) = {}
                  BY <2>4 DEF ParentOf, Ids, At
            <3>3. ShownInv(id) => ShownInv(id)'
                  BY <1>1, <1>3, <2>1, <2>2, <3>1, <3>2 DEF ShownInv
            <3>4. QED BY <1>1, <1>2, <2>2, <3>1, <3>3 DEF KnownInv
      <2>5. QED BY <2>3, <2>4
<1>7. QED BY <1>5, <1>6

(* What is deleted leaves the timeline.                                    *)
LEMMA ToldOfDeletion ==
    ASSUME TypeInv, NEW tlm, NEW id, Told(tlm, id), tlm.event = "deleted", KnownInv(id),
           HandleChildContentDeleted(tlm)
    PROVE  KnownInv(id)'
<1>1. /\ id \in DOMAIN made /\ tlm.id = id /\ NoneAbout(calls, id)
      /\ made' = made /\ content' = content /\ made[id].deleted
      BY DEF Told
<1>2. UNCHANGED calls
      BY DEF HandleChildContentDeleted
<1>3. At(wholeTimeline', id) = {}
      <2>1. CASE ParentOf(id) = content /\ id \in Ids(wholeTimeline)
            <3>1. wholeTimeline' = Without(wholeTimeline, id)
                  BY <1>1, <2>1 DEF HandleChildContentDeleted, SetTimeline
            <3>2. wholeTimeline \in Seq(AnyItem)
                  BY DEF TypeInv, ListsInv, IsItems
            <3>3. QED BY <3>1, <3>2, WithoutLeaves DEF At
      <2>2. CASE ParentOf(id) # content \/ id \notin Ids(wholeTimeline)
            <3>1. wholeTimeline' = wholeTimeline
                  BY <1>1, <2>2 DEF HandleChildContentDeleted, listVars
            <3>2. At(wholeTimeline, id) = {}
                  BY <2>2 DEF KnownInv, ParentOf, Ids, At
            <3>3. QED BY <3>1, <3>2
      <2>3. QED BY <2>1, <2>2
<1>4. QED BY <1>1, <1>2, <1>3, NoneIsFine DEF KnownInv

(* A live message leaves what is right.                                    *)
LEMMA HandleTlmStaysRight ==
    ASSUME TypeInv, RightInv, HandleTlm
    PROVE  RightInv'
<1> SUFFICES ASSUME NEW q \in DOMAIN made', q \notin disturbed' PROVE ItemInv(q)'
    BY DEF RightInv
<1>1. PICK tlm : tlm = Head(tlms)
      OBVIOUS
<1>2. tlms # <<>> /\ Handled(tlm.id)
      BY <1>1 DEF HandleTlm
<1>3. /\ UNCHANGED made /\ UNCHANGED <<mounted, content, pageToken, hasMore>>
      /\ tlms' = Tail(tlms) /\ disturbed \subseteq disturbed'
      BY <1>2 DEF Handled, openVars, pageVars
<1>4. ItemInv(q) /\ q \in DOMAIN made
      BY <1>3 DEF RightInv
<1>5. CASE q # tlm.id
      <2>1. SameTlms(tlms', tlms, q)
            <3>1. \A e : Waits(tlms', q, e) => Waits(tlms, q, e)
                  BY <1>2, <1>3, TailWaits DEF TypeInv
            <3>2. \A e : Waits(tlms, q, e) => Waits(tlms', q, e)
                  BY <1>1, <1>2, <1>3, <1>5, TailWaits DEF TypeInv
            <3>3. QED BY <3>1, <3>2 DEF SameTlms
      <2>2. Alike(wholeTimeline', wholeTimeline, q) /\ CallsAlike(calls', calls, q)
            BY <1>1, <1>5, HandleLeavesOthers
      <2>3. Same(q)
            BY <1>3, <2>1, <2>2 DEF Same
      <2>4. QED BY <1>4, <2>3, SameStaysRight
<1>6. CASE q = tlm.id
      <2>1. Told(tlm, q)
            BY <1>1, <1>6, HeadIsTold
      <2>2. \/ HandleCommentCreated(tlm) \/ HandleContentCommentModified(tlm)
            \/ HandleContentModified(tlm) \/ HandleChildContentCreated(tlm)
            \/ HandleChildContentDeleted(tlm) \/ HandleChildContentModified(tlm)
            \/ HandleChildContentRestored(tlm)
            BY <1>1 DEF HandleTlm
      <2>3. ~Waits(tlms', q, "created") /\ tlm.event \in {"created", "modified", "deleted"}
            BY <2>1 DEF Told
      <2>4. KnownInv(q)'
            <3>1. CASE tlm.event = "created"
                  <4>1. FreshInv(q)
                        BY <1>4, <2>1, <3>1 DEF Told, ItemInv
                  <4>2. \/ HandleCommentCreated(tlm) \/ HandleContentModified(tlm)
                        \/ HandleChildContentCreated(tlm)
                        BY <2>2, <3>1 DEF HandleContentCommentModified, HandleChildContentDeleted,
                           HandleChildContentModified, HandleChildContentRestored
                  <4>3. QED BY <2>1, <3>1, <4>1, <4>2, ToldOfCreation
            <3>2. CASE tlm.event # "created"
                  <4>1. KnownInv(q) /\ made[tlm.id].kind # "revision"
                        BY <1>4, <1>6, <2>1, <3>2 DEF Told, ItemInv
                  <4>2. CASE tlm.event = "modified"
                        <5>1. HandleContentCommentModified(tlm) \/ HandleChildContentModified(tlm)
                              BY <2>2, <4>1, <4>2 DEF HandleCommentCreated, HandleContentModified,
                                 HandleChildContentCreated, HandleChildContentDeleted,
                                 HandleChildContentRestored
                        <5>2. QED BY <2>1, <4>1, <4>2, <5>1, ToldOfChange
                  <4>3. CASE tlm.event = "deleted"
                        <5>1. HandleChildContentDeleted(tlm)
                              BY <2>2, <4>1, <4>3 DEF HandleCommentCreated, HandleContentModified,
                                 HandleChildContentCreated, HandleContentCommentModified,
                                 HandleChildContentModified, HandleChildContentRestored
                        <5>2. QED BY <2>1, <4>1, <4>3, <5>1, ToldOfDeletion
                  <4>4. QED BY <2>3, <3>2, <4>2, <4>3
            <3>3. QED BY <3>1, <3>2
      <2>5. QED BY <2>3, <2>4 DEF ItemInv
<1>7. QED BY <1>5, <1>6

-----------------------------------------------------------------------------
(* The user: opening a content, "See more", translating a comment.         *)

(* A load starts when nothing is awaited about an item.                    *)
LEMMA ShowContentStaysRight ==
    ASSUME TypeInv, RightInv, NEW c \in Content, ShowContent(c)
    PROVE  RightInv'
<1> SUFFICES ASSUME NEW q \in DOMAIN made', q \notin disturbed' PROVE ItemInv(q)'
    BY DEF RightInv
<1>1. /\ made' = made /\ tlms' = tlms /\ mounted' = mounted /\ content' = content
      /\ wholeTimeline' = <<>>
      /\ pageToken' = [k \in Kind |-> FirstPage] /\ hasMore' = [k \in Kind |-> TRUE]
      /\ calls' = Append(calls, Pages("load", c, PageSize, pageToken'))
      /\ disturbed' = disturbed \cup Awaited
      BY DEF ShowContent, LoadTimeline, serverVars
<1>2. q \in DOMAIN made /\ ItemInv(q) /\ NoneAbout(calls, q)
      BY <1>1, NotAwaitedIsFree DEF RightInv, TypeInv
<1>3. PICK k : k = made[q].kind
      OBVIOUS
<1>4. k \in Kind /\ q \in Nat /\ q < FirstPage /\ FirstPage \in Nat
      BY <1>2, <1>3, MadeIsSeq DEF TypeInv, Made
<1>5. At(wholeTimeline', q) = {} /\ pageToken'[k] = FirstPage /\ hasMore'[k]
      BY <1>1, <1>4 DEF At
<1>6. PICK call : call = Pages("load", c, PageSize, pageToken')
      OBVIOUS
<1>7. IsPages(call) /\ ~Read(call) /\ call.from[k] = FirstPage
      BY <1>5, <1>6 DEF Pages, IsPages, Read
<1>8. CallsGrow(calls', calls, call)
      BY <1>1, <1>6, CallsWith DEF TypeInv, CallsInv
<1>9. /\ AtMostOne(calls', q) /\ ~Adding(calls', q)
      /\ \A j \in DOMAIN calls' : About(calls'[j], q) => calls'[j] = call
      BY <1>2, <1>7, <1>8, OnlyOneComes DEF IsOn
<1>10. CASE Waits(tlms, q, "created")
      <2>1. FreshInv(q)
            BY <1>2, <1>10 DEF ItemInv
      <2>2. \A j \in DOMAIN calls' : FreshCall(k, calls'[j], q)
            BY <1>7, <1>9 DEF FreshCall, About, IsOn, FreshToken
      <2>3. FreshInv(q)'
            BY <1>1, <1>3, <1>5, <2>1, <2>2 DEF FreshInv, FreshToken
      <2>4. QED BY <1>1, <1>10, <2>3 DEF ItemInv
<1>11. CASE ~Waits(tlms, q, "created")
      <2>1. \A j \in DOMAIN calls' : CallInv(made', tlms', content', wholeTimeline', calls'[j], q)
            BY <1>7, <1>9 DEF CallInv, About, IsOn
      <2>2. ShownInv(q)'
            BY <1>1, <1>3, <1>4, <1>5, <1>9 DEF ShownInv, Once
      <2>3. KnownInv(q)'
            BY <1>5, <1>9, <2>1, <2>2 DEF KnownInv
      <2>4. QED BY <1>1, <1>11, <2>3 DEF ItemInv
<1>12. QED BY <1>10, <1>11

(* So does loading more: the token that the call takes is the current one. *)
LEMMA LoadMoreStaysRight ==
    ASSUME TypeInv, RightInv, LoadMoreTimelineItems
    PROVE  RightInv'
<1> SUFFICES ASSUME NEW q \in DOMAIN made', q \notin disturbed' PROVE ItemInv(q)'
    BY DEF RightInv
<1>1. /\ made' = made /\ tlms' = tlms /\ mounted' = mounted /\ content' = content
      /\ wholeTimeline' = wholeTimeline /\ pageToken' = pageToken /\ hasMore' = hasMore
      /\ calls' = Append(calls, Pages("more", content, Len(timeline) + PageSize, pageToken))
      /\ disturbed' = disturbed \cup Awaited
      BY DEF LoadMoreTimelineItems, serverVars, openVars, listVars, pageVars
<1>2. q \in DOMAIN made /\ ItemInv(q) /\ NoneAbout(calls, q)
      BY <1>1, NotAwaitedIsFree DEF RightInv, TypeInv
<1>3. PICK k : k = made[q].kind
      OBVIOUS
<1>4. PICK call : call = Pages("more", content, Len(timeline) + PageSize, pageToken)
      OBVIOUS
<1>5. IsPages(call) /\ ~Read(call) /\ call.from[k] = pageToken[k]
      BY <1>4 DEF Pages, IsPages, Read
<1>6. CallsGrow(calls', calls, call)
      BY <1>1, <1>4, CallsWith DEF TypeInv, CallsInv
<1>7. /\ AtMostOne(calls', q) /\ ~Adding(calls', q) /\ ~Updating(calls', q)
      /\ \A j \in DOMAIN calls' : About(calls'[j], q) => calls'[j] = call
      BY <1>2, <1>5, <1>6, OnlyOneComes DEF IsOn
<1>8. ~Adding(calls, q) /\ ~Updating(calls, q)
      BY <1>2, NoneIsFine
<1>9. CASE Waits(tlms, q, "created")
      <2>1. FreshInv(q)
            BY <1>2, <1>9 DEF ItemInv
      <2>2. \A j \in DOMAIN calls' : FreshCall(k, calls'[j], q)
            BY <1>3, <1>5, <1>7, <2>1 DEF FreshCall, About, IsOn, FreshInv
      <2>3. FreshInv(q)'
            BY <1>1, <1>3, <2>1, <2>2 DEF FreshInv
      <2>4. QED BY <1>1, <1>9, <2>3 DEF ItemInv
<1>10. CASE ~Waits(tlms, q, "created")
      <2>1. KnownInv(q)
            BY <1>2, <1>10 DEF ItemInv
      <2>2. \A j \in DOMAIN calls' : CallInv(made', tlms', content', wholeTimeline', calls'[j], q)
            BY <1>5, <1>7 DEF CallInv, About, IsOn
      <2>3. ShownInv(q) => ShownInv(q)'
            BY <1>1, <1>7, <1>8 DEF ShownInv
      <2>4. KnownInv(q)'
            BY <1>1, <1>7, <2>1, <2>2, <2>3 DEF KnownInv
      <2>5. QED BY <1>1, <1>10, <2>4 DEF ItemInv
<1>11. QED BY <1>9, <1>10

-----------------------------------------------------------------------------
(* A displayed comment takes the place of the one it is.                   *)
LEMMA ReplaceDisplayed ==
    ASSUME TypeInv, NEW j \in DOMAIN timeline, NEW t,
           wholeTimeline' = ReplaceComment([timeline[j] EXCEPT !.translation = t], wholeTimeline),
           NEW id
    PROVE  Alike(wholeTimeline', wholeTimeline, id)
<1>1. PICK item : item = [timeline[j] EXCEPT !.translation = t]
      OBVIOUS
<1>2. timeline[j] \in AnyItem
      BY DisplayedIsItem DEF IsItem
<1>3. item.id = timeline[j].id /\ item.text = timeline[j].text
      BY <1>1, <1>2 DEF AnyItem
<1>4. PICK f \in [DOMAIN timeline -> DOMAIN wholeTimeline] :
        \A i \in DOMAIN timeline : timeline[i] = wholeTimeline[f[i]]
      BY DEF TypeInv, ListsInv, PartOf
<1>5. f[j] \in DOMAIN wholeTimeline /\ wholeTimeline[f[j]] = timeline[j]
      BY <1>4
<1>6. /\ DOMAIN wholeTimeline' = DOMAIN wholeTimeline
      /\ \A i \in DOMAIN wholeTimeline :
            wholeTimeline'[i] = IF wholeTimeline[i].id = item.id THEN item ELSE wholeTimeline[i]
      BY <1>1 DEF ReplaceComment
<1>7. At(wholeTimeline', id) = At(wholeTimeline, id)
      BY <1>6 DEF At
<1>8. ASSUME NEW i \in At(wholeTimeline', id)
      PROVE  \E n \in At(wholeTimeline, id) : wholeTimeline'[i].text = wholeTimeline[n].text
      <2>1. i \in DOMAIN wholeTimeline /\ wholeTimeline[i].id = id /\ i \in At(wholeTimeline, id)
            BY <1>7, <1>8 DEF At
      <2>2. CASE id = item.id
            <3>1. f[j] \in At(wholeTimeline, id)
                  BY <1>3, <1>5, <2>2 DEF At
            <3>2. QED BY <1>3, <1>5, <1>6, <2>1, <2>2, <3>1
      <2>3. CASE id # item.id
            BY <1>6, <2>1, <2>3
      <2>4. QED BY <2>2, <2>3
<1>9. QED BY <1>7, <1>8 DEF Alike, Once

(* The original text of a comment comes back: it is the same item.         *)
LEMMA RestoreStaysRight ==
    ASSUME TypeInv, RightInv, NEW j \in DOMAIN timeline, RestoreComment(timeline[j])
    PROVE  RightInv'
<1> SUFFICES ASSUME NEW q \in DOMAIN made', q \notin disturbed' PROVE ItemInv(q)'
    BY DEF RightInv
<1>1. /\ UNCHANGED <<made, tlms, mounted, content, pageToken, hasMore, calls, disturbed>>
      /\ wholeTimeline' = ReplaceComment([timeline[j] EXCEPT !.translation = "untranslated"],
                                         wholeTimeline)
      BY DEF RestoreComment, SetTimeline, serverVars, openVars, pageVars
<1>2. ItemInv(q)
      BY <1>1 DEF RightInv
<1>3. Same(q)
      BY <1>1, ReplaceDisplayed, SameCalls, SameTlmsAreSame DEF Same
<1>4. QED BY <1>2, <1>3, SameStaysRight

(* The text that is put back after a translation is right, or will be told.*)
LEMMA TranslateStaysRight ==
    ASSUME TypeInv, RightInv, NEW j \in DOMAIN timeline, TranslateComment(timeline[j])
    PROVE  RightInv'
<1> SUFFICES ASSUME NEW q \in DOMAIN made', q \notin disturbed' PROVE ItemInv(q)'
    BY DEF RightInv
<1>1. PICK item : item = timeline[j]
      OBVIOUS
<1>2. /\ UNCHANGED <<made, tlms, mounted, content, pageToken, hasMore>>
      /\ wholeTimeline' = ReplaceComment([timeline[j] EXCEPT !.translation = "pending"],
                                         wholeTimeline)
      /\ calls' = Append(calls, Single("translate", item.id, item.text))
      /\ disturbed' = disturbed \cup ({item.id} \cap Awaited)
      /\ made[item.id].kind = "comment"
      BY <1>1 DEF TranslateComment, SetTimeline, serverVars, openVars, pageVars
<1>3. ItemInv(q) /\ q \in DOMAIN made
      BY <1>2 DEF RightInv
<1>4. Alike(wholeTimeline', wholeTimeline, q)
      BY <1>2, ReplaceDisplayed
<1>5. PICK call : call = Single("translate", item.id, item.text)
      OBVIOUS
<1>6. /\ ~IsPages(call) /\ call.op = "translate" /\ call.id = item.id /\ call.text = item.text
      /\ ~Read(call)
      BY <1>5 DEF Single, IsPages, Read
<1>7. CallsGrow(calls', calls, call)
      BY <1>2, <1>5, CallsWith DEF TypeInv, CallsInv
<1>8. CASE q # item.id
      <2>1. ~About(call, q)
            BY <1>6, <1>8 DEF About, IsOn
      <2>2. Same(q)
            BY <1>2, <1>4, <1>7, <2>1, OtherComes, SameTlmsAreSame DEF Same
      <2>3. QED BY <1>3, <2>2, SameStaysRight
<1>9. CASE q = item.id
      <2>1. NoneAbout(calls, q)
            BY <1>2, <1>3, <1>9, NotAwaitedIsFree DEF TypeInv
      <2>2. PICK i \in DOMAIN wholeTimeline : wholeTimeline[i] = item
            BY <1>1 DEF TypeInv, ListsInv, PartOf
      <2>3. i \in At(wholeTimeline, q)
            BY <1>9, <2>2 DEF At
      <2>4. ~Waits(tlms, q, "created") /\ KnownInv(q)
            BY <1>3, <2>3 DEF ItemInv, FreshInv
      <2>5. ~Adding(calls, q) /\ ~Updating(calls, q)
            BY <2>1, NoneIsFine
      <2>6. /\ AtMostOne(calls', q) /\ ~Adding(calls', q) /\ ~Updating(calls', q)
            /\ \A n \in DOMAIN calls' : About(calls'[n], q) => calls'[n] = call
            BY <1>6, <1>7, <2>1, OnlyOneComes
      <2>7. ~made[q].deleted => Right(made, tlms, item.text, q)
            BY <1>2, <1>9, <2>2, <2>3, <2>4, <2>5 DEF KnownInv, ShownInv
      <2>8. SingleInv(made', tlms', content', wholeTimeline', call, q)
            BY <1>2, <1>6, <2>7 DEF SingleInv
      <2>9. \A n \in DOMAIN calls' : CallInv(made', tlms', content', wholeTimeline', calls'[n], q)
            BY <1>6, <2>6, <2>8 DEF CallInv, About
      <2>10. ShownInv(q) => ShownInv(q)'
            BY <1>2, <1>4, <2>5, <2>6 DEF ShownInv, Alike
      <2>11. KnownInv(q)'
            BY <1>2, <1>4, <2>4, <2>6, <2>9, <2>10 DEF KnownInv, Alike
      <2>12. QED BY <1>2, <2>4, <2>11 DEF ItemInv
<1>10. QED BY <1>8, <1>9

-----------------------------------------------------------------------------
(* The answers are right.                                                  *)

(* A call that is answered is the same call.                               *)
LEMMA AnsweredIsSame ==
    ASSUME CallsInv, NEW i \in DOMAIN calls, NEW answer
    PROVE  LET new == [calls[i] EXCEPT !.answer = answer]
           IN /\ new.answer = answer /\ new.op = calls[i].op
              /\ IsPages(new) <=> IsPages(calls[i])
              /\ IsPages(calls[i]) => new.of = calls[i].of /\ new.from = calls[i].from
              /\ ~IsPages(calls[i]) => new.id = calls[i].id /\ new.text = calls[i].text
              /\ \A q : (IsOn(new, q) <=> IsOn(calls[i], q)) /\ (About(new, q) <=> About(calls[i], q))
<1>1. PICK call : call = calls[i]
      OBVIOUS
<1>2. PICK new : new = [call EXCEPT !.answer = answer]
      OBVIOUS
<1>3. /\ {"op", "answer"} \subseteq DOMAIN call
      /\ IsPages(call) => {"of", "from"} \subseteq DOMAIN call
      /\ ~IsPages(call) => {"id", "text"} \subseteq DOMAIN call
      <2>1. /\ IsPages(call) => IsPagesCall(made, call)
            /\ ~IsPages(call) => IsSingleCall(made, disturbed, call)
            BY <1>1, CallKinds
      <2>2. QED BY <2>1 DEF IsPagesCall, IsSingleCall
<1>4. new.answer = answer /\ new.op = call.op
      BY <1>2, <1>3
<1>5. IsPages(new) <=> IsPages(call)
      BY <1>4 DEF IsPages
<1>6. IsPages(call) => new.of = call.of /\ new.from = call.from
      BY <1>2, <1>3
<1>7. ~IsPages(call) => new.id = call.id /\ new.text = call.text
      BY <1>2, <1>3
<1>8. \A q : (IsOn(new, q) <=> IsOn(call, q)) /\ (About(new, q) <=> About(call, q))
      BY <1>5, <1>7 DEF IsOn, About
<1>9. QED BY <1>1, <1>2, <1>4, <1>5, <1>6, <1>7, <1>8

(* The page the server answers is right about what it will say no more of. *)
LEMMA AnsweredPageIsRight ==
    ASSUME MadeInv, NEW kind, NEW c, NEW from, IsToken(from, Len(made)),
           NEW id \in DOMAIN made, made[id].kind = kind
    PROVE  PageInv(made, tlms, Page(kind, c, from), from, c, id)
<1>1. PICK page : page = Page(kind, c, from)
      OBVIOUS
<1>2. /\ \A i \in DOMAIN page.items :
            /\ Listed(made, kind, c, from, page.items[i].id)
            /\ page.items[i].text = made[page.items[i].id].text
      /\ \A q \in DOMAIN made :
            Listed(made, kind, c, from, q) /\ (page.next <= q \/ ~page.more) => At(page.items, q) # {}
      BY <1>1, PageAnswers
<1>3. made[id].deleted => At(page.items, id) = {}
      BY <1>2 DEF At, Listed
<1>4. \A i \in At(page.items, id) : page.items[i].text = made[id].text
      BY <1>2 DEF At
<1>5. ~made[id].deleted /\ made[id].parent = c /\ id < from => Listed(made, kind, c, from, id)
      BY DEF Listed
<1>6. QED BY <1>1, <1>2, <1>3, <1>4, <1>5 DEF PageInv, Gone, Right

(* What the server answers is right when it answers.                       *)
LEMMA ServerAnswersStaysRight ==
    ASSUME TypeInv, RightInv, NEW i \in DOMAIN calls, ServerAnswers(i)
    PROVE  RightInv'
<1> SUFFICES ASSUME NEW q \in DOMAIN made', q \notin disturbed' PROVE ItemInv(q)'
    BY DEF RightInv
<1>1. /\ UNCHANGED <<made, tlms, mounted, content, pageToken, hasMore, wholeTimeline>>
      /\ disturbed' = disturbed \cup DisturbedByAnswer(calls[i])
      BY DEF ServerAnswers, serverVars, openVars, listVars, pageVars
<1>2. q \in DOMAIN made /\ ItemInv(q)
      BY <1>1 DEF RightInv
<1>3. PICK answer :
        /\ answer \in {Answer(calls[i]), Refused, Lost}
        /\ DOMAIN calls' = DOMAIN calls
        /\ \A j \in DOMAIN calls : j # i => calls'[j] = calls[j]
        /\ calls'[i] = [calls[i] EXCEPT !.answer = answer]
      BY ServerAnswersIs
<1>4. PICK call : call = calls[i]
      OBVIOUS
<1>5. PICK new : new = [call EXCEPT !.answer = answer]
      OBVIOUS
<1>6. /\ new.answer = answer /\ new.op = call.op
      /\ IsPages(new) <=> IsPages(call)
      /\ IsPages(call) => new.of = call.of /\ new.from = call.from
      /\ ~IsPages(call) => new.id = call.id /\ new.text = call.text
      /\ IsOn(new, q) <=> IsOn(call, q)
      /\ About(new, q) <=> About(call, q)
      BY <1>4, <1>5, AnsweredIsSame DEF TypeInv
<1>7. DOMAIN calls' = DOMAIN calls /\ calls'[i] = new /\ \A j \in DOMAIN calls : j # i => calls'[j] = calls[j]
      BY <1>3, <1>4, <1>5
<1>8. /\ AtMostOne(calls, q) => AtMostOne(calls', q)
      /\ Adding(calls', q) <=> Adding(calls, q)
      /\ Updating(calls', q) <=> Updating(calls, q)
      <2>1. \A j \in DOMAIN calls : /\ About(calls'[j], q) <=> About(calls[j], q)
                                    /\ IsOn(calls'[j], q) <=> IsOn(calls[j], q)
                                    /\ calls'[j].op = calls[j].op
            BY <1>4, <1>6, <1>7
      <2>2. QED BY <1>7, <2>1 DEF AtMostOne, Adding, Updating
<1>9. ASSUME KnownInv(q), CallInv(made, tlms, content, wholeTimeline, new, q)
      PROVE  KnownInv(q)'
      <2>1. \A j \in DOMAIN calls' : CallInv(made, tlms, content, wholeTimeline, calls'[j], q)
            BY <1>7, <1>9 DEF KnownInv
      <2>2. ShownInv(q) => ShownInv(q)'
            BY <1>1, <1>8 DEF ShownInv
      <2>3. QED BY <1>1, <1>8, <1>9, <2>1, <2>2 DEF KnownInv
<1>10. CASE ~About(call, q)
      <2>1. CallsAlike(calls', calls, q)
            BY <1>4, <1>6, <1>7, <1>8, <1>10 DEF CallsAlike
      <2>2. Same(q)
            BY <1>1, <2>1, AlikeIsAlike, SameTlmsAreSame DEF Same
      <2>3. QED BY <1>2, <2>2, SameStaysRight
<1>11. CASE IsOn(call, q)
      <2>1. ~Waits(tlms, q, "created") /\ KnownInv(q)
            BY <1>2, <1>4, <1>11 DEF ItemInv, FreshInv, FreshCall
      <2>2. SingleInv(made, tlms, content, wholeTimeline, call, q)
            BY <1>4, <1>11, <2>1 DEF KnownInv, CallInv
      <2>3. new.op \in {"add", "update"} /\ Read(new) => answer = made[q].text
            <3>1. ~IsPages(call) /\ call.id = q
                  BY <1>11 DEF IsOn
            <3>2. call.op # "revision" => Answer(call) = made[q].text
                  BY <1>4, <3>1, AnswerIs DEF TypeInv
            <3>3. QED BY <1>3, <1>4, <1>6, <3>2 DEF Read
      <2>4. ~IsPages(call)
            BY <1>11 DEF IsOn
      <2>5. SingleInv(made, tlms, content, wholeTimeline, new, q)
            BY <1>6, <2>2, <2>3, <2>4 DEF SingleInv, Right
      <2>6. CallInv(made, tlms, content, wholeTimeline, new, q)
            BY <1>6, <2>4, <2>5 DEF CallInv
      <2>7. QED BY <1>1, <1>9, <2>1, <2>6 DEF ItemInv
<1>12. CASE IsPages(call)
      <2>1. \A e : ~Waits(tlms, q, e)
            BY <1>1, <1>4, <1>12 DEF DisturbedByAnswer, Waits
      <2>2. KnownInv(q)
            BY <1>2, <2>1 DEF ItemInv
      <2>3. PICK k : k = made[q].kind
            OBVIOUS
      <2>4. k \in Kind
            BY <1>2, <2>3, MadeIsSeq DEF TypeInv, Made
      <2>5. IsPagesCall(made, call)
            BY <1>4, <1>12, CallKinds DEF TypeInv
      <2>6. Read(new) => PageInv(made, tlms, new.answer[k], new.from[k], new.of, q)
            <3>1. Read(new) => answer = Answer(call)
                  BY <1>3, <1>4, <1>6 DEF Read
            <3>2. Answer(call) = [kk \in Kind |-> Page(kk, call.of, call.from[kk])]
                  BY <1>12 DEF Answer
            <3>3. Answer(call)[k] = Page(k, call.of, call.from[k])
                  BY <2>4, <3>2
            <3>4. IsToken(call.from[k], Len(made))
                  BY <2>4, <2>5 DEF IsPagesCall
            <3>5. PageInv(made, tlms, Page(k, call.of, call.from[k]), call.from[k], call.of, q)
                  BY <1>2, <2>3, <3>4, AnsweredPageIsRight DEF TypeInv
            <3>6. QED BY <1>6, <1>12, <3>1, <3>3, <3>5
      <2>7. CallInv(made, tlms, content, wholeTimeline, new, q)
            BY <1>6, <1>12, <2>3, <2>6 DEF CallInv, IsOn
      <2>8. QED BY <1>1, <1>9, <2>1, <2>2, <2>7 DEF ItemInv
<1>13. QED BY <1>10, <1>11, <1>12 DEF About

-----------------------------------------------------------------------------
(* What a handler does with its answer.                                    *)

(* An item put in the place of those with its id.                          *)
LEMMA ReplaceKeepsPlaces ==
    ASSUME NEW w, NEW item
    PROVE  LET v == ReplaceComment(item, w)
           IN /\ DOMAIN v = DOMAIN w
              /\ \A i \in DOMAIN w : v[i].id = w[i].id
              /\ \A i \in DOMAIN w : w[i].id # item.id => v[i] = w[i]
              /\ \A i \in DOMAIN w : w[i].id = item.id => v[i] = item
BY DEF ReplaceComment

LEMMA UpdateKeepsPlaces ==
    ASSUME NEW n, NEW w, IsItems(w, n), NEW call
    PROVE  LET v == UpdateCommentOnTimeline(call, w)
           IN /\ DOMAIN v = DOMAIN w
              /\ \A i \in DOMAIN w : v[i].id = w[i].id
              /\ \A i \in DOMAIN w : w[i].id # call.id => v[i] = w[i]
              /\ \A i \in DOMAIN w : w[i].id = call.id => v[i].text = AnsweredText(call)
<1>1. \A i \in DOMAIN w : w[i] \in AnyItem
      BY ElementOfSeq, LenProperties DEF IsItems
<1>2. PICK text : text = AnsweredText(call)
      OBVIOUS
<1>3. PICK v : v = UpdateCommentOnTimeline(call, w)
      OBVIOUS
<1>4. v = [i \in DOMAIN w |-> IF w[i].id = call.id THEN [w[i] EXCEPT !.text = text] ELSE w[i]]
      BY <1>2, <1>3 DEF UpdateCommentOnTimeline
<1>5. DOMAIN v = DOMAIN w
      BY <1>4
<1>6. ASSUME NEW i \in DOMAIN w
      PROVE  /\ v[i].id = w[i].id
             /\ w[i].id # call.id => v[i] = w[i]
             /\ w[i].id = call.id => v[i].text = text
      BY <1>1, <1>4, <1>6 DEF AnyItem
<1>7. QED BY <1>2, <1>3, <1>5, <1>6

(* What is read of an item leaves the others as they are.                  *)
LEMMA ResumeLeavesOthers ==
    ASSUME TypeInv, NEW call, IsSingleCall(made, disturbed, call),
           call.answer # None, call.answer # Lost,
           \/ ResumeCommentCreated(call) \/ ResumeCommentModified(call)
           \/ ResumeContentModified(call) \/ ResumeTranslate(call),
           NEW q, q # call.id, q \notin disturbed
    PROVE  Alike(wholeTimeline', wholeTimeline, q)
<1>1. PICK n : n = Len(made)
      OBVIOUS
<1>2. n \in Nat /\ DOMAIN made = 1..n /\ call.id \in 1..n /\ IsItems(wholeTimeline, n)
      BY <1>1, MadeIsSeq DEF TypeInv, ListsInv, IsSingleCall
<1>3. CASE ResumeCommentCreated(call)
      <2>1. PICK item : item = Item(call.id, AnsweredText(call))
            OBVIOUS
      <2>2. IsItem(item, n) /\ item.id = call.id
            <3>1. call.op = "add"
                  BY <1>3 DEF ResumeCommentCreated
            <3>2. AnsweredText(call) \in 0..MaxText \cup {None}
                  BY <3>1, SingleBrings DEF TypeInv
            <3>3. QED BY <1>2, <2>1, <3>2, ItemIsItem
      <2>3. \/ wholeTimeline' = SortTimelineByDate(Append(wholeTimeline, item))
            \/ wholeTimeline' = wholeTimeline
            BY <1>3, <2>1 DEF ResumeCommentCreated, AddChildContentToTimeline, listVars
      <2>4. QED BY <1>2, <2>2, <2>3, AddIsAlike, AlikeIsAlike
<1>4. CASE ResumeCommentModified(call)
      <2>1. wholeTimeline' = UpdateCommentOnTimeline(call, wholeTimeline)
            BY <1>4 DEF ResumeCommentModified, SetTimeline
      <2>2. /\ DOMAIN wholeTimeline' = DOMAIN wholeTimeline
            /\ \A i \in DOMAIN wholeTimeline : wholeTimeline'[i].id = wholeTimeline[i].id
            /\ \A i \in DOMAIN wholeTimeline :
                  wholeTimeline[i].id # call.id => wholeTimeline'[i] = wholeTimeline[i]
            BY <1>2, <2>1, UpdateKeepsPlaces
      <2>3. \A i \in At(wholeTimeline, q) : wholeTimeline'[i].text = wholeTimeline[i].text
            BY <2>2 DEF At
      <2>4. QED BY <2>2, <2>3, ChangedIsAlike
<1>5. CASE ResumeContentModified(call)
      <2>1. PICK r : r = IF call.answer = Refused THEN call.id ELSE call.answer
            OBVIOUS
      <2>2. wholeTimeline' = AddRevisionFromTLM(wholeTimeline, r) /\ call.op = "revision"
            BY <1>5, <2>1 DEF ResumeContentModified, SetTimeline
      <2>3. r # q /\ r \in 1..n
            BY <1>2, <2>1, <2>2 DEF IsSingleCall, Read
      <2>4. PICK item : item = Item(r, 0)
            OBVIOUS
      <2>5. item.id = r
            BY <2>4 DEF Item
      <2>6. wholeTimeline' = wholeTimeline \/ wholeTimeline' = Append(wholeTimeline, item)
            BY <2>2, <2>4 DEF AddRevisionFromTLM
      <2>7. wholeTimeline \in Seq(AnyItem)
            BY <1>2 DEF IsItems
      <2>8. QED BY <2>3, <2>5, <2>6, <2>7, AppendIsAlike, AlikeIsAlike
<1>6. CASE ResumeTranslate(call)
      <2>1. PICK item : item = [Item(call.id, call.text) EXCEPT !.translation =
                                  IF call.answer = Refused THEN "untranslated" ELSE "translated"]
            OBVIOUS
      <2>2. item.id = call.id
            BY <2>1 DEF Item
      <2>3. wholeTimeline' = ReplaceComment(item, wholeTimeline)
            BY <1>6, <2>1 DEF ResumeTranslate, SetTimeline
      <2>4. /\ DOMAIN wholeTimeline' = DOMAIN wholeTimeline
            /\ \A i \in DOMAIN wholeTimeline : wholeTimeline'[i].id = wholeTimeline[i].id
            /\ \A i \in DOMAIN wholeTimeline :
                  wholeTimeline[i].id # item.id => wholeTimeline'[i] = wholeTimeline[i]
            BY <2>3, ReplaceKeepsPlaces
      <2>5. \A i \in At(wholeTimeline, q) : wholeTimeline'[i].text = wholeTimeline[i].text
            BY <2>2, <2>4 DEF At
      <2>6. QED BY <2>4, <2>5, ChangedIsAlike
<1>7. QED BY <1>3, <1>4, <1>5, <1>6

-----------------------------------------------------------------------------
(* What is read of an item is what is shown of it.                         *)
LEMMA ResumeShows ==
    ASSUME TypeInv, NEW call, IsSingleCall(made, disturbed, call),
           call.answer \notin {None, Refused, Lost},
           \/ ResumeCommentCreated(call) \/ ResumeCommentModified(call)
           \/ ResumeContentModified(call) \/ ResumeTranslate(call),
           NEW q, q = call.id, q \notin disturbed,
           SingleInv(made, tlms, content, wholeTimeline, call, q)
    PROVE  /\ Once(wholeTimeline, q) => Once(wholeTimeline', q)
           /\ IF call.op \in {"add", "revision"}
              THEN At(wholeTimeline', q) # {} /\ Once(wholeTimeline', q)
              ELSE At(wholeTimeline', q) = At(wholeTimeline, q)
           /\ ~made[q].deleted =>
                 \A i \in At(wholeTimeline', q) : Right(made, tlms, wholeTimeline'[i].text, q)
<1>1. PICK n : n = Len(made)
      OBVIOUS
<1>2. /\ n \in Nat /\ DOMAIN made = 1..n /\ q \in 1..n /\ IsItems(wholeTimeline, n)
      /\ call.op \in {"add", "update", "revision", "translate"}
      BY <1>1, MadeIsSeq DEF TypeInv, ListsInv, IsSingleCall
<1>3. Read(call) /\ AnsweredText(call) = call.answer
      BY DEF Read, AnsweredText
<1>4. CASE ResumeCommentCreated(call)
      <2>1. call.op = "add" /\ call.answer \in 0..MaxText
            BY <1>3, <1>4 DEF ResumeCommentCreated, IsSingleCall
      <2>2. made[q].parent = content /\ At(wholeTimeline, q) = {}
            BY <2>1 DEF SingleInv
      <2>3. PICK item : item = Item(q, call.answer)
            OBVIOUS
      <2>4. IsItem(item, n) /\ item.id = q /\ item.text = call.answer
            BY <1>2, <2>1, <2>3, ItemIsItem
      <2>5. wholeTimeline' = SortTimelineByDate(Append(wholeTimeline, item))
            BY <1>3, <1>4, <2>2, <2>3 DEF ResumeCommentCreated, AddChildContentToTimeline, ParentOf
      <2>6. /\ At(wholeTimeline', q) # {} /\ Once(wholeTimeline', q)
            /\ \A i \in At(wholeTimeline', q) : wholeTimeline'[i].text = call.answer
            BY <1>2, <2>2, <2>4, <2>5, AddHasIt
      <2>7. ~made[q].deleted => Right(made, tlms, call.answer, q)
            BY <1>3, <2>1 DEF SingleInv
      <2>8. QED BY <2>1, <2>6, <2>7
<1>5. CASE ResumeCommentModified(call)
      <2>1. call.op = "update" /\ wholeTimeline' = UpdateCommentOnTimeline(call, wholeTimeline)
            BY <1>5 DEF ResumeCommentModified, SetTimeline
      <2>2. /\ DOMAIN wholeTimeline' = DOMAIN wholeTimeline
            /\ \A i \in DOMAIN wholeTimeline : wholeTimeline'[i].id = wholeTimeline[i].id
            /\ \A i \in DOMAIN wholeTimeline :
                  wholeTimeline[i].id = call.id => wholeTimeline'[i].text = call.answer
            BY <1>2, <1>3, <2>1, UpdateKeepsPlaces
      <2>3. At(wholeTimeline', q) = At(wholeTimeline, q)
            BY <2>2 DEF At
      <2>4. \A i \in At(wholeTimeline', q) : wholeTimeline'[i].text = call.answer
            BY <2>2 DEF At
      <2>5. ~made[q].deleted => Right(made, tlms, call.answer, q)
            BY <1>3, <2>1 DEF SingleInv
      <2>6. QED BY <2>1, <2>3, <2>4, <2>5 DEF Once
<1>6. CASE ResumeContentModified(call)
      <2>1. call.op = "revision" /\ wholeTimeline' = AddRevisionFromTLM(wholeTimeline, call.answer)
            BY <1>6 DEF ResumeContentModified, SetTimeline
      <2>2. call.answer = q /\ made[q].kind = "revision"
            BY <1>3, <2>1 DEF IsSingleCall
      <2>3. At(wholeTimeline, q) = {}
            BY <2>1 DEF SingleInv
      <2>4. q \notin Ids(wholeTimeline)
            BY <2>3 DEF At, Ids
      <2>5. PICK item : item = Item(q, 0)
            OBVIOUS
      <2>6. item.id = q /\ item.text = 0
            BY <2>5 DEF Item
      <2>7. wholeTimeline' = Append(wholeTimeline, item)
            BY <2>1, <2>2, <2>4, <2>5 DEF AddRevisionFromTLM
      <2>8. wholeTimeline \in Seq(AnyItem)
            BY <1>2 DEF IsItems
      <2>9. /\ At(wholeTimeline', q) # {} /\ Once(wholeTimeline', q)
            /\ \A i \in At(wholeTimeline', q) : wholeTimeline'[i] = item
            BY <2>3, <2>6, <2>7, <2>8, AppendHasIt
      <2>10. made[q].text = 0
             BY <1>2, <2>2 DEF TypeInv, MadeInv
      <2>11. QED BY <2>1, <2>6, <2>9, <2>10 DEF Right
<1>7. CASE ResumeTranslate(call)
      <2>1. PICK item : item = [Item(call.id, call.text) EXCEPT !.translation =
                                  IF call.answer = Refused THEN "untranslated" ELSE "translated"]
            OBVIOUS
      <2>2. item.id = q /\ item.text = call.text
            BY <2>1 DEF Item
      <2>3. call.op = "translate" /\ wholeTimeline' = ReplaceComment(item, wholeTimeline)
            BY <1>7, <2>1 DEF ResumeTranslate, SetTimeline
      <2>4. /\ DOMAIN wholeTimeline' = DOMAIN wholeTimeline
            /\ \A i \in DOMAIN wholeTimeline : wholeTimeline'[i].id = wholeTimeline[i].id
            /\ \A i \in DOMAIN wholeTimeline :
                  wholeTimeline[i].id = item.id => wholeTimeline'[i] = item
            BY <2>3, ReplaceKeepsPlaces
      <2>5. At(wholeTimeline', q) = At(wholeTimeline, q)
            BY <2>4 DEF At
      <2>6. \A i \in At(wholeTimeline', q) : wholeTimeline'[i].text = call.text
            BY <2>2, <2>4 DEF At
      <2>7. ~made[q].deleted => Right(made, tlms, call.text, q)
            BY <2>3 DEF SingleInv
      <2>8. QED BY <2>3, <2>5, <2>6, <2>7 DEF Once
<1>8. QED BY <1>4, <1>5, <1>6, <1>7

(* What is read of an item and shown of it leaves what is right.           *)
LEMMA ResumeSingleStaysRight ==
    ASSUME TypeInv, RightInv, NEW i \in DOMAIN calls, ResumeSingle(i)
    PROVE  RightInv'
<1> SUFFICES ASSUME NEW q \in DOMAIN made', q \notin disturbed' PROVE ItemInv(q)'
    BY DEF RightInv
<1>1. PICK call : call = calls[i]
      OBVIOUS
<1>2. /\ ~IsPages(call) /\ call.answer # None
      /\ call.answer = Lost => wholeTimeline' = wholeTimeline
      /\ call.answer # Lost =>
            \/ ResumeCommentCreated(call) \/ ResumeCommentModified(call)
            \/ ResumeContentModified(call) \/ ResumeTranslate(call)
      /\ calls' = RemoveAt(calls, i)
      /\ disturbed' = IF call.answer \in {Refused, Lost} THEN disturbed \cup {call.id}
                      ELSE disturbed
      /\ UNCHANGED <<made, tlms, mounted, content, pageToken, hasMore>>
      BY <1>1 DEF ResumeSingle, Resumed, serverVars, openVars, pageVars, listVars
<1>3. IsSingleCall(made, disturbed, call)
      BY <1>1, <1>2, CallKinds DEF TypeInv
<1>4. q \in DOMAIN made /\ q \notin disturbed /\ ItemInv(q)
      BY <1>2 DEF RightInv
<1>5. CallsShrink(calls', calls, i)
      BY <1>2, CallsWithout DEF TypeInv, CallsInv
<1>6. CASE q # call.id
      <2>1. ~About(call, q)
            BY <1>2, <1>6 DEF About, IsOn
      <2>2. CallsAlike(calls', calls, q)
            BY <1>1, <1>5, <2>1, OtherGoes
      <2>3. Alike(wholeTimeline', wholeTimeline, q)
            <3>1. CASE call.answer = Lost
                  BY <1>2, <3>1, AlikeIsAlike
            <3>2. CASE call.answer # Lost
                  BY <1>2, <1>3, <1>4, <1>6, <3>2, ResumeLeavesOthers
            <3>3. QED BY <3>1, <3>2
      <2>4. Same(q)
            BY <1>2, <2>2, <2>3, SameTlmsAreSame DEF Same
      <2>5. QED BY <1>4, <2>4, SameStaysRight
<1>7. CASE q = call.id
      <2>1. IsOn(call, q)
            BY <1>2, <1>7 DEF IsOn
      <2>2. ~Waits(tlms, q, "created") /\ KnownInv(q)
            BY <1>1, <1>4, <2>1 DEF ItemInv, FreshInv, FreshCall
      <2>3. call.answer \notin {None, Refused, Lost}
            BY <1>2, <1>7
      <2>4. SingleInv(made, tlms, content, wholeTimeline, call, q)
            BY <1>1, <2>1, <2>2 DEF KnownInv, CallInv
      <2>5. NoneAbout(calls', q)
            BY <1>1, <1>5, <2>1, <2>2, OnlyOneGoes DEF KnownInv, NoneAbout, About
      <2>6. /\ Once(wholeTimeline, q) => Once(wholeTimeline', q)
            /\ IF call.op \in {"add", "revision"}
               THEN At(wholeTimeline', q) # {} /\ Once(wholeTimeline', q)
               ELSE At(wholeTimeline', q) = At(wholeTimeline, q)
            /\ ~made[q].deleted =>
                  \A j \in At(wholeTimeline', q) : Right(made, tlms, wholeTimeline'[j].text, q)
            BY <1>2, <1>3, <1>4, <1>7, <2>3, <2>4, ResumeShows
      <2>7. /\ AtMostOne(calls', q) /\ ~Adding(calls', q) /\ ~Updating(calls', q)
            /\ \A j \in DOMAIN calls' : CallInv(made', tlms', content', wholeTimeline', calls'[j], q)
            BY <2>5, NoneIsFine
      <2>8. call.op \in {"add", "revision"} <=> Adding(calls, q)
            <3>1. call.op \in {"add", "revision"} => Adding(calls, q)
                  BY <1>1, <2>1 DEF Adding
            <3>2. \A j \in DOMAIN calls : IsOn(calls[j], q) => j = i
                  BY <1>1, <2>1, <2>2 DEF KnownInv, AtMostOne, About
            <3>3. QED BY <1>1, <3>1, <3>2 DEF Adding
      <2>9. ShownInv(q) /\ ~made[q].deleted => ShownInv(q)'
            BY <1>2, <2>6, <2>7, <2>8 DEF ShownInv
      <2>10. made[q].parent # content \/ Gone(made, tlms, q) => At(wholeTimeline', q) = {}
            <3>1. CASE call.op \in {"add", "revision"}
                  BY <2>4, <3>1 DEF SingleInv
            <3>2. CASE call.op \notin {"add", "revision"}
                  BY <2>2, <2>6, <3>2 DEF KnownInv
            <3>3. QED BY <3>1, <3>2
      <2>11. KnownInv(q)'
            BY <1>2, <2>2, <2>7, <2>9, <2>10 DEF KnownInv
      <2>12. QED BY <1>2, <2>2, <2>11 DEF ItemInv
<1>8. QED BY <1>6, <1>7

-----------------------------------------------------------------------------
(* The list that a page is added to.                                       *)

(* One list after another, when an item is in one of them only.            *)
LEMMA ConcatIsAlike ==
    ASSUME NEW v \in Seq(AnyItem), NEW w \in Seq(AnyItem), NEW id
    PROVE  /\ At(w, id) = {} => Alike(v \o w, v, id)
           /\ At(v, id) = {} => Alike(v \o w, w, id)
<1> DEFINE u == v \o w
           m == Len(v)
           n == Len(w)
<1>1. /\ DOMAIN v = 1..m /\ DOMAIN w = 1..n /\ m \in Nat /\ n \in Nat
      BY LenProperties
<1>2. /\ u \in Seq(AnyItem) /\ Len(u) = m + n
      /\ \A i \in 1..(m + n) : u[i] = IF i <= m THEN v[i] ELSE w[i - m]
      BY ConcatProperties
<1> HIDE DEF u
<1>3. DOMAIN u = 1..(m + n)
      BY <1>2, LenProperties
<1> HIDE DEF m, n
<1>4. ASSUME At(w, id) = {} PROVE Alike(u, v, id)
      <2>1. ASSUME NEW i \in DOMAIN u, u[i].id = id
            PROVE  i \in DOMAIN v /\ v[i] = u[i]
            <3>1. CASE i <= m
                  BY <1>1, <1>2, <1>3, <2>1, <3>1
            <3>2. CASE i > m
                  <4>1. i - m \in DOMAIN w /\ u[i] = w[i - m]
                        BY <1>1, <1>2, <1>3, <2>1, <3>2
                  <4>2. QED BY <1>4, <2>1, <4>1 DEF At
            <3>3. QED BY <1>1, <1>3, <2>1, <3>1, <3>2
      <2>2. \A i \in DOMAIN v : i \in DOMAIN u /\ u[i] = v[i]
            BY <1>1, <1>2, <1>3
      <2>3. At(u, id) = At(v, id)
            BY <2>1, <2>2 DEF At
      <2>4. \A i \in At(v, id) : u[i] = v[i]
            BY <2>2 DEF At
      <2>5. QED BY <2>3, <2>4 DEF Alike, Once
<1>5. ASSUME At(v, id) = {} PROVE Alike(u, w, id)
      <2>1. ASSUME NEW i \in At(u, id)
            PROVE  i \in Int /\ i - m \in At(w, id) /\ u[i] = w[i - m]
            <3>1. i \in 1..(m + n) /\ u[i].id = id
                  BY <1>3, <2>1 DEF At
            <3>2. i > m
                  <4>1. ASSUME i <= m PROVE FALSE
                        <5>1. i \in DOMAIN v /\ u[i] = v[i]
                              BY <1>1, <1>2, <3>1, <4>1
                        <5>2. QED BY <1>5, <3>1, <5>1 DEF At
                  <4>2. QED BY <1>1, <3>1, <4>1
            <3>3. i - m \in DOMAIN w /\ u[i] = w[i - m]
                  BY <1>1, <1>2, <3>1, <3>2
            <3>4. QED BY <3>1, <3>3 DEF At
      <2>2. ASSUME NEW j \in At(w, id)
            PROVE  j \in Int /\ j + m \in At(u, id)
            <3>1. j \in 1..n /\ w[j].id = id
                  BY <1>1, <2>2 DEF At
            <3>2. j + m \in DOMAIN u /\ u[j + m] = w[j]
                  <4>1. j + m \in 1..(m + n) /\ ~(j + m <= m) /\ (j + m) - m = j
                        BY <1>1, <3>1
                  <4>2. QED BY <1>2, <1>3, <4>1
            <3>3. QED BY <3>1, <3>2 DEF At
      <2>3. At(u, id) = {} <=> At(w, id) = {}
            BY <2>1, <2>2
      <2>4. Once(w, id) => Once(u, id)
            <3>1. ASSUME Once(w, id), NEW i \in At(u, id), NEW j \in At(u, id)
                  PROVE  i = j
                  <4>1. i - m = j - m
                        BY <2>1, <3>1 DEF Once
                  <4>2. QED BY <1>1, <2>1, <4>1
            <3>2. QED BY <3>1 DEF Once
      <2>5. \A i \in At(u, id) : \E j \in At(w, id) : u[i].text = w[j].text
            BY <2>1
      <2>6. QED BY <2>3, <2>4, <2>5 DEF Alike
<1>6. QED BY <1>4, <1>5 DEF u

(* What is loaded of an item comes from the page of its kind.              *)
LEMMA LoadedIsAlike ==
    ASSUME MadeInv, NEW c, NEW from, NEW answer,
           \A k \in Kind : IsPage(made, k, c, from[k], answer[k]), NEW id \in DOMAIN made
    PROVE  /\ Alike(LoadedItems(answer), answer[made[id].kind].items, id)
           /\ LoadedItems(answer) \in Seq(AnyItem)
<1> DEFINE x == answer["comment"].items
           y == answer["file"].items
           z == answer["revision"].items
<1>1. x \in Seq(AnyItem) /\ y \in Seq(AnyItem) /\ z \in Seq(AnyItem)
      BY DEF IsPage, IsItems, Kind
<1>2. ASSUME NEW k \in Kind, k # made[id].kind PROVE At(answer[k].items, id) = {}
      BY <1>2 DEF IsPage, At
<1>3. made[id].kind \in Kind
      BY MadeIsSeq DEF Made
<1> HIDE DEF x, y, z
<1>4. x \o y \in Seq(AnyItem) /\ (x \o y) \o z \in Seq(AnyItem)
      BY <1>1, ConcatProperties
<1>5. LoadedItems(answer) = (x \o y) \o z
      BY DEF LoadedItems, x, y, z
<1>6. CASE made[id].kind = "comment"
      <2>1. At(y, id) = {} /\ At(z, id) = {}
            BY <1>2, <1>6 DEF Kind, y, z
      <2>2. Alike(x \o y, x, id) /\ Alike((x \o y) \o z, x \o y, id)
            BY <1>1, <1>4, <2>1, ConcatIsAlike
      <2>3. Alike((x \o y) \o z, x, id)
            BY <2>2, AlikeThrough
      <2>4. QED BY <1>4, <1>5, <1>6, <2>3 DEF x
<1>7. CASE made[id].kind = "file"
      <2>1. At(x, id) = {} /\ At(z, id) = {}
            BY <1>2, <1>7 DEF Kind, x, z
      <2>2. Alike(x \o y, y, id) /\ Alike((x \o y) \o z, x \o y, id)
            BY <1>1, <1>4, <2>1, ConcatIsAlike
      <2>3. Alike((x \o y) \o z, y, id)
            BY <2>2, AlikeThrough
      <2>4. QED BY <1>4, <1>5, <1>7, <2>3 DEF y
<1>8. CASE made[id].kind = "revision"
      <2>1. At(x, id) = {} /\ At(y, id) = {}
            BY <1>2, <1>8 DEF Kind, x, y
      <2>2. At(x \o y, id) = {}
            <3>1. Alike(x \o y, y, id)
                  BY <1>1, <2>1, ConcatIsAlike
            <3>2. QED BY <2>1, <3>1 DEF Alike
      <2>3. Alike((x \o y) \o z, z, id)
            BY <1>1, <1>4, <2>2, ConcatIsAlike
      <2>4. QED BY <1>4, <1>5, <1>8, <2>3 DEF z
<1>9. QED BY <1>3, <1>6, <1>7, <1>8 DEF Kind

-----------------------------------------------------------------------------
(* What the end of a load leaves.                                          *)

(* What every answer to a call for pages leaves of an item.                *)
PageOf(id, of, from, page) ==
    /\ id \in DOMAIN made /\ id \in Nat /\ made[id].kind \in Kind
    /\ IsPage(made, made[id].kind, of, from, page)
    /\ from \in Nat /\ page.next \in Nat
    /\ UNCHANGED <<made, tlms, mounted>> /\ content' = of
    /\ pageToken'[made[id].kind] = page.next /\ hasMore'[made[id].kind] = page.more

(* An item that comes from the page.                                       *)
LEMMA PageBrings ==
    ASSUME NEW id, NEW of, NEW from, NEW page, PageOf(id, of, from, page),
           PageInv(made, tlms, page, from, of, id), NoneAbout(calls', id),
           Alike(wholeTimeline', page.items, id),
           made[id].parent = of /\ ~made[id].deleted => id < from
    PROVE  KnownInv(id)'
<1>1. /\ AtMostOne(calls', id) /\ ~Adding(calls', id) /\ ~Updating(calls', id)
      /\ \A j \in DOMAIN calls' : CallInv(made', tlms', content', wholeTimeline', calls'[j], id)
      BY NoneIsFine
<1>2. /\ made' = made /\ tlms' = tlms /\ mounted' = mounted /\ content' = of
      /\ pageToken'[made[id].kind] = page.next /\ hasMore'[made[id].kind] = page.more
      /\ At(wholeTimeline', id) = {} <=> At(page.items, id) = {}
      BY DEF PageOf, Alike
<1>3. Once(wholeTimeline', id)
      BY DEF PageOf, IsPage, Alike, Once, At
<1>4. At(page.items, id) # {} => made[id].parent = of /\ page.next <= id
      BY DEF PageOf, IsPage, At
<1>5. ~made[id].deleted => \A i \in At(wholeTimeline', id) : Right(made, tlms, wholeTimeline'[i].text, id)
      BY DEF PageInv, Alike
<1>6. ASSUME made[id].parent = of, ~made[id].deleted PROVE ShownInv(id)'
      <2>1. page.next <= id \/ ~page.more => At(page.items, id) # {}
            BY <1>6 DEF PageInv
      <2>2. QED BY <1>1, <1>2, <1>3, <1>4, <1>5, <1>6, <2>1 DEF ShownInv
<1>7. made[id].parent # of \/ Gone(made, tlms, id) => At(wholeTimeline', id) = {}
      BY <1>2, <1>4 DEF PageInv
<1>8. QED BY <1>1, <1>2, <1>6, <1>7 DEF KnownInv

(* An item that was there and is not on the page.                          *)
LEMMA PageLeaves ==
    ASSUME NEW id, NEW of, NEW from, NEW page, PageOf(id, of, from, page),
           PageInv(made, tlms, page, from, of, id), NoneAbout(calls', id),
           ~Adding(calls, id), ~Updating(calls, id), KnownInv(id),
           content = of, from = pageToken[made[id].kind], from # FirstPage,
           At(page.items, id) = {}, Alike(wholeTimeline', wholeTimeline, id)
    PROVE  KnownInv(id)'
<1>1. /\ AtMostOne(calls', id) /\ ~Adding(calls', id) /\ ~Updating(calls', id)
      /\ \A j \in DOMAIN calls' : CallInv(made', tlms', content', wholeTimeline', calls'[j], id)
      BY NoneIsFine
<1>2. /\ made' = made /\ tlms' = tlms /\ mounted' = mounted /\ content' = content
      /\ pageToken'[made[id].kind] = page.next /\ hasMore'[made[id].kind] = page.more
      /\ At(wholeTimeline', id) = {} <=> At(wholeTimeline, id) = {}
      /\ page.next <= from /\ page.next \in Nat /\ from \in Nat /\ id \in Nat
      BY DEF PageOf, Alike, IsPage
<1>3. ASSUME made[id].parent = content, ~made[id].deleted PROVE ShownInv(id)'
      <2>1. ShownInv(id)
            BY <1>3 DEF KnownInv
      <2>2. Once(wholeTimeline', id)
            BY <2>1 DEF ShownInv, Alike
      <2>3. page.next <= id \/ ~page.more => At(wholeTimeline, id) # {}
            <3>1. CASE from <= id
                  BY <2>1, <3>1 DEF ShownInv
            <3>2. CASE id < from
                  BY <1>3, <3>2 DEF PageInv
            <3>3. QED BY <1>2, <3>1, <3>2
      <2>4. At(wholeTimeline, id) # {} => page.next <= id
            BY <1>2, <2>1 DEF ShownInv
      <2>5. \/ made[id].kind = "file" /\ made[id].parent # mounted
            \/ \A i \in At(wholeTimeline', id) : Right(made, tlms, wholeTimeline'[i].text, id)
            BY <2>1 DEF ShownInv, Alike
      <2>6. QED BY <1>1, <1>2, <2>2, <2>3, <2>4, <2>5 DEF ShownInv
<1>4. QED BY <1>1, <1>2, <1>3 DEF KnownInv

(* The end of a load, or of loading more, leaves what is right.            *)
LEMMA ResumePagesStaysRight ==
    ASSUME TypeInv, RightInv, NEW i \in DOMAIN calls, ResumePages(i)
    PROVE  RightInv'
<1> SUFFICES ASSUME NEW q \in DOMAIN made', q \notin disturbed' PROVE ItemInv(q)'
    BY DEF RightInv
<1>1. PICK call : call = calls[i]
      OBVIOUS
<1>2. /\ IsPages(call) /\ call.answer # None
      /\ UNCHANGED <<made, tlms, mounted>> /\ calls' = RemoveAt(calls, i)
      /\ disturbed \subseteq disturbed'
      BY <1>1 DEF ResumePages, serverVars, openVars
<1>3. /\ q \in DOMAIN made /\ q \notin disturbed /\ ItemInv(q)
      /\ CallsShrink(calls', calls, i) /\ IsPagesCall(made, call)
      BY <1>1, <1>2, CallsWithout, CallKinds DEF RightInv, TypeInv, CallsInv
<1>4. PICK k : k = made[q].kind
      OBVIOUS
<1>5. k \in Kind /\ q \in Nat /\ q < FirstPage /\ FirstPage \in Nat
      BY <1>3, <1>4, MadeIsSeq DEF TypeInv, Made
<1>6. Waits(tlms, q, "created") => FreshInv(q) /\ \A j \in DOMAIN calls' : FreshCall(k, calls'[j], q)
      BY <1>3, <1>4, LeftWereThere DEF ItemInv, FreshInv
<1>7. ~Waits(tlms, q, "created") =>
         KnownInv(q) /\ NoneAbout(calls', q) /\ ~Adding(calls, q) /\ ~Updating(calls, q)
      <2> SUFFICES ASSUME ~Waits(tlms, q, "created")
                   PROVE  KnownInv(q) /\ NoneAbout(calls', q) /\ ~Adding(calls, q) /\ ~Updating(calls, q)
          OBVIOUS
      <2>1. KnownInv(q) /\ AtMostOne(calls, q) /\ About(calls[i], q)
            BY <1>1, <1>2, <1>3 DEF ItemInv, KnownInv, About
      <2>2. NoneAbout(calls', q)
            BY <1>3, <2>1, OnlyOneGoes DEF NoneAbout
      <2>3. \A j \in DOMAIN calls : ~IsOn(calls[j], q)
            BY <1>1, <1>2, <2>1 DEF AtMostOne, About, IsOn
      <2>4. QED BY <2>1, <2>2, <2>3 DEF Adding, Updating
<1>8. CASE call.answer \in {Refused, Lost}
      <2>1. UNCHANGED <<content, wholeTimeline, pageToken, hasMore>>
            BY <1>1, <1>8 DEF ResumePages, listVars, pageVars
      <2>2. CASE Waits(tlms, q, "created")
            <3>1. FreshInv(q)'
                  BY <1>2, <1>4, <1>6, <2>1, <2>2 DEF FreshInv
            <3>2. QED BY <1>2, <2>2, <3>1 DEF ItemInv
      <2>3. CASE ~Waits(tlms, q, "created")
            <3>1. /\ AtMostOne(calls', q) /\ ~Adding(calls', q) /\ ~Updating(calls', q)
                  /\ \A j \in DOMAIN calls' : CallInv(made', tlms', content', wholeTimeline', calls'[j], q)
                  BY <1>7, <2>3, NoneIsFine
            <3>2. ShownInv(q) => ShownInv(q)'
                  BY <1>2, <1>7, <2>1, <2>3, <3>1 DEF ShownInv
            <3>3. KnownInv(q)'
                  BY <1>2, <1>7, <2>1, <2>3, <3>1, <3>2 DEF KnownInv
            <3>4. QED BY <1>2, <2>3, <3>3 DEF ItemInv
      <2>4. QED BY <2>2, <2>3
<1>9. CASE call.answer \notin {Refused, Lost}
      <2> DEFINE loaded == LoadedItems(call.answer)
                 shown == IF call.op = "more" THEN wholeTimeline ELSE <<>>
      <2>1. /\ wholeTimeline' = SortTimelineByDate(loaded \o shown)
            /\ content' = call.of
            /\ pageToken' = [kk \in Kind |-> call.answer[kk].next]
            /\ hasMore' = [kk \in Kind |-> call.answer[kk].more]
            BY <1>1, <1>9 DEF ResumePages, SetTimeline
      <2>2. PICK page : page = call.answer[k]
            OBVIOUS
      <2>3. PICK from : from = call.from[k]
            OBVIOUS
      <2>4. Read(call) /\ \A kk \in Kind : IsPage(made, kk, call.of, call.from[kk], call.answer[kk])
            BY <1>2, <1>3, <1>9 DEF IsPagesCall, Read
      <2>5. Alike(loaded, page.items, q) /\ loaded \in Seq(AnyItem)
            BY <1>3, <1>4, <2>2, <2>4, LoadedIsAlike DEF TypeInv
      <2>6. wholeTimeline \in Seq(AnyItem) /\ shown \in Seq(AnyItem)
            BY DEF TypeInv, ListsInv, IsItems
      <2>7. PICK v : v = shown
            OBVIOUS
      <2> HIDE DEF loaded, shown
      <2>8. loaded \o shown \in Seq(AnyItem)
            BY <2>5, <2>6, ConcatProperties
      <2>9. Alike(wholeTimeline', loaded \o shown, q)
            BY <2>1, <2>8, SortedIsAlike, ItemsAreNumbered
      <2>10. At(shown, q) = {} => Alike(wholeTimeline', page.items, q)
             <3>1. ASSUME At(shown, q) = {} PROVE Alike(wholeTimeline', page.items, q)
                   <4>1. Alike(loaded \o shown, loaded, q)
                         BY <2>5, <2>6, <3>1, ConcatIsAlike
                   <4>2. Alike(wholeTimeline', loaded, q)
                         BY <2>9, <4>1, AlikeThrough
                   <4>3. QED BY <2>5, <4>2, AlikeThrough
             <3>2. QED BY <3>1
      <2>11. At(page.items, q) = {} => Alike(wholeTimeline', shown, q)
             <3>1. ASSUME At(page.items, q) = {} PROVE Alike(wholeTimeline', shown, q)
                   <4>1. At(loaded, q) = {}
                         BY <2>5, <3>1 DEF Alike
                   <4>2. Alike(loaded \o shown, shown, q)
                         BY <2>5, <2>6, <4>1, ConcatIsAlike
                   <4>3. QED BY <2>9, <4>2, AlikeThrough
             <3>2. QED BY <3>1
      <2>12. PageOf(q, call.of, from, page)
             <3>1. IsPage(made, k, call.of, from, page)
                   BY <1>5, <2>2, <2>3, <2>4
             <3>2. page.next \in Nat /\ from \in Nat
                   <4>1. IsToken(page.next, Len(made)) /\ IsToken(from, Len(made))
                         BY <1>3, <1>5, <2>3, <3>1 DEF IsPage, IsPagesCall
                   <4>2. QED BY <1>5, <4>1 DEF IsToken
             <3>3. QED BY <1>2, <1>3, <1>4, <1>5, <2>1, <2>2, <3>1, <3>2 DEF PageOf
      <2>13. CASE Waits(tlms, q, "created")
             <3>1. /\ At(page.items, q) = {} /\ FreshToken(page.next, q) /\ At(wholeTimeline, q) = {}
                   /\ made[q].deleted => Waits(tlms, q, "deleted")
                   BY <1>1, <1>2, <1>4, <1>6, <2>2, <2>4, <2>13 DEF FreshInv, FreshCall
             <3>2. At(shown, q) = {}
                   BY <3>1 DEF shown, At
             <3>3. At(wholeTimeline', q) = {}
                   BY <2>11, <3>1, <3>2 DEF Alike
             <3>4. pageToken'[k] = page.next
                   BY <1>5, <2>1, <2>2
             <3>5. FreshInv(q)'
                   BY <1>2, <1>4, <1>6, <2>13, <3>1, <3>3, <3>4 DEF FreshInv
             <3>6. QED BY <1>2, <2>13, <3>5 DEF ItemInv
      <2>14. CASE ~Waits(tlms, q, "created")
             <3>1. /\ KnownInv(q) /\ NoneAbout(calls', q) /\ ~Adding(calls, q) /\ ~Updating(calls, q)
                   BY <1>7, <2>14
             <3>2. PageInv(made, tlms, page, from, call.of, q)
                   BY <1>1, <1>2, <1>4, <2>2, <2>3, <2>4, <3>1 DEF KnownInv, CallInv
             <3>3. CASE call.op = "load"
                   <4>1. At(shown, q) = {} /\ from = FirstPage
                         BY <1>3, <1>5, <2>3, <3>3 DEF shown, At, IsPagesCall
                   <4>2. KnownInv(q)'
                         BY <1>5, <2>10, <2>12, <3>1, <3>2, <4>1, PageBrings
                   <4>3. QED BY <1>2, <2>14, <4>2 DEF ItemInv
             <3>4. CASE call.op = "more"
                   <4>1. shown = wholeTimeline
                         BY <3>4 DEF shown
                   <4>2. q \notin DisturbedByMore(call)
                         BY <1>1, <1>9, <3>4 DEF ResumePages
                   <4>3. q \in Id
                         BY <1>3, MadeIsSeq DEF TypeInv
                   <4>4. call.of = content /\ call.from = pageToken /\ call.from[k] # FirstPage
                         BY <1>4, <4>2, <4>3 DEF DisturbedByMore
                   <4>5. call.of = content /\ from = pageToken[k] /\ from # FirstPage
                         BY <2>3, <4>4
                   <4>6. made[q].parent = content /\ ~made[q].deleted =>
                            /\ ~(q < from) => At(wholeTimeline, q) # {}
                            /\ At(wholeTimeline, q) # {} => from <= q
                         <5>1. from \in Nat
                               BY <2>12 DEF PageOf
                         <5>2. QED BY <1>4, <1>5, <3>1, <4>5, <5>1 DEF KnownInv, ShownInv
                   <4>7. CASE At(wholeTimeline, q) = {}
                         <5>1. Alike(wholeTimeline', page.items, q)
                               BY <2>10, <4>1, <4>7
                         <5>2. KnownInv(q)'
                               BY <2>12, <3>1, <3>2, <4>5, <4>6, <4>7, <5>1, PageBrings
                         <5>3. QED BY <1>2, <2>14, <5>2 DEF ItemInv
                   <4>8. CASE At(page.items, q) = {}
                         <5>1. Alike(wholeTimeline', wholeTimeline, q)
                               BY <2>11, <4>1, <4>8
                         <5>2. KnownInv(q)'
                               BY <1>4, <2>12, <3>1, <3>2, <4>5, <4>8, <5>1, PageLeaves
                         <5>3. QED BY <1>2, <2>14, <5>2 DEF ItemInv
                   <4>9. CASE At(wholeTimeline, q) # {} /\ At(page.items, q) # {}
                         <5>1. made[q].parent = content /\ ~Gone(made, tlms, q)
                               BY <3>1, <4>9 DEF KnownInv
                         <5>2. q < from
                               BY <2>12, <4>9 DEF PageOf, IsPage, At
                         <5>3. made[q].deleted
                               BY <1>5, <2>12, <4>6, <4>9, <5>1, <5>2 DEF PageOf
                         <5>4. /\ AtMostOne(calls', q)
                               /\ \A j \in DOMAIN calls' : CallInv(made', tlms', content', wholeTimeline', calls'[j], q)
                               BY <3>1, NoneIsFine
                         <5>5. KnownInv(q)'
                               BY <1>2, <2>1, <4>5, <5>1, <5>3, <5>4 DEF KnownInv
                         <5>6. QED BY <1>2, <2>14, <5>5 DEF ItemInv
                   <4>10. QED BY <4>7, <4>8, <4>9
             <3>5. QED BY <1>2, <3>3, <3>4 DEF IsPages
      <2>15. QED BY <2>13, <2>14
<1>10. QED BY <1>8, <1>9

-----------------------------------------------------------------------------
(* From the first state on.                                                *)

(* Nothing was told and nothing is shown at first.                         *)
LEMMA RightInit == Init => RightInv
<1> SUFFICES ASSUME Init, NEW q \in DOMAIN made PROVE ItemInv(q)
    BY DEF RightInv
<1>1. PICK c \in Content :
        /\ tlms = <<>> /\ wholeTimeline = <<>>
        /\ pageToken = [k \in Kind |-> FirstPage] /\ hasMore = [k \in Kind |-> TRUE]
        /\ calls = <<[op |-> "load", of |-> c, count |-> PageSize, from |-> pageToken,
                      answer |-> None]>>
      BY DEF Init
<1>2. TypeInv
      BY TypeInit
<1>3. made[q].kind \in Kind /\ q \in Nat /\ q < FirstPage /\ FirstPage \in Nat
      BY <1>2, MadeIsSeq DEF TypeInv, Made
<1>4. PICK call : call = [op |-> "load", of |-> c, count |-> PageSize, from |-> pageToken,
                          answer |-> None]
      OBVIOUS
<1>5. DOMAIN calls = {1} /\ calls[1] = call /\ IsPages(call) /\ ~Read(call)
      BY <1>1, <1>4 DEF IsPages, Read
<1>6. ~Waits(tlms, q, "created") /\ At(wholeTimeline, q) = {}
      BY <1>1 DEF Waits, At
<1>7. AtMostOne(calls, q) /\ ~Adding(calls, q)
      BY <1>5 DEF AtMostOne, Adding, IsOn
<1>8. \A i \in DOMAIN calls : CallInv(made, tlms, content, wholeTimeline, calls[i], q)
      BY <1>5 DEF CallInv, IsOn
<1>9. ShownInv(q)
      BY <1>1, <1>3, <1>6, <1>7 DEF ShownInv, Once
<1>10. QED BY <1>6, <1>7, <1>8, <1>9 DEF ItemInv, KnownInv

(* RightInv is inductive relative to TypeInv.                              *)
LEMMA RightStep == TypeInv /\ RightInv /\ [Next]_vars => RightInv'
<1> SUFFICES ASSUME TypeInv, RightInv, [Next]_vars PROVE RightInv'
    OBVIOUS
<1>1. ASSUME NEW kind \in ChildKind \cup {"revision"}, NEW c \in Content, Create(kind, c)
      PROVE  RightInv'
      BY <1>1, CreateChanges, PublishStaysRight DEF TypeInv
<1>2. ASSUME NEW id \in Id, Edit(id)
      PROVE  RightInv'
      BY <1>2, EditChanges, PublishStaysRight DEF TypeInv
<1>3. ASSUME NEW id \in Id, Delete(id) \/ Restore(id)
      PROVE  RightInv'
      BY <1>3, DeleteChanges, RestoreChanges, PublishStaysRight DEF TypeInv
<1>4. CASE HandleTlm
      BY <1>4, HandleTlmStaysRight
<1>5. ASSUME NEW c \in Content, ShowContent(c)
      PROVE  RightInv'
      BY <1>5, ShowContentStaysRight
<1>6. CASE LoadMoreTimelineItems
      BY <1>6, LoadMoreStaysRight
<1>7. ASSUME NEW j \in DOMAIN timeline, TranslateComment(timeline[j])
      PROVE  RightInv'
      BY <1>7, TranslateStaysRight
<1>8. ASSUME NEW j \in DOMAIN timeline, RestoreComment(timeline[j])
      PROVE  RightInv'
      BY <1>8, RestoreStaysRight
<1>9. ASSUME NEW i \in DOMAIN calls, ServerAnswers(i)
      PROVE  RightInv'
      BY <1>9, ServerAnswersStaysRight
<1>10. ASSUME NEW i \in DOMAIN calls, ResumeSingle(i)
       PROVE  RightInv'
       BY <1>10, ResumeSingleStaysRight
<1>11. ASSUME NEW i \in DOMAIN calls, ResumePages(i)
       PROVE  RightInv'
       BY <1>11, ResumePagesStaysRight
<1>12. CASE UNCHANGED vars
       <2>1. /\ UNCHANGED <<made, tlms, mounted, content, pageToken, hasMore, calls, disturbed>>
             /\ wholeTimeline' = wholeTimeline
             BY <1>12 DEF vars, serverVars, openVars, listVars, pageVars
       <2>2. ASSUME NEW q \in DOMAIN made \ disturbed PROVE ItemInv(q)'
             <3>1. Same(q)
                   BY <2>1, AlikeIsAlike, SameCalls, SameTlmsAreSame DEF Same
             <3>2. QED BY <2>2, <3>1, SameStaysRight DEF RightInv
       <2>3. QED BY <2>1, <2>2 DEF RightInv
<1>13. QED BY <1>1, <1>2, <1>3, <1>4, <1>5, <1>6, <1>7, <1>8, <1>9, <1>10, <1>11, <1>12 DEF Next

-----------------------------------------------------------------------------
(* When nothing is under way, nothing waits to be told or read.            *)
LEMMA QuietIsKnown ==
    ASSUME TypeInv, RightInv, Quiet, NEW id \in Id \ disturbed
    PROVE  /\ ~Expected(id) => At(wholeTimeline, id) = {}
           /\ Expected(id) =>
                 /\ Once(wholeTimeline, id)
                 /\ Loaded(id) \/ ~hasMore[made[id].kind] => At(wholeTimeline, id) # {}
                 /\ \/ id \in FilesOfReloaded
                    \/ \A i \in At(wholeTimeline, id) : wholeTimeline[i].text = made[id].text
<1>1. id \in DOMAIN made /\ id \in Nat /\ pageToken[made[id].kind] \in Nat
      <2>1. id \in DOMAIN made /\ id \in Nat /\ made[id].kind \in Kind
            BY MadeIsSeq DEF TypeInv, Made
      <2>2. QED BY <2>1, MadeIsSeq DEF TypeInv, TabInv
<1>2. tlms = <<>> /\ calls = <<>>
      BY DEF Quiet
<1>3. \A e : ~Waits(tlms, id, e)
      BY <1>2 DEF Waits
<1>4. KnownInv(id)
      BY <1>1, <1>3 DEF RightInv, ItemInv
<1>5. ~Adding(calls, id) /\ ~Updating(calls, id)
      BY <1>2 DEF Adding, Updating
<1>6. ~Expected(id) => At(wholeTimeline, id) = {}
      BY <1>3, <1>4 DEF KnownInv, Gone, Expected, ParentOf
<1>7. ASSUME Expected(id)
      PROVE  /\ Once(wholeTimeline, id)
             /\ Loaded(id) \/ ~hasMore[made[id].kind] => At(wholeTimeline, id) # {}
             /\ \/ id \in FilesOfReloaded
                \/ \A i \in At(wholeTimeline, id) : wholeTimeline[i].text = made[id].text
      <2>1. ShownInv(id)
            BY <1>4, <1>7 DEF KnownInv, Expected, ParentOf
      <2>2. Loaded(id) => pageToken[made[id].kind] <= id
            BY <1>1 DEF Loaded
      <2>3. QED BY <1>3, <1>5, <2>1, <2>2 DEF ShownInv, Right, FilesOfReloaded, ParentOf
<1>8. QED BY <1>6, <1>7

(* What is known of each item is what the property says of it.             *)
LEMMA RightIsRight == TypeInv /\ RightInv => UndisturbedAreRight
<1> SUFFICES ASSUME TypeInv, RightInv, Quiet,
                    NEW id \in Id \ (disturbed \cup FilesOfReloaded)
             PROVE  IF Expected(id)
                    THEN /\ Loaded(id) => Cardinality(Shown(id)) = 1
                         /\ \A i \in Shown(id) : wholeTimeline[i].text = made[id].text
                    ELSE Shown(id) = {}
    BY DEF UndisturbedAreRight
<1>1. Shown(id) = At(wholeTimeline, id)
      BY DEF Shown, At
<1>2. CASE Expected(id)
      <2>1. /\ Once(wholeTimeline, id)
            /\ Loaded(id) => At(wholeTimeline, id) # {}
            /\ \A i \in At(wholeTimeline, id) : wholeTimeline[i].text = made[id].text
            BY <1>2, QuietIsKnown
      <2>2. ASSUME Loaded(id) PROVE Cardinality(Shown(id)) = 1
            <3>1. PICK i : i \in At(wholeTimeline, id)
                  BY <2>1, <2>2
            <3>2. Shown(id) = {i}
                  BY <1>1, <2>1, <3>1 DEF Once
            <3>3. QED BY <3>2, FS_Singleton
      <2>3. QED BY <1>1, <1>2, <2>1, <2>2
<1>3. CASE ~Expected(id)
      BY <1>1, <1>3, QuietIsKnown
<1>4. QED BY <1>2, <1>3

(* All that is loaded is displayed when there is no more to display.       *)
LEMMA RightHidesNothing == TypeInv /\ RightInv => NothingHiddenAtTheEnd
<1> SUFFICES ASSUME TypeInv, RightInv, Quiet, ~CanLoadMoreTimelineItems,
                    NEW id \in Id \ disturbed, Expected(id)
             PROVE  id \in Ids(timeline)
    BY DEF NothingHiddenAtTheEnd
<1>1. made[id].kind \in Kind
      BY MadeIsSeq DEF TypeInv, Made
<1>2. ~hasMore[made[id].kind] /\ ~(Len(wholeTimeline) > Len(timeline))
      BY <1>1 DEF CanLoadMoreTimelineItems
<1>3. PICK j \in DOMAIN wholeTimeline : wholeTimeline[j].id = id
      BY <1>2, QuietIsKnown DEF At
<1>4. Len(wholeTimeline) <= Len(timeline)
      BY <1>2, LengthsAreInt DEF TypeInv
<1>5. /\ timeline \in Seq(AnyItem) /\ wholeTimeline \in Seq(AnyItem)
      /\ PartOf(timeline, wholeTimeline)
      BY DEF TypeInv, ListsInv, IsItems
<1>6. PICK i \in DOMAIN timeline : timeline[i] = wholeTimeline[j]
      BY <1>4, <1>5, PartIsWhole
<1>7. QED BY <1>3, <1>6 DEF Ids

(* When nothing is under way the timeline is right about every item that   *)
(* is not disturbed, in whatever order the live messages, the pages and    *)
(* the answers came.  Disturbed are the items about which two handlers, or *)
(* a handler and a page, overlapped, those about which a request was       *)
(* refused or lost, and those that were restored.  The files of a content  *)
(* other than the one mounted are left out too.                            *)
THEOREM TimelineIsRight == Spec => []UndisturbedAreRight
<1>1. QED BY TypeInit, TypeStep, RightInit, RightStep, RightIsRight, PTL DEF Spec

(* When nothing is under way and there is nothing more to see, no item of  *)
(* the content is missing, but for the disturbed ones.                     *)
THEOREM NothingIsHidden == Spec => []NothingHiddenAtTheEnd
<1>1. QED BY TypeInit, TypeStep, RightInit, RightStep, RightHidesNothing, PTL DEF Spec
=============================================================================
