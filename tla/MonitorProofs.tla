--------------------------- MODULE MonitorProofs ---------------------------
(* What TLAPS proves about a monitor task: its type invariant, and that no  *)
(* keystroke is lost, made up, doubled or overtaken between the device and  *)
(* the subscribers -- for any keys, names, events and capacity of the       *)
(* request channel.                                                         *)
EXTENDS Monitor, SequenceTheorems, WellFoundedInduction, TLAPS

-----------------------------------------------------------------------------
(* A set of numbers that is not empty has a least one.                      *)
LEMMA LeastNumber ==
    ASSUME NEW S \in SUBSET Nat, S # {}
    PROVE  \E n \in S : \A m \in S : n <= m
<1> DEFINE R == OpToRel(<, Nat)
<1>1. \A m, n \in Nat : <<m, n>> \in R <=> m < n
  BY DEF OpToRel
<1>2. IsWellFoundedOn(R, Nat)
  BY NatLessThanWellFounded
<1> HIDE DEF R
<1>3. PICK n \in S : \A m \in S : ~(<<m, n>> \in R)
  BY <1>2, WFMin
<1>4. \A m \in S : ~(m < n)
  BY <1>1, <1>3
<1> QED
  BY <1>4

(* Counting.  The induction theorems of the library take an operator; these *)
(* lemmas take a set and a function.                                        *)

(* What holds of 0, and of a number's successor with the number, holds of   *)
(* every number up to N.                                                    *)
LEMMA Counting ==
    ASSUME NEW N \in Nat, NEW P, 0 \in P,
           \A n \in 0..(N - 1) : n \in P => n + 1 \in P
    PROVE  \A n \in 0..N : n \in P
<1> DEFINE Missing == {n \in 0..N : n \notin P}
<1> SUFFICES ASSUME Missing # {} PROVE FALSE
  OBVIOUS
<1>1. Missing \in SUBSET Nat
  OBVIOUS
<1>2. PICK k \in Missing : \A m \in Missing : k <= m
  BY <1>1, LeastNumber
<1>3. k \in 0..N /\ k # 0 /\ k \notin P
  BY <1>2
<1>4. k - 1 \in 0..(N - 1) /\ (k - 1) + 1 = k
  BY <1>3
<1>5. k - 1 \in P
  BY <1>2, <1>4
<1>6. (k - 1) + 1 \in P
  BY <1>4, <1>5
<1> QED
  BY <1>3, <1>4, <1>6

(* A list of values, each made of the one before it, exists.                *)
IsBuilt(f, N, base, step) ==
    f[0] = base /\ \A n \in 1..N : f[n] = step[<<f[n - 1], n>>]

LEMMA Recursion ==
    ASSUME NEW N \in Nat, NEW S, NEW base \in S, NEW step \in [S \X (1..N) -> S]
    PROVE  \E f \in [0..N -> S] : IsBuilt(f, N, base, step)
<1> DEFINE P == {n \in 0..N : \E f \in [0..n -> S] : IsBuilt(f, n, base, step)}
<1>1. 0 \in P
  <2> DEFINE g == [m \in 0..0 |-> base]
  <2>1. g \in [0..0 -> S] /\ IsBuilt(g, 0, base, step)
    BY DEF IsBuilt
  <2>2. 0 \in 0..N
    OBVIOUS
  <2> HIDE DEF g
  <2> QED
    BY <2>1, <2>2
<1>2. ASSUME NEW n \in 0..(N - 1), n \in P PROVE n + 1 \in P
  <2>0. n \in Nat /\ n + 1 \in 1..N /\ n + 1 \in 0..N
    OBVIOUS
  <2>1. PICK f \in [0..n -> S] : IsBuilt(f, n, base, step)
    BY <1>2
  <2> DEFINE g == [m \in 0..(n + 1) |-> IF m = n + 1 THEN step[<<f[n], n + 1>>] ELSE f[m]]
  <2>2. g \in [0..(n + 1) -> S]
    BY <2>0, <2>1
  <2>3. g[0] = base
    BY <2>0, <2>1 DEF IsBuilt
  <2>4. ASSUME NEW m \in 1..(n + 1) PROVE g[m] = step[<<g[m - 1], m>>]
    <3>1. g[m - 1] = f[m - 1]
      BY <2>0
    <3>2. CASE m = n + 1
      BY <2>0, <3>1, <3>2
    <3>3. CASE m # n + 1
      <4>1. m \in 1..n /\ g[m] = f[m]
        BY <2>0, <3>3
      <4> QED
        BY <2>1, <3>1, <4>1 DEF IsBuilt
    <3> QED
      BY <3>2, <3>3
  <2> HIDE DEF g
  <2>5. IsBuilt(g, n + 1, base, step)
    BY <2>3, <2>4 DEF IsBuilt
  <2> QED
    BY <2>0, <2>2, <2>5
<1>3. N \in P
  <2> HIDE DEF P
  <2>1. \A n \in 0..N : n \in P
    BY <1>1, <1>2, Counting
  <2> QED
    BY <2>1
<1> QED
  BY <1>3

(* What it means that a text begins with another.                           *)
Begins(s, t) == Len(s) <= Len(t) /\ \A i \in 1..Len(s) : s[i] = t[i]

LEMMA BeginsWith ==
    ASSUME NEW S, NEW s \in Seq(S), NEW t \in Seq(S)
    PROVE  Lists!IsPrefix(s, t) <=> Begins(s, t)
<1> USE DEF Begins
<1>1. Len(s) \in Nat /\ Len(t) \in Nat
  BY LenProperties
<1>2. \A i \in 1..Len(s) : s[i] \in S
  BY ElementOfSeq
<1>3. /\ SubSeq(s, 1, Len(s)) \in Seq(S) /\ Len(SubSeq(s, 1, Len(s))) = Len(s)
      /\ \A i \in 1..Len(s) : SubSeq(s, 1, Len(s))[i] = s[i]
  BY SubSeqFull
<1>4. CASE Len(s) <= Len(t)
  <2>1. \A i \in 1..Len(s) : t[i] \in S
    BY <1>1, <1>4, ElementOfSeq
  <2>2. /\ SubSeq(t, 1, Len(s)) \in Seq(S) /\ Len(SubSeq(t, 1, Len(s))) = Len(s)
        /\ \A i \in 1..Len(s) : SubSeq(t, 1, Len(s))[i] = t[i]
    BY <1>1, <2>1, SubSeqProperties
  <2>3. SubSeq(s, 1, Len(s)) = SubSeq(t, 1, Len(s)) <=> \A i \in 1..Len(s) : s[i] = t[i]
    BY <1>3, <2>2, SeqEqual
  <2> QED
    BY <1>4, <2>3 DEF Lists!IsPrefix
<1>5. CASE ~(Len(s) <= Len(t))
  BY <1>5 DEF Lists!IsPrefix
<1> QED
  BY <1>4, <1>5

-----------------------------------------------------------------------------
(* What lists say.                                                          *)

(* What is said after the first n items.                                    *)
IsRun(h, list, says) ==
    /\ h[0] = <<>>
    /\ \A n \in 1..Len(list) : h[n] = Say(h[n - 1], list[n], says)

(* All that is said is in T.                                                *)
SaysIn(says, T) == \A item \in DOMAIN says : says[item] \in T

LEMMA SayIsTyped ==
    ASSUME NEW T, NEW says, SaysIn(says, T), NEW out \in Seq(T), NEW item
    PROVE  Say(out, item, says) \in Seq(T)
<1>1. CASE item \in DOMAIN says
  <2>1. says[item] \in T
    BY <1>1 DEF SaysIn
  <2>2. Append(out, says[item]) \in Seq(T)
    BY <2>1, AppendProperties
  <2> QED
    BY <1>1, <2>2 DEF Say
<1>2. CASE item \notin DOMAIN says
  BY <1>2 DEF Say
<1> QED
  BY <1>1, <1>2

LEMMA SayLater ==
    ASSUME NEW T, NEW says, SaysIn(says, T), NEW s \in Seq(T), NEW out \in Seq(T), NEW item
    PROVE  Say(s \o out, item, says) = s \o Say(out, item, says)
<1>1. CASE item \in DOMAIN says
  <2> DEFINE word == says[item]
             one  == <<word>>
  <2>1. word \in T
    BY <1>1 DEF SaysIn
  <2> HIDE DEF word
  <2>2. one \in Seq(T)
    BY <2>1
  <2>3. s \o out \in Seq(T)
    BY ConcatProperties
  <2>4. Append(s \o out, word) = (s \o out) \o one /\ Append(out, word) = out \o one
    BY <2>1, <2>3, AppendIsConcat
  <2>5. (s \o out) \o one = s \o (out \o one)
    BY <2>2, ConcatAssociative
  <2>6. Append(s \o out, word) = s \o Append(out, word)
    BY <2>4, <2>5
  <2> QED
    BY <1>1, <2>6 DEF Say, word
<1>2. CASE item \notin DOMAIN says
  BY <1>2 DEF Say
<1> QED
  BY <1>1, <1>2

LEMMA SaidByRun ==
    ASSUME NEW T, NEW says, SaysIn(says, T), NEW list, Len(list) \in Nat
    PROVE  \E h : /\ h \in [0..Len(list) -> Seq(T)]
                  /\ IsRun(h, list, says)
                  /\ Said(list, says) = h[Len(list)]
<1> DEFINE N == Len(list)
           step == [p \in Seq(T) \X (1..N) |-> Say(p[1], list[p[2]], says)]
           Goes(h) == h = [n \in 0..N |->
                              IF n = 0 THEN <<>> ELSE Say(h[n - 1], list[n], says)]
<1>1. <<>> \in Seq(T)
  BY EmptySeq
<1>2. \A x \in Seq(T) : \A item : Say(x, item, says) \in Seq(T)
  BY SayIsTyped
<1>3. \A x \in Seq(T), n \in 1..N : step[<<x, n>>] = Say(x, list[n], says)
  OBVIOUS
<1>4. step \in [Seq(T) \X (1..N) -> Seq(T)]
  BY <1>2
<1> HIDE DEF step
<1>5. PICK g \in [0..N -> Seq(T)] : IsBuilt(g, N, <<>>, step)
  BY <1>1, <1>4, Recursion, Zenon
<1>6. \A n \in 0..N : g[n] = IF n = 0 THEN <<>> ELSE Say(g[n - 1], list[n], says)
  <2>1. \A n \in 1..N : n - 1 \in 0..N /\ g[n - 1] \in Seq(T)
    BY <1>5
  <2>2. \A n \in 1..N : g[n] = Say(g[n - 1], list[n], says)
    BY <1>3, <1>5, <2>1 DEF IsBuilt
  <2>3. \A n \in 0..N : n = 0 \/ n \in 1..N
    OBVIOUS
  <2> QED
    BY <1>5, <2>2, <2>3 DEF IsBuilt
<1>7. Goes(g)
  BY <1>5, <1>6
<1>8. \E h : Goes(h) /\ Said(list, says) = h[N]
  BY <1>7, Zenon DEF Said
<1> HIDE DEF Goes
<1>9. PICK h : Goes(h) /\ Said(list, says) = h[N]
  BY <1>8
<1>10. \A n \in 0..N : h[n] = IF n = 0 THEN <<>> ELSE Say(h[n - 1], list[n], says)
  BY <1>9, Zenon DEF Goes
<1>11. IsRun(h, list, says)
  BY <1>10 DEF IsRun
<1>12. \A n \in 0..N : h[n] \in Seq(T)
  <2> DEFINE P == {n \in 0..N : h[n] \in Seq(T)}
  <2>1. 0 \in P
    <3>1. 0 \in 0..N
      OBVIOUS
    <3>2. h[0] = <<>>
      BY <1>10, <3>1
    <3> QED
      BY <1>1, <3>1, <3>2
  <2>2. ASSUME NEW n \in 0..(N - 1), n \in P PROVE n + 1 \in P
    <3>1. n + 1 \in 0..N /\ n + 1 # 0 /\ (n + 1) - 1 = n
      OBVIOUS
    <3>2. h[n + 1] = Say(h[n], list[n + 1], says)
      BY <1>10, <3>1
    <3> QED
      BY <1>2, <2>2, <3>1, <3>2
  <2>3. \A n \in 0..N : n \in P
    <3> HIDE DEF P
    <3> QED
      BY <2>1, <2>2, Counting
  <2> QED
    BY <2>3
<1>13. h \in [0..N -> Seq(T)]
  <2>1. h = [n \in 0..N |-> IF n = 0 THEN <<>> ELSE Say(h[n - 1], list[n], says)]
    BY <1>9, Zenon DEF Goes
  <2>2. DOMAIN h = 0..N /\ h = [n \in 0..N |-> h[n]]
    BY <2>1
  <2> QED
    BY <1>12, <2>2
<1> QED
  BY <1>9, <1>11, <1>13

LEMMA SaidIsTyped ==
    ASSUME NEW T, NEW says, SaysIn(says, T), NEW list, Len(list) \in Nat
    PROVE  Said(list, says) \in Seq(T)
<1>1. PICK h : h \in [0..Len(list) -> Seq(T)] /\ Said(list, says) = h[Len(list)]
  BY SaidByRun
<1> QED
  BY <1>1

(* One list after the other is said one after the other.                    *)
LEMMA SaidJoined ==
    ASSUME NEW S, NEW T, NEW says, SaysIn(says, T), NEW s \in Seq(S), NEW t \in Seq(S)
    PROVE  Said(s \o t, says) = Said(s, says) \o Said(t, says)
<1> DEFINE both == s \o t
           n == Len(s)
           m == Len(t)
<1>1. n \in Nat /\ m \in Nat
  BY LenProperties
<1>2. /\ Len(both) = n + m
      /\ \A i \in 1..n : both[i] = s[i]
      /\ \A i \in 1..m : both[n + i] = t[i]
  BY <1>1, ConcatProperties
<1> HIDE DEF both, n, m
<1>3. Len(s) \in Nat /\ Len(t) \in Nat /\ Len(both) \in Nat
  BY <1>1, <1>2 DEF n, m
<1>4. PICK f : f \in [0..Len(s) -> Seq(T)] /\ IsRun(f, s, says)
               /\ Said(s, says) = f[Len(s)]
  BY <1>3, SaidByRun
<1>5. PICK g : g \in [0..Len(t) -> Seq(T)] /\ IsRun(g, t, says)
               /\ Said(t, says) = g[Len(t)]
  BY <1>3, SaidByRun
<1>6. PICK h : h \in [0..Len(both) -> Seq(T)] /\ IsRun(h, both, says)
               /\ Said(both, says) = h[Len(both)]
  BY <1>3, SaidByRun
<1>7. /\ f \in [0..n -> Seq(T)] /\ Said(s, says) = f[n]
      /\ f[0] = <<>> /\ \A i \in 1..n : f[i] = Say(f[i - 1], s[i], says)
  BY <1>4 DEF n, IsRun
<1>8. /\ g \in [0..m -> Seq(T)] /\ Said(t, says) = g[m]
      /\ g[0] = <<>> /\ \A i \in 1..m : g[i] = Say(g[i - 1], t[i], says)
  BY <1>5 DEF m, IsRun
<1>9. /\ Said(both, says) = h[n + m]
      /\ h[0] = <<>> /\ \A i \in 1..(n + m) : h[i] = Say(h[i - 1], both[i], says)
  BY <1>2, <1>6 DEF IsRun
<1>10. h[n] = f[n]
  <2> DEFINE P == {k \in 0..n : h[k] = f[k]}
  <2>1. 0 \in P
    BY <1>1, <1>7, <1>9
  <2>2. ASSUME NEW k \in 0..(n - 1), k \in P PROVE k + 1 \in P
    <3>1. k + 1 \in 1..n /\ k + 1 \in 1..(n + m) /\ (k + 1) - 1 = k /\ k + 1 \in 0..n
      BY <1>1
    <3>2. h[k + 1] = Say(h[k], both[k + 1], says) /\ f[k + 1] = Say(f[k], s[k + 1], says)
      BY <1>7, <1>9, <3>1
    <3>3. both[k + 1] = s[k + 1] /\ h[k] = f[k]
      BY <1>2, <2>2, <3>1
    <3> QED
      BY <3>1, <3>2, <3>3
  <2>3. n \in P
    <3> HIDE DEF P
    <3>1. \A k \in 0..n : k \in P
      BY <1>1, <2>1, <2>2, Counting
    <3> QED
      BY <1>1, <3>1
  <2> QED
    BY <2>3
<1>11. f[n] \in Seq(T)
  BY <1>1, <1>7
<1>12. h[n + m] = f[n] \o g[m]
  <2> DEFINE P == {k \in 0..m : h[n + k] = f[n] \o g[k]}
  <2>1. 0 \in P
    <3>1. f[n] \o <<>> = f[n]
      BY <1>11, ConcatEmptySeq
    <3>2. n + 0 = n /\ 0 \in 0..m
      BY <1>1
    <3> QED
      BY <1>8, <1>10, <3>1, <3>2
  <2>2. ASSUME NEW k \in 0..(m - 1), k \in P PROVE k + 1 \in P
    <3>1. /\ k \in 0..m /\ k + 1 \in 1..m /\ k + 1 \in 0..m /\ (k + 1) - 1 = k
          /\ n + (k + 1) \in 1..(n + m) /\ (n + (k + 1)) - 1 = n + k
      BY <1>1
    <3>2. h[n + (k + 1)] = Say(h[n + k], both[n + (k + 1)], says)
      BY <1>9, <3>1
    <3>3. g[k + 1] = Say(g[k], t[k + 1], says) /\ both[n + (k + 1)] = t[k + 1]
      BY <1>2, <1>8, <3>1
    <3>4. h[n + k] = f[n] \o g[k] /\ g[k] \in Seq(T)
      BY <1>8, <2>2, <3>1
    <3>5. Say(f[n] \o g[k], t[k + 1], says) = f[n] \o Say(g[k], t[k + 1], says)
      <4>1. g[k] \in Seq(T)
        BY <3>4
      <4>2. \A x, y \in Seq(T) : \A item :
               Say(x \o y, item, says) = x \o Say(y, item, says)
        BY SayLater
      <4> QED
        BY <1>11, <4>1, <4>2
    <3> QED
      BY <3>1, <3>2, <3>3, <3>4, <3>5
  <2>3. m \in P
    <3> HIDE DEF P
    <3>1. \A k \in 0..m : k \in P
      BY <1>1, <2>1, <2>2, Counting
    <3> QED
      BY <1>1, <3>1
  <2> QED
    BY <2>3
<1> QED
  BY <1>7, <1>8, <1>9, <1>11, <1>12 DEF both

LEMMA SaidOfNothing ==
    ASSUME NEW says
    PROVE  Said(<<>>, says) = <<>>
<1>1. SaysIn(says, {says[item] : item \in DOMAIN says})
  BY DEF SaysIn
<1>2. Len(<<>>) = 0
  OBVIOUS
<1>3. PICK h : IsRun(h, <<>>, says) /\ Said(<<>>, says) = h[0]
  BY <1>1, <1>2, SaidByRun
<1> QED
  BY <1>3 DEF IsRun

LEMMA SaidOfOne ==
    ASSUME NEW says, NEW item
    PROVE  Said(<<item>>, says) = IF item \in DOMAIN says THEN <<says[item]>> ELSE <<>>
<1> DEFINE one == <<item>>
<1>1. SaysIn(says, {says[x] : x \in DOMAIN says})
  BY DEF SaysIn
<1>2. Len(one) = 1 /\ one[1] = item
  OBVIOUS
<1> HIDE DEF one
<1>3. PICK h : IsRun(h, one, says) /\ Said(one, says) = h[1]
  BY <1>1, <1>2, SaidByRun
<1>4. h[1] = Say(<<>>, item, says)
  BY <1>2, <1>3 DEF IsRun
<1>5. Append(<<>>, says[item]) = <<says[item]>>
  OBVIOUS
<1> QED
  BY <1>3, <1>4, <1>5 DEF Say, one

(* What is left to say after the first item.                                *)
LEMMA SaidOfRest ==
    ASSUME NEW S, NEW T, NEW says, SaysIn(says, T), NEW s \in Seq(S), s # <<>>
    PROVE  /\ Tail(s) \in Seq(S) /\ Head(s) \in S
           /\ Said(Tail(s), says) \in Seq(T)
           /\ Said(s, says) = Said(<<Head(s)>>, says) \o Said(Tail(s), says)
<1>1. Head(s) \in S /\ Tail(s) \in Seq(S)
  BY HeadTailProperties
<1> DEFINE one  == <<Head(s)>>
           rest == Tail(s)
<1>2. one \in Seq(S)
  BY <1>1
<1>3. s = one \o rest
  <2>1. Len(s) \in Nat /\ Len(s) >= 1
    BY EmptySeq, LenProperties
  <2>2. SubSeq(s, 1, Len(s)) = <<s[1]>> \o SubSeq(s, 2, Len(s))
    BY <2>1, SubSeqRecursiveFirst
  <2>3. SubSeq(s, 1, Len(s)) = s
    BY SubSeqFull
  <2>4. Tail(s) = SubSeq(s, 2, Len(s))
    BY TailIsSubSeq
  <2>5. Head(s) = s[1]
    BY <2>1
  <2> QED
    BY <2>2, <2>3, <2>4, <2>5
<1> HIDE DEF one, rest
<1>4. rest \in Seq(S)
  BY <1>1 DEF rest
<1>5. Said(one \o rest, says) = Said(one, says) \o Said(rest, says)
  <2>1. \A x, y \in Seq(S) : Said(x \o y, says) = Said(x, says) \o Said(y, says)
    BY SaidJoined
  <2> QED
    BY <1>2, <1>4, <2>1
<1>6. Said(rest, says) \in Seq(T)
  BY <1>4, LenProperties, SaidIsTyped
<1> QED
  BY <1>1, <1>3, <1>5, <1>6 DEF one, rest

-----------------------------------------------------------------------------
(* What is typed, published and reported.                                   *)

Spellings == {Spoken[code][action] : code \in Codes, action \in Actions}

Messages == {Action(text) : text \in Spellings} \cup {Info, Enabled}
            \cup {Discovery(codes) : codes \in SUBSET Codes}

Reports == {KeyObserved(code) : code \in Codes} \cup {DeviceDisconnected}

LEMMA Keystroke ==
    ASSUME NEW event \in Event
    PROVE  /\ event # NonKey /\ evdev_value_to_action(event.value) # "none"
              <=> IsKeystroke(event)
           /\ IsKeystroke(event) => event.code \in Codes
<1>1. CASE event = NonKey
  BY <1>1 DEF IsKeystroke
<1>2. CASE event # NonKey
  <2>1. PICK code \in Codes, value \in 0..2 : event = Key(code, value)
    BY <1>2 DEF Event
  <2>2. event.code \in Codes /\ event.value \in 0..2
    BY <2>1 DEF Key
  <2>3. evdev_value_to_action(event.value) # "none" <=> event.value \in {0, 1}
    <3>1. CASE event.value = 0
      BY <3>1 DEF evdev_value_to_action
    <3>2. CASE event.value = 1
      BY <3>2 DEF evdev_value_to_action
    <3>3. CASE event.value = 2
      BY <3>3 DEF evdev_value_to_action
    <3> QED
      BY <2>2, <3>1, <3>2, <3>3
  <2> QED
    BY <1>2, <2>2, <2>3 DEF IsKeystroke
<1> QED
  BY <1>1, <1>2

LEMMA KeystrokeIsPublished ==
    ASSUME NEW event \in Event, IsKeystroke(event)
    PROVE  /\ Published(event) \in Spellings
           /\ OfKeystrokes[event] = Published(event)
<1>1. event.code \in Codes /\ event.value \in {0, 1}
  BY Keystroke DEF IsKeystroke
<1> DEFINE word == IF event.value = 1 THEN "press" ELSE "release"
<1>2. evdev_value_to_action(event.value) = word /\ word \in Actions
  <2>1. CASE event.value = 0
    BY <2>1 DEF evdev_value_to_action, Actions
  <2>2. CASE event.value = 1
    BY <2>2 DEF evdev_value_to_action, Actions
  <2> QED
    BY <1>1, <2>1, <2>2
<1>3. OfKeystrokes[event] = Spoken[event.code][word]
  BY DEF OfKeystrokes
<1>4. Published(event) = Spoken[event.code][word]
  BY <1>2 DEF Published
<1> HIDE DEF word
<1> QED
  BY <1>1, <1>2, <1>3, <1>4 DEF Spellings

LEMMA EventSaid ==
    ASSUME NEW event \in Event
    PROVE  Said(<<event>>, OfKeystrokes)
           = IF IsKeystroke(event) THEN <<Published(event)>> ELSE <<>>
<1>1. event \in DOMAIN OfKeystrokes <=> IsKeystroke(event)
  BY DEF OfKeystrokes
<1> QED
  BY <1>1, SaidOfOne, KeystrokeIsPublished

LEMMA MessageSaid ==
    ASSUME NEW msg \in Messages
    PROVE  /\ msg.topic = "action" => msg.body \in Spellings
           /\ Said(<<msg>>, OfMessages)
              = IF msg.topic = "action" THEN <<msg.body>> ELSE <<>>
<1>1. CASE msg.topic = "action"
  <2>1. PICK text \in Spellings : msg = Action(text)
    BY <1>1 DEF Messages, Info, Enabled, Discovery
  <2>2. msg.body = text
    BY <2>1 DEF Action
  <2>3. msg \in DOMAIN OfMessages
    BY <2>1 DEF OfMessages, Spellings
  <2>4. OfMessages[msg] = msg.body
    BY <2>3 DEF OfMessages
  <2> QED
    BY <1>1, <2>2, <2>3, <2>4, SaidOfOne
<1>2. CASE msg.topic # "action"
  <2>1. msg \notin DOMAIN OfMessages
    BY <1>2 DEF OfMessages, Action
  <2> QED
    BY <1>2, <2>1, SaidOfOne
<1> QED
  BY <1>1, <1>2

LEMMA SaysAreTyped == SaysIn(OfKeystrokes, Spellings) /\ SaysIn(OfMessages, Spellings)
<1>1. ASSUME NEW event \in DOMAIN OfKeystrokes PROVE OfKeystrokes[event] \in Spellings
  <2>1. event \in Event /\ IsKeystroke(event)
    BY DEF OfKeystrokes
  <2> QED
    BY <2>1, KeystrokeIsPublished
<1>2. ASSUME NEW msg \in DOMAIN OfMessages PROVE OfMessages[msg] \in Spellings
  <2>1. PICK code \in Codes, action \in Actions : msg = Action(Spoken[code][action])
    BY DEF OfMessages
  <2>2. msg.body = Spoken[code][action] /\ OfMessages[msg] = msg.body
    BY <2>1 DEF OfMessages, Action
  <2> QED
    BY <2>2 DEF Spellings
<1> QED
  BY <1>1, <1>2 DEF SaysIn

-----------------------------------------------------------------------------
(* Types.                                                                   *)

Stages == {"starting", "reading", "publishing", "reporting", "ended"}

MonitorTyped ==
    /\ stage \in Stages
    /\ now \in Event /\ (stage \in {"publishing", "reporting"} => IsKeystroke(now))
    /\ pending \in Seq(Event) /\ typed \in Seq(Event)
    /\ rx \in Seq(Reports) /\ keys \subseteq Codes
    /\ outbox \in Seq(Messages) /\ Len(outbox) <= MaxOutbox
    /\ heard \in Seq(Spellings)

LEMMA MonitorInitiallyTyped == MonitorInit => MonitorTyped
<1> SUFFICES ASSUME MonitorInit PROVE MonitorTyped
  OBVIOUS
<1>1. NonKey \in Event
  BY DEF Event
<1>2. /\ <<>> \in Seq(Event) /\ <<>> \in Seq(Reports) /\ <<>> \in Seq(Messages)
      /\ <<>> \in Seq(Spellings) /\ Len(<<>>) <= MaxOutbox
  BY MaxOutboxAssumption, EmptySeq
<1> QED
  BY <1>1, <1>2 DEF MonitorInit, MonitorTyped, Stages

(* A handler's publishes.                                                   *)
LEMMA PublishIsTyped ==
    ASSUME MonitorTyped, NEW msgs \in Seq(Messages), Publish(msgs)
    PROVE  outbox' \in Seq(Messages) /\ Len(outbox') <= MaxOutbox
<1>1. CASE refused
  BY <1>1 DEF Publish, MonitorTyped
<1>2. CASE ~refused
  <2>1. outbox' = outbox \o msgs /\ Len(outbox) + Len(msgs) <= MaxOutbox
    BY <1>2 DEF Publish
  <2> QED
    BY <2>1, ConcatProperties DEF MonitorTyped
<1> QED
  BY <1>1, <1>2

LEMMA EndsTyped ==
    ASSUME MonitorTyped, NEW msgs \in Seq(Reports), Ends(msgs)
    PROVE  MonitorTyped'
<1>1. rx' \in Seq(Reports)
  BY ConcatProperties DEF Ends, MonitorTyped
<1>2. pending' \in Seq(Event)
  BY EmptySeq DEF Ends
<1> QED
  BY <1>1, <1>2 DEF Ends, MonitorTyped, Stages, recordVars, brokerVars

LEMMA MonitorStepTyped == MonitorTyped /\ [MonitorNext]_monitorVars => MonitorTyped'
<1> SUFFICES ASSUME MonitorTyped, [MonitorNext]_monitorVars PROVE MonitorTyped'
  OBVIOUS
<1> USE DEF taskVars, deviceVars, recordVars, brokerVars
<1>1. CASE Opens
  BY <1>1 DEF Opens, MonitorTyped, Stages
<1>2. CASE OpenFails \/ StreamFails
  <2>1. <<DeviceDisconnected>> \in Seq(Reports)
    BY DEF Reports
  <2> QED
    BY <1>2, <2>1, EndsTyped DEF OpenFails, StreamFails
<1>3. CASE Stops \/ IsAborted
  <2>1. <<>> \in Seq(Reports)
    BY EmptySeq
  <2> QED
    BY <1>3, <2>1, EndsTyped DEF Stops, IsAborted
<1>4. CASE ReadEvent
  <2>1. pending \in Seq(Event) /\ pending # <<>>
    BY <1>4 DEF ReadEvent, MonitorTyped
  <2>2. Head(pending) \in Event /\ Tail(pending) \in Seq(Event)
    BY <2>1, HeadTailProperties
  <2> DEFINE event == Head(pending)
  <2>3. event # NonKey /\ evdev_value_to_action(event.value) # "none" <=> IsKeystroke(event)
    BY <2>2, Keystroke
  <2>4. IF IsKeystroke(event) THEN stage' = "publishing" /\ now' = event
        ELSE UNCHANGED <<stage, now>>
    BY <1>4, <2>3 DEF ReadEvent
  <2>5. pending' = Tail(pending) /\ stage = "reading"
    BY <1>4 DEF ReadEvent
  <2>6. UNCHANGED <<typed, rx, keys, outbox, heard>>
    BY <1>4 DEF ReadEvent
  <2> HIDE DEF event
  <2>7. event \in Event
    BY <2>2 DEF event
  <2>8. /\ stage' \in Stages /\ now' \in Event
        /\ stage' \in {"publishing", "reporting"} => IsKeystroke(now')
    BY <2>4, <2>5, <2>7 DEF MonitorTyped, Stages
  <2> QED
    BY <2>2, <2>5, <2>6, <2>8 DEF MonitorTyped, IsKeystroke
<1>5. CASE PublishesAction
  <2>1. stage = "publishing" /\ now \in Event /\ IsKeystroke(now)
    BY <1>5 DEF PublishesAction, MonitorTyped
  <2>2. Published(now) \in Spellings
    BY <2>1, KeystrokeIsPublished
  <2>3. <<Action(Published(now))>> \in Seq(Messages)
    BY <2>2 DEF Messages
  <2>4. outbox' \in Seq(Messages) /\ Len(outbox') <= MaxOutbox
    BY <1>5, <2>3, PublishIsTyped DEF PublishesAction
  <2> QED
    BY <1>5, <2>1, <2>4 DEF PublishesAction, MonitorTyped, Stages, IsKeystroke
<1>6. CASE ReportsKey
  <2>1. stage = "reporting" /\ now \in Event /\ IsKeystroke(now)
    BY <1>6 DEF ReportsKey, MonitorTyped
  <2>2. KeyObserved(now.code) \in Reports
    BY <2>1, Keystroke DEF Reports
  <2>3. rx' \in Seq(Reports)
    BY <1>6, <2>2, AppendProperties DEF ReportsKey, MonitorTyped
  <2>4. NonKey \in Event
    BY DEF Event
  <2> QED
    BY <1>6, <2>3, <2>4 DEF ReportsKey, MonitorTyped, Stages
<1>7. CASE OnKey
  <2>1. rx \in Seq(Reports) /\ rx # <<>> /\ Head(rx).kind = "key"
    BY <1>7 DEF OnKey, MonitorTyped
  <2>2. Head(rx) \in Reports /\ Tail(rx) \in Seq(Reports)
    BY <2>1, HeadTailProperties
  <2>3. Head(rx).code \in Codes
    BY <2>1, <2>2 DEF Reports, KeyObserved, DeviceDisconnected
  <2>4. keys' \in SUBSET Codes
    BY <1>7, <2>3 DEF OnKey, MonitorTyped
  <2> DEFINE msgs == <<Info, Discovery(keys')>>
  <2>5. Discovery(keys') \in Messages /\ Info \in Messages
    BY <2>4 DEF Messages
  <2>6. msgs \in Seq(Messages)
    BY <2>5
  <2>7. Publish(msgs)
    BY <1>7 DEF OnKey
  <2> HIDE DEF msgs
  <2>8. outbox' \in Seq(Messages) /\ Len(outbox') <= MaxOutbox
    BY <2>6, <2>7, PublishIsTyped
  <2>9. /\ rx' = Tail(rx)
        /\ UNCHANGED <<stage, now, pending, typed, heard>>
    BY <1>7 DEF OnKey
  <2> QED
    BY <2>2, <2>4, <2>8, <2>9 DEF MonitorTyped, IsKeystroke
<1>8. CASE OnKeyIgnored \/ OnDisconnected
  <2>1. rx \in Seq(Reports) /\ rx # <<>> /\ rx' = Tail(rx)
    BY <1>8 DEF OnKeyIgnored, OnDisconnected, MonitorTyped
  <2>2. rx' \in Seq(Reports)
    BY <2>1, HeadTailProperties
  <2>3. UNCHANGED <<stage, now, pending, typed, keys, outbox, heard>>
    BY <1>8 DEF OnKeyIgnored, OnDisconnected
  <2> QED
    BY <2>2, <2>3 DEF MonitorTyped, IsKeystroke
<1>9. CASE OnOff
  <2> DEFINE msgs == <<Enabled>>
  <2>1. Enabled \in Messages
    BY DEF Messages
  <2>2. msgs \in Seq(Messages)
    BY <2>1
  <2>3. Publish(msgs)
    BY <1>9 DEF OnOff
  <2> HIDE DEF msgs
  <2>4. outbox' \in Seq(Messages) /\ Len(outbox') <= MaxOutbox
    BY <2>2, <2>3, PublishIsTyped
  <2>5. UNCHANGED <<stage, now, pending, typed, rx, keys, heard>>
    BY <1>9 DEF OnOff
  <2> QED
    BY <2>4, <2>5 DEF MonitorTyped, IsKeystroke
<1>10. CASE OnRemove
  <2> DEFINE msgs == <<Info, Enabled, Discovery({})>>
  <2>1. Discovery({}) \in Messages /\ Enabled \in Messages /\ Info \in Messages
    BY DEF Messages
  <2>2. msgs \in Seq(Messages)
    BY <2>1
  <2>3. Publish(msgs)
    BY <1>10 DEF OnRemove
  <2> HIDE DEF msgs
  <2>4. outbox' \in Seq(Messages) /\ Len(outbox') <= MaxOutbox
    BY <2>2, <2>3, PublishIsTyped
  <2>5. keys' = {} /\ UNCHANGED <<stage, now, pending, typed, rx, heard>>
    BY <1>10 DEF OnRemove
  <2> QED
    BY <2>4, <2>5 DEF MonitorTyped, IsKeystroke
<1>11. ASSUME NEW event \in Event, Emit(event) PROVE MonitorTyped'
  <2>1. pending' \in Seq(Event)
    BY <1>11, AppendProperties DEF Emit, MonitorTyped
  <2>2. typed' = Append(typed, event) \/ typed' = typed
    BY <1>11 DEF Emit
  <2>3. typed' \in Seq(Event)
    <3>1. typed \in Seq(Event)
      BY DEF MonitorTyped
    <3>2. Append(typed, event) \in Seq(Event)
      BY <3>1, AppendProperties
    <3> QED
      BY <2>2, <3>1, <3>2
  <2>4. UNCHANGED <<stage, now, rx, keys, outbox, heard>>
    BY <1>11 DEF Emit
  <2> QED
    BY <2>1, <2>3, <2>4 DEF MonitorTyped, IsKeystroke
<1>12. CASE Unplug
  BY <1>12 DEF Unplug, MonitorTyped, IsKeystroke
<1>13. CASE Transmit
  <2>1. outbox \in Seq(Messages) /\ outbox # <<>> /\ outbox' = Tail(outbox)
    BY <1>13 DEF Transmit, MonitorTyped
  <2>2. /\ Head(outbox) \in Messages /\ outbox' \in Seq(Messages)
        /\ Len(outbox') = Len(outbox) - 1
    BY <2>1, HeadTailProperties
  <2>3. Len(outbox) \in Nat /\ Len(outbox) <= MaxOutbox
    BY <2>1, LenProperties DEF MonitorTyped
  <2>4. Len(outbox') <= MaxOutbox
    BY <2>2, <2>3, MaxOutboxAssumption
  <2> DEFINE msg == Head(outbox)
  <2>5. heard' = IF msg.topic = "action" THEN Append(heard, msg.body) ELSE heard
    BY <1>13 DEF Transmit
  <2>6. msg.topic = "action" => msg.body \in Spellings
    BY <2>2, MessageSaid
  <2> HIDE DEF msg
  <2>7. heard \in Seq(Spellings)
    BY DEF MonitorTyped
  <2>8. heard' \in Seq(Spellings)
    <3>1. CASE msg.topic = "action"
      <4>1. msg.body \in Spellings /\ heard' = Append(heard, msg.body)
        BY <2>5, <2>6, <3>1
      <4> QED
        BY <2>7, <4>1, AppendProperties
    <3>2. CASE msg.topic # "action"
      BY <2>5, <2>7, <3>2
    <3> QED
      BY <3>1, <3>2
  <2>9. UNCHANGED <<stage, now, pending, typed, rx, keys>>
    BY <1>13 DEF Transmit
  <2> QED
    BY <2>2, <2>4, <2>8, <2>9 DEF MonitorTyped, IsKeystroke
<1>14. CASE EventLoopEnds
  <2>1. outbox' = <<>> /\ UNCHANGED <<stage, now, pending, typed, rx, keys, heard>>
    BY <1>14 DEF EventLoopEnds
  <2>2. <<>> \in Seq(Messages) /\ Len(<<>>) <= MaxOutbox
    BY MaxOutboxAssumption, EmptySeq
  <2> QED
    BY <2>1, <2>2 DEF MonitorTyped, IsKeystroke
<1>15. CASE UNCHANGED monitorVars
  BY <1>15 DEF monitorVars, MonitorTyped, IsKeystroke
<1> QED
  BY <1>1, <1>2, <1>3, <1>4, <1>5, <1>6, <1>7, <1>8, <1>9, <1>10, <1>11, <1>12,
     <1>13, <1>14, <1>15 DEF MonitorNext

-----------------------------------------------------------------------------
(* Keystrokes.                                                              *)

MonitorInv == MonitorTyped /\ KeystrokesAreConserved

(* What has come or will come to the subscribers, what is still to be       *)
(* published, and what was typed.                                           *)
Passed   == heard \o OnTheWay
ToPass   == PayloadsOf(InTheHand \o pending)
AllTyped == PayloadsOf(typed)

LEMMA SaidAreTyped ==
    ASSUME MonitorTyped
    PROVE  /\ OnTheWay \in Seq(Spellings) /\ Passed \in Seq(Spellings)
           /\ InTheHand \in Seq(Event)
           /\ \A list \in Seq(Event) : PayloadsOf(list) \in Seq(Spellings)
           /\ AllTyped \in Seq(Spellings) /\ ToPass \in Seq(Spellings)
<1>1. OnTheWay \in Seq(Spellings)
  BY SaysAreTyped, SaidIsTyped, LenProperties DEF OnTheWay, MonitorTyped
<1>2. Passed \in Seq(Spellings)
  BY <1>1, ConcatProperties DEF Passed, MonitorTyped
<1>3. InTheHand \in Seq(Event)
  <2>1. <<>> \in Seq(Event) /\ <<now>> \in Seq(Event)
    BY EmptySeq DEF MonitorTyped
  <2> QED
    BY <2>1 DEF InTheHand
<1>4. \A list \in Seq(Event) : PayloadsOf(list) \in Seq(Spellings)
  BY SaysAreTyped, SaidIsTyped, LenProperties DEF PayloadsOf
<1>5. AllTyped \in Seq(Spellings)
  BY <1>4 DEF AllTyped, MonitorTyped
<1>6. InTheHand \o pending \in Seq(Event)
  BY <1>3, ConcatProperties DEF MonitorTyped
<1>7. ToPass \in Seq(Spellings)
  BY <1>4, <1>6 DEF ToPass
<1> QED
  BY <1>1, <1>2, <1>3, <1>4, <1>5, <1>7

(* The property in these words.                                             *)
LEMMA ConservedMeans ==
    KeystrokesAreConserved
    <=> (~refused => IF stage = "ended" THEN Lists!IsPrefix(Passed, AllTyped)
                     ELSE Passed \o ToPass = AllTyped)
  BY DEF KeystrokesAreConserved, Passed, ToPass, AllTyped

(* A text begins a longer one.                                              *)
LEMMA PartIsPrefix ==
    ASSUME NEW S, NEW s \in Seq(S), NEW t \in Seq(S)
    PROVE  Lists!IsPrefix(s, s \o t)
<1> DEFINE whole == s \o t
<1>1. /\ whole \in Seq(S) /\ Len(whole) = Len(s) + Len(t)
      /\ \A i \in 1..Len(s) + Len(t) :
            whole[i] = IF i <= Len(s) THEN s[i] ELSE t[i - Len(s)]
  BY ConcatProperties
<1>2. Len(s) \in Nat /\ Len(t) \in Nat
  BY LenProperties
<1> HIDE DEF whole
<1>3. Begins(s, whole)
  BY <1>1, <1>2 DEF Begins
<1>4. Lists!IsPrefix(s, whole)
  BY <1>1, <1>3, BeginsWith
<1> QED
  BY <1>4 DEF whole

(* What is said of one list after another.                                  *)
LEMMA PayloadsJoined ==
    \A s, t \in Seq(Event) : PayloadsOf(s \o t) = PayloadsOf(s) \o PayloadsOf(t)
<1>1. SaysIn(OfKeystrokes, Spellings)
  BY SaysAreTyped
<1> QED
  BY <1>1, SaidJoined DEF PayloadsOf

LEMMA MessagesJoined ==
    \A s, t \in Seq(Messages) :
        Said(s \o t, OfMessages) = Said(s, OfMessages) \o Said(t, OfMessages)
<1>1. SaysIn(OfMessages, Spellings)
  BY SaysAreTyped
<1> QED
  BY <1>1, SaidJoined

LEMMA WordsReassociate ==
    \A s, t, u \in Seq(Spellings) : (s \o t) \o u = s \o (t \o u)
  BY ConcatAssociative

LEMMA EventsReassociate ==
    \A s, t, u \in Seq(Event) : (s \o t) \o u = s \o (t \o u)
  BY ConcatAssociative

LEMMA MonitorInitially == MonitorInit => MonitorInv
<1> SUFFICES ASSUME MonitorInit PROVE KeystrokesAreConserved
  BY MonitorInitiallyTyped DEF MonitorInv
<1>1. /\ heard = <<>> /\ outbox = <<>> /\ typed = <<>> /\ pending = <<>>
      /\ stage = "starting"
  BY DEF MonitorInit
<1>2. InTheHand = <<>>
  BY <1>1 DEF InTheHand
<1>3. <<>> \o <<>> = <<>>
  OBVIOUS
<1>4. OnTheWay = <<>> /\ ToPass = <<>> /\ AllTyped = <<>>
  BY <1>1, <1>2, <1>3, SaidOfNothing DEF OnTheWay, ToPass, AllTyped, PayloadsOf
<1>5. Passed = <<>>
  BY <1>1, <1>3, <1>4 DEF Passed
<1>6. Passed \o ToPass = AllTyped
  BY <1>3, <1>4, <1>5
<1> QED
  BY <1>1, <1>6, ConservedMeans

(* A list with one item more is that list and the item after it.            *)
LEMMA LastItem ==
    ASSUME NEW S, NEW s \in Seq(S), NEW b \in S, NEW t \in Seq(S),
           Len(t) = Len(s) + 1, \A i \in 1..Len(s) : t[i] = s[i], t[Len(s) + 1] = b
    PROVE  t = s \o <<b>>
<1> DEFINE u == <<b>>
           n == Len(s)
           st == s \o u
<1>1. u \in Seq(S) /\ Len(u) = 1 /\ u[1] = b
  OBVIOUS
<1>2. n \in Nat
  BY LenProperties
<1> HIDE DEF u
<1>3. /\ st \in Seq(S) /\ Len(st) = n + Len(u)
      /\ \A i \in 1..(n + Len(u)) : st[i] = IF i <= n THEN s[i] ELSE u[i - n]
  BY <1>1, ConcatProperties, Zenon
<1>4. /\ st \in Seq(S) /\ Len(st) = n + 1
      /\ \A i \in 1..(n + 1) : st[i] = IF i <= n THEN s[i] ELSE u[i - n]
  BY <1>1, <1>3
<1> HIDE DEF st
<1>5. Len(t) = n + 1 /\ (\A i \in 1..n : t[i] = s[i]) /\ t[n + 1] = b
  OBVIOUS
<1> HIDE DEF n
<1>6. ASSUME NEW i \in 1..(n + 1) PROVE t[i] = st[i]
  <2>1. CASE i \in 1..n
    BY <1>2, <1>4, <1>5, <2>1
  <2>2. CASE i = n + 1
    <3>1. ~(i <= n) /\ i - n = 1
      BY <1>2, <2>2
    <3> QED
      BY <1>1, <1>4, <1>5, <2>2, <3>1
  <2> QED
    BY <1>2, <2>1, <2>2
<1>7. t = st
  BY <1>4, <1>5, <1>6, SeqEqual
<1> QED
  BY <1>7 DEF u, st

LEMMA TwoItems ==
    ASSUME NEW S, NEW a \in S, NEW b \in S
    PROVE  <<a, b>> = <<a>> \o <<b>>
<1> DEFINE s == <<a>>
           t == <<a, b>>
<1>1. /\ s \in Seq(S) /\ Len(s) = 1 /\ s[1] = a
      /\ t \in Seq(S) /\ Len(t) = 2 /\ t[1] = a /\ t[2] = b
  OBVIOUS
<1> HIDE DEF s, t
<1>2. /\ Len(t) = Len(s) + 1 /\ t[Len(s) + 1] = b
      /\ \A i \in 1..Len(s) : t[i] = s[i]
  BY <1>1
<1>3. t = s \o <<b>>
  BY <1>1, <1>2, LastItem
<1> QED
  BY <1>3 DEF s, t

LEMMA ThreeItems ==
    ASSUME NEW S, NEW a \in S, NEW b \in S, NEW c \in S
    PROVE  <<a, b, c>> = <<a, b>> \o <<c>>
<1> DEFINE s == <<a, b>>
           t == <<a, b, c>>
<1>1. /\ s \in Seq(S) /\ Len(s) = 2 /\ s[1] = a /\ s[2] = b
      /\ t \in Seq(S) /\ Len(t) = 3 /\ t[1] = a /\ t[2] = b /\ t[3] = c
  OBVIOUS
<1> HIDE DEF s, t
<1>2. Len(t) = Len(s) + 1 /\ t[Len(s) + 1] = c
  BY <1>1
<1>3. \A i \in 1..Len(s) : t[i] = s[i]
  BY <1>1
<1>4. t = s \o <<c>>
  BY <1>1, <1>2, <1>3, LastItem
<1> QED
  BY <1>4 DEF s, t

(* Messages none of which is on the action topic.                           *)
SaysNothing(msgs) == msgs \in Seq(Messages) /\ Said(msgs, OfMessages) = <<>>

LEMMA OneSaysNothing ==
    ASSUME NEW msg \in Messages, msg.topic # "action"
    PROVE  SaysNothing(<<msg>>)
<1>1. Said(<<msg>>, OfMessages) = <<>>
  BY MessageSaid
<1> QED
  BY <1>1 DEF SaysNothing

LEMMA TogetherSayNothing ==
    ASSUME NEW s, NEW t, SaysNothing(s), SaysNothing(t)
    PROVE  SaysNothing(s \o t)
<1>1. s \in Seq(Messages) /\ t \in Seq(Messages)
  BY DEF SaysNothing
<1>2. s \o t \in Seq(Messages)
  BY <1>1, ConcatProperties
<1>3. Said(s \o t, OfMessages) = Said(s, OfMessages) \o Said(t, OfMessages)
  BY <1>1, MessagesJoined
<1>4. <<>> \o <<>> = <<>>
  OBVIOUS
<1> QED
  BY <1>2, <1>3, <1>4 DEF SaysNothing

(* What the handlers of a key, a switch and a removal publish.              *)
LEMMA HandlersSayNothing ==
    ASSUME NEW codes \in SUBSET Codes
    PROVE  /\ SaysNothing(<<Enabled>>)
           /\ SaysNothing(<<Info, Discovery(codes)>>)
           /\ SaysNothing(<<Info, Enabled, Discovery(codes)>>)
<1> DEFINE info == <<Info>>
           enabled == <<Enabled>>
           discovery == <<Discovery(codes)>>
           both == <<Info, Enabled>>
<1>1. Info \in Messages /\ Enabled \in Messages /\ Discovery(codes) \in Messages
  BY DEF Messages
<1>2. Info.topic # "action" /\ Enabled.topic # "action" /\ Discovery(codes).topic # "action"
  BY DEF Info, Enabled, Discovery
<1>3. SaysNothing(info) /\ SaysNothing(enabled) /\ SaysNothing(discovery)
  BY <1>1, <1>2, OneSaysNothing
<1>4. /\ <<Info, Discovery(codes)>> = info \o discovery
      /\ both = info \o enabled
  BY <1>1, TwoItems
<1>5. <<Info, Enabled, Discovery(codes)>> = both \o discovery
  BY <1>1, ThreeItems
<1> HIDE DEF info, enabled, discovery, both
<1>6. SaysNothing(info \o discovery) /\ SaysNothing(info \o enabled)
  BY <1>3, TogetherSayNothing
<1>7. SaysNothing(both \o discovery)
  BY <1>3, <1>4, <1>6, TogetherSayNothing
<1> QED
  BY <1>3, <1>4, <1>5, <1>6, <1>7 DEF enabled

(* Publishing nothing on the action topic leaves what is said there.        *)
LEMMA PublishConserves ==
    ASSUME MonitorTyped, ~refused, NEW msgs, SaysNothing(msgs), Publish(msgs)
    PROVE  OnTheWay' = OnTheWay
<1>1. outbox' = outbox \o msgs
  BY DEF Publish
<1>2. outbox \in Seq(Messages) /\ msgs \in Seq(Messages)
  BY DEF MonitorTyped, SaysNothing
<1>3. Said(outbox', OfMessages) = OnTheWay \o <<>>
  BY <1>1, <1>2, MessagesJoined DEF OnTheWay, SaysNothing
<1>4. OnTheWay \o <<>> = OnTheWay
  BY SaidAreTyped, ConcatEmptySeq
<1> QED
  BY <1>3, <1>4 DEF OnTheWay

(* A step that leaves the words as they are, or ends the session.           *)
LEMMA NothingMoves ==
    ASSUME MonitorInv, refused' = refused,
           UNCHANGED <<stage, now, pending, typed, heard>>,
           ~refused => OnTheWay' = OnTheWay
    PROVE  KeystrokesAreConserved'
<1>1. UNCHANGED <<InTheHand, ToPass, AllTyped, stage>>
  BY DEF InTheHand, ToPass, AllTyped
<1>2. CASE refused
  BY <1>2, ConservedMeans DEF KeystrokesAreConserved
<1>3. CASE ~refused
  <2>1. Passed' = Passed
    BY <1>3 DEF Passed
  <2>2. IF stage = "ended" THEN Lists!IsPrefix(Passed, AllTyped)
        ELSE Passed \o ToPass = AllTyped
    BY <1>3, ConservedMeans DEF MonitorInv
  <2>3. IF stage' = "ended" THEN Lists!IsPrefix(Passed', AllTyped')
        ELSE Passed' \o ToPass' = AllTyped'
    BY <1>1, <2>1, <2>2
  <2> QED
    BY <2>3 DEF KeystrokesAreConserved, Passed, ToPass, AllTyped
<1> QED
  BY <1>2, <1>3

LEMMA EndsConserves ==
    ASSUME MonitorInv, stage # "ended", NEW msgs, Ends(msgs)
    PROVE  KeystrokesAreConserved'
<1>1. UNCHANGED <<typed, outbox, refused, heard>> /\ stage' = "ended"
  BY DEF Ends, brokerVars
<1>2. UNCHANGED <<Passed, AllTyped>>
  BY <1>1 DEF Passed, AllTyped, OnTheWay
<1>3. CASE refused
  BY <1>1, <1>3 DEF KeystrokesAreConserved
<1>4. CASE ~refused
  <2>1. Passed \o ToPass = AllTyped
    BY <1>4, ConservedMeans DEF MonitorInv
  <2>2. Passed \in Seq(Spellings) /\ ToPass \in Seq(Spellings)
    BY SaidAreTyped DEF MonitorInv
  <2>3. Lists!IsPrefix(Passed, AllTyped)
    BY <2>1, <2>2, PartIsPrefix
  <2>4. Lists!IsPrefix(Passed', AllTyped')
    BY <1>2, <2>3
  <2> QED
    BY <1>1, <2>4 DEF KeystrokesAreConserved, Passed, AllTyped
<1> QED
  BY <1>3, <1>4

(* To show the property of the next state.                                  *)
LEMMA ConservedNext ==
    ASSUME stage' # "ended", Passed' \o ToPass' = AllTyped'
    PROVE  KeystrokesAreConserved'
  BY DEF KeystrokesAreConserved, Passed, ToPass, AllTyped

LEMMA NothingInTheHand ==
    ASSUME MonitorTyped
    PROVE  <<>> \o pending = pending
  BY ConcatEmptySeq DEF MonitorTyped

LEMMA ReadConserves ==
    ASSUME MonitorInv, ReadEvent
    PROVE  KeystrokesAreConserved'
<1>0. /\ UNCHANGED <<refused, heard, outbox, typed>>
      /\ stage = "reading" /\ pending # <<>> /\ pending' = Tail(pending)
  BY DEF ReadEvent, brokerVars
<1>1. CASE refused
  BY <1>0, <1>1 DEF KeystrokesAreConserved
<1>2. CASE ~refused
  <2> DEFINE event == Head(pending)
             one   == <<event>>
             rest  == Tail(pending)
  <2>1. pending \in Seq(Event) /\ MonitorTyped
    BY DEF MonitorInv, MonitorTyped
  <2>2. event \in Event /\ rest \in Seq(Event)
    BY <1>0, <2>1, HeadTailProperties
  <2>3. PayloadsOf(pending) = PayloadsOf(one) \o PayloadsOf(rest)
    BY <1>0, <2>1, SaysAreTyped, SaidOfRest DEF PayloadsOf
  <2>4. Passed \o PayloadsOf(pending) = AllTyped
    <3>1. InTheHand = <<>>
      BY <1>0 DEF InTheHand
    <3>2. ToPass = PayloadsOf(pending)
      BY <2>1, <3>1, NothingInTheHand DEF ToPass
    <3> QED
      BY <1>0, <1>2, <3>2, ConservedMeans DEF MonitorInv
  <2>5. UNCHANGED <<Passed, AllTyped>>
    BY <1>0 DEF Passed, AllTyped, OnTheWay
  <2>6. event # NonKey /\ evdev_value_to_action(event.value) # "none" <=> IsKeystroke(event)
    BY <2>2, Keystroke
  <2>7. one \in Seq(Event)
    BY <2>2
  <2>8. ToPass' = PayloadsOf(pending)
    <3>1. CASE IsKeystroke(event)
      <4>1. stage' = "publishing" /\ now' = event
        BY <2>6, <3>1 DEF ReadEvent
      <4>2. InTheHand' = one
        BY <4>1 DEF InTheHand
      <4> HIDE DEF one, rest
      <4>3. PayloadsOf(one \o rest) = PayloadsOf(one) \o PayloadsOf(rest)
        BY <2>2, <2>7, PayloadsJoined
      <4> QED
        BY <1>0, <2>3, <4>2, <4>3 DEF ToPass, rest
    <3>2. CASE ~IsKeystroke(event)
      <4>1. stage' = "reading"
        BY <1>0, <2>6, <3>2 DEF ReadEvent
      <4>2. InTheHand' = <<>>
        BY <4>1 DEF InTheHand
      <4>3. PayloadsOf(one) = <<>>
        BY <2>2, <3>2, EventSaid DEF PayloadsOf
      <4>4. PayloadsOf(rest) \in Seq(Spellings)
        BY <2>1, <2>2, SaidAreTyped
      <4>5. <<>> \o PayloadsOf(rest) = PayloadsOf(rest)
        BY <4>4, ConcatEmptySeq
      <4>6. <<>> \o rest = rest
        BY <2>2, ConcatEmptySeq
      <4> QED
        BY <1>0, <2>3, <4>2, <4>3, <4>5, <4>6 DEF ToPass
    <3> QED
      BY <3>1, <3>2
  <2>9. stage' # "ended"
    BY <1>0 DEF ReadEvent
  <2> QED
    BY <2>4, <2>5, <2>8, <2>9, ConservedNext
<1> QED
  BY <1>1, <1>2

LEMMA PublishingConserves ==
    ASSUME MonitorInv, PublishesAction
    PROVE  KeystrokesAreConserved'
<1>0. /\ UNCHANGED <<refused, heard, pending, typed>>
      /\ stage = "publishing" /\ stage' = "reporting"
  BY DEF PublishesAction, brokerVars, deviceVars
<1>1. CASE refused
  BY <1>0, <1>1 DEF KeystrokesAreConserved
<1>2. CASE ~refused
  <2> DEFINE word == Published(now)
             says == <<word>>
             msg  == Action(word)
             msgs == <<msg>>
             hand == <<now>>
  <2>1. MonitorTyped /\ now \in Event /\ IsKeystroke(now)
    BY <1>0 DEF MonitorInv, MonitorTyped
  <2>2. pending \in Seq(Event) /\ hand \in Seq(Event) /\ outbox \in Seq(Messages)
    BY <2>1 DEF MonitorTyped
  <2>3. word \in Spellings
    BY <2>1, KeystrokeIsPublished
  <2>4. msg \in Messages /\ msg.topic = "action" /\ msg.body = word
    BY <2>3 DEF Messages, Action
  <2>5. outbox' = outbox \o msgs
    BY <1>2 DEF PublishesAction, Publish
  <2>6. Said(msgs, OfMessages) = says
    BY <2>4, MessageSaid
  <2>7. PayloadsOf(hand) = says
    BY <2>1, EventSaid DEF PayloadsOf
  <2>8. msgs \in Seq(Messages) /\ says \in Seq(Spellings)
    BY <2>3, <2>4
  <2> HIDE DEF word, says, msg, msgs, hand
  <2>9. OnTheWay' = OnTheWay \o says
    BY <2>2, <2>5, <2>6, <2>8, MessagesJoined DEF OnTheWay
  <2>10. /\ heard \in Seq(Spellings) /\ OnTheWay \in Seq(Spellings)
         /\ Passed \in Seq(Spellings) /\ PayloadsOf(pending) \in Seq(Spellings)
    BY <2>1, <2>2, SaidAreTyped DEF MonitorTyped
  <2>11. Passed' = Passed \o says
    <3>1. heard \o (OnTheWay \o says) = (heard \o OnTheWay) \o says
      BY <2>8, <2>10, WordsReassociate
    <3> QED
      BY <1>0, <2>9, <3>1 DEF Passed
  <2>12. Passed \o (says \o PayloadsOf(pending)) = AllTyped
    <3>1. InTheHand = hand
      BY <1>0 DEF InTheHand, hand
    <3>2. ToPass = says \o PayloadsOf(pending)
      BY <2>2, <2>7, <3>1, PayloadsJoined DEF ToPass
    <3> QED
      BY <1>0, <1>2, <3>2, ConservedMeans DEF MonitorInv
  <2>13. (Passed \o says) \o PayloadsOf(pending) = AllTyped
    BY <2>8, <2>10, <2>12, WordsReassociate
  <2>14. ToPass' = PayloadsOf(pending)
    <3>1. InTheHand' = <<>>
      BY <1>0 DEF InTheHand
    <3> QED
      BY <1>0, <2>1, <3>1, NothingInTheHand DEF ToPass
  <2>15. AllTyped' = AllTyped
    BY <1>0 DEF AllTyped
  <2> QED
    BY <1>0, <2>11, <2>13, <2>14, <2>15, ConservedNext
<1> QED
  BY <1>1, <1>2

LEMMA EmitConserves ==
    ASSUME MonitorInv, NEW event \in Event, Emit(event)
    PROVE  KeystrokesAreConserved'
<1>0. /\ UNCHANGED <<refused, heard, outbox, stage, now>>
      /\ stage # "ended" /\ pending' = Append(pending, event)
      /\ typed' = IF IsKeystroke(event) THEN Append(typed, event) ELSE typed
  BY DEF Emit, brokerVars, taskVars
<1>1. CASE refused
  BY <1>0, <1>1 DEF KeystrokesAreConserved
<1>2. CASE ~refused
  <2> DEFINE one   == <<event>>
             word  == PayloadsOf(one)
             ahead == InTheHand \o pending
  <2>1. MonitorTyped /\ pending \in Seq(Event) /\ typed \in Seq(Event) /\ one \in Seq(Event)
    BY DEF MonitorInv, MonitorTyped
  <2>2. InTheHand \in Seq(Event)
    BY <2>1, SaidAreTyped
  <2>3. ahead \in Seq(Event)
    BY <2>1, <2>2, ConcatProperties
  <2>4. word \in Seq(Spellings)
    BY <2>1, SaidAreTyped
  <2>5. pending' = pending \o one
    BY <1>0, <2>1, AppendIsConcat
  <2>6. InTheHand' = InTheHand
    BY <1>0 DEF InTheHand
  <2>7. PayloadsOf(typed') = PayloadsOf(typed) \o word
    <3>1. CASE IsKeystroke(event)
      <4>1. typed' = typed \o one
        BY <1>0, <2>1, <3>1, AppendIsConcat
      <4> HIDE DEF one
      <4> QED
        BY <2>1, <4>1, PayloadsJoined
    <3>2. CASE ~IsKeystroke(event)
      <4>1. word = <<>>
        BY <3>2, EventSaid DEF PayloadsOf
      <4>2. PayloadsOf(typed) \in Seq(Spellings)
        BY <2>1, SaidAreTyped
      <4>3. PayloadsOf(typed) \o <<>> = PayloadsOf(typed)
        BY <4>2, ConcatEmptySeq
      <4> QED
        BY <1>0, <3>2, <4>1, <4>3
    <3> QED
      BY <3>1, <3>2
  <2> HIDE DEF one
  <2>8. InTheHand' \o pending' = ahead \o one
    BY <2>1, <2>2, <2>5, <2>6, EventsReassociate
  <2>9. ToPass' = PayloadsOf(ahead \o one)
    BY <2>8 DEF ToPass
  <2> HIDE DEF ahead
  <2>10. ToPass' = PayloadsOf(ahead) \o word
    BY <2>1, <2>3, <2>9, PayloadsJoined
  <2>11. ToPass = PayloadsOf(ahead)
    BY DEF ToPass, ahead
  <2> HIDE DEF word
  <2>12. Passed \in Seq(Spellings) /\ ToPass \in Seq(Spellings)
    BY <2>1, SaidAreTyped
  <2>13. Passed \o ToPass = AllTyped
    BY <1>0, <1>2, ConservedMeans DEF MonitorInv
  <2>14. Passed \o (ToPass \o word) = AllTyped \o word
    BY <2>4, <2>12, <2>13, WordsReassociate
  <2>15. Passed' = Passed
    BY <1>0 DEF Passed, OnTheWay
  <2>16. AllTyped' = AllTyped \o word
    BY <2>7 DEF AllTyped
  <2> QED
    BY <1>0, <2>10, <2>11, <2>14, <2>15, <2>16, ConservedNext
<1> QED
  BY <1>1, <1>2

LEMMA TransmitConserves ==
    ASSUME MonitorInv, Transmit
    PROVE  KeystrokesAreConserved'
<1>0. /\ UNCHANGED <<refused, stage, now, pending, typed>>
      /\ outbox # <<>> /\ outbox' = Tail(outbox)
  BY DEF Transmit, deviceVars, taskVars
<1> DEFINE msg  == Head(outbox)
           one  == <<msg>>
           rest == Said(Tail(outbox), OfMessages)
<1>1. MonitorTyped /\ outbox \in Seq(Messages) /\ heard \in Seq(Spellings)
  BY DEF MonitorInv, MonitorTyped
<1>2. /\ msg \in Messages /\ rest \in Seq(Spellings)
      /\ OnTheWay = Said(one, OfMessages) \o rest
  BY <1>0, <1>1, SaysAreTyped, SaidOfRest DEF OnTheWay
<1>3. OnTheWay' = rest
  BY <1>0 DEF OnTheWay
<1>4. heard' = IF msg.topic = "action" THEN Append(heard, msg.body) ELSE heard
  BY DEF Transmit
<1>5. /\ msg.topic = "action" => msg.body \in Spellings
      /\ Said(one, OfMessages) = IF msg.topic = "action" THEN <<msg.body>> ELSE <<>>
  BY <1>2, MessageSaid
<1> HIDE DEF msg, one, rest
<1>6. Passed' = Passed
  <2>1. CASE msg.topic = "action"
    <3> DEFINE word == <<msg.body>>
    <3>1. word \in Seq(Spellings) /\ heard' = Append(heard, msg.body) /\ OnTheWay = word \o rest
      BY <1>2, <1>4, <1>5, <2>1
    <3>2. heard' = heard \o word
      BY <1>1, <1>5, <2>1, <3>1, AppendIsConcat
    <3> HIDE DEF word
    <3>3. (heard \o word) \o rest = heard \o (word \o rest)
      BY <1>1, <1>2, <3>1, WordsReassociate
    <3> QED
      BY <1>3, <3>1, <3>2, <3>3 DEF Passed
  <2>2. CASE msg.topic # "action"
    <3>1. heard' = heard /\ OnTheWay = <<>> \o rest
      BY <1>2, <1>4, <1>5, <2>2
    <3>2. <<>> \o rest = rest
      BY <1>2, ConcatEmptySeq
    <3> QED
      BY <1>3, <3>1, <3>2 DEF Passed
  <2> QED
    BY <2>1, <2>2
<1>7. UNCHANGED <<ToPass, AllTyped>>
  BY <1>0 DEF ToPass, AllTyped, InTheHand
<1>8. ~refused => IF stage = "ended" THEN Lists!IsPrefix(Passed, AllTyped)
                  ELSE Passed \o ToPass = AllTyped
  BY ConservedMeans DEF MonitorInv
<1>9. ~refused' => IF stage' = "ended" THEN Lists!IsPrefix(Passed', AllTyped')
                   ELSE Passed' \o ToPass' = AllTyped'
  BY <1>0, <1>6, <1>7, <1>8
<1> QED
  BY <1>9 DEF KeystrokesAreConserved, Passed, ToPass, AllTyped

LEMMA MonitorStep == MonitorInv /\ [MonitorNext]_monitorVars => MonitorInv'
<1> SUFFICES ASSUME MonitorInv, [MonitorNext]_monitorVars PROVE KeystrokesAreConserved'
  BY MonitorStepTyped DEF MonitorInv
<1> USE DEF taskVars, deviceVars, recordVars, brokerVars
<1>0. MonitorTyped
  BY DEF MonitorInv
<1>1. CASE Opens \/ ReportsKey
  <2>1. /\ UNCHANGED <<refused, heard, outbox, pending, typed>>
        /\ stage \notin {"publishing", "ended"} /\ stage' = "reading"
    BY <1>1 DEF Opens, ReportsKey
  <2>2. InTheHand = <<>> /\ InTheHand' = <<>>
    BY <2>1 DEF InTheHand
  <2>3. UNCHANGED <<Passed, ToPass, AllTyped>>
    BY <2>1, <2>2 DEF Passed, ToPass, AllTyped, OnTheWay
  <2>4. ~refused => Passed \o ToPass = AllTyped
    BY <2>1, ConservedMeans DEF MonitorInv
  <2>5. CASE refused
    BY <2>1, <2>5 DEF KeystrokesAreConserved
  <2>6. CASE ~refused
    BY <2>1, <2>3, <2>4, <2>6, ConservedNext
  <2> QED
    BY <2>5, <2>6
<1>2. CASE OpenFails \/ StreamFails \/ Stops \/ IsAborted
  BY <1>2, EndsConserves DEF OpenFails, StreamFails, Stops, IsAborted
<1>3. CASE ReadEvent
  BY <1>3, ReadConserves
<1>4. CASE PublishesAction
  BY <1>4, PublishingConserves
<1>5. CASE OnKey
  <2>1. /\ UNCHANGED <<refused, stage, now, pending, typed, heard>>
        /\ Publish(<<Info, Discovery(keys')>>)
    BY <1>5 DEF OnKey
  <2>2. keys' \in SUBSET Codes
    BY MonitorStepTyped DEF MonitorInv, MonitorTyped
  <2>3. SaysNothing(<<Info, Discovery(keys')>>)
    BY <2>2, HandlersSayNothing
  <2>4. ~refused => OnTheWay' = OnTheWay
    BY <1>0, <2>1, <2>3, PublishConserves
  <2> QED
    BY <2>1, <2>4, NothingMoves
<1>6. CASE OnOff \/ OnRemove
  <2>1. UNCHANGED <<refused, stage, now, pending, typed, heard>>
    BY <1>6 DEF OnOff, OnRemove
  <2>2. Publish(<<Enabled>>) \/ Publish(<<Info, Enabled, Discovery({})>>)
    BY <1>6 DEF OnOff, OnRemove
  <2>3. SaysNothing(<<Enabled>>) /\ SaysNothing(<<Info, Enabled, Discovery({})>>)
    BY HandlersSayNothing
  <2>4. ~refused => OnTheWay' = OnTheWay
    BY <1>0, <2>2, <2>3, PublishConserves
  <2> QED
    BY <2>1, <2>4, NothingMoves
<1>7. CASE OnKeyIgnored \/ OnDisconnected \/ Unplug \/ UNCHANGED monitorVars
  <2>1. UNCHANGED <<refused, stage, now, pending, typed, heard, outbox>>
    BY <1>7 DEF OnKeyIgnored, OnDisconnected, Unplug, monitorVars
  <2>2. OnTheWay' = OnTheWay
    BY <2>1 DEF OnTheWay
  <2> QED
    BY <2>1, <2>2, NothingMoves
<1>8. ASSUME NEW event \in Event, Emit(event) PROVE KeystrokesAreConserved'
  BY <1>8, EmitConserves
<1>9. CASE Transmit
  BY <1>9, TransmitConserves
<1>10. CASE EventLoopEnds
  <2>1. refused'
    BY <1>10 DEF EventLoopEnds
  <2> QED
    BY <2>1 DEF KeystrokesAreConserved
<1> QED
  BY <1>1, <1>2, <1>3, <1>4, <1>5, <1>6, <1>7, <1>8, <1>9, <1>10 DEF MonitorNext

LEMMA MonitorAlways == MonitorSpec => []MonitorInv
<1>1. MonitorInit => MonitorInv
  BY MonitorInitially
<1>2. MonitorInv /\ [MonitorNext]_monitorVars => MonitorInv'
  BY MonitorStep
<1> QED
  BY <1>1, <1>2, PTL DEF MonitorSpec

(* Every value is of its type, only keystrokes are published, and the       *)
(* request channel never holds more than its capacity (`run_device`,        *)
(* monitor.rs, and the channel of mqtt.rs).                                 *)
THEOREM MonitorIsTyped == MonitorSpec => []MonitorTypeOK
<1>1. MonitorInv => MonitorTypeOK
  BY DEF MonitorInv, MonitorTyped, MonitorTypeOK, Stages, IsKeystroke
<1> QED
  BY <1>1, MonitorAlways, PTL

(* No keystroke is lost, made up, doubled or overtaken between the device   *)
(* and the subscribers while the session and the monitor live; a monitor    *)
(* that ends has passed on a beginning of what was typed                    *)
(* (`handle_key_event`, monitor.rs).                                        *)
THEOREM MonitorConservesKeystrokes == MonitorSpec => []KeystrokesAreConserved
<1>1. MonitorInv => KeystrokesAreConserved
  BY DEF MonitorInv
<1> QED
  BY <1>1, MonitorAlways, PTL
=============================================================================
