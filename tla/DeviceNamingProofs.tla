------------------------- MODULE DeviceNamingProofs -------------------------
(* What TLAPS proves about names: whatever a device is called, slugify      *)
(* makes a slug of it; the records keep slugs; and the topics made of the   *)
(* slugs of two records differ, lead back to the record they were made for, *)
(* and are not one of the daemon's own.  And what it proves about           *)
(* fingerprints: two collections with the same one are alike.               *)
EXTENDS DeviceNaming, DeviceDbProofs

-----------------------------------------------------------------------------
(* Counting.  The induction theorems of the library take an operator; these *)
(* lemmas take a set and a function.                                        *)

(* What holds of 0, and of a number's successor with the number, holds of   *)
(* every number up to N.                                                    *)
LEMMA Counting ==
    ASSUME NEW N \in Nat, NEW P, 0 \in P,
           \A n \in 0..(N - 1) : n \in P => n + 1 \in P
    PROVE  \A n \in 0..N : n \in P
<1> DEFINE Missing == {n \in 0..N : n \notin P}
<1> SUFFICES ASSUME Missing # {} PROVE FALSE
  OBVIOUS
<1>1. Missing \in SUBSET Nat
  OBVIOUS
<1>2. PICK k \in Missing : \A m \in Missing : k <= m
  BY <1>1, LeastNumber
<1>3. k \in 0..N /\ k # 0 /\ k \notin P
  BY <1>2
<1>4. k - 1 \in 0..(N - 1) /\ (k - 1) + 1 = k
  BY <1>3
<1>5. k - 1 \in P
  BY <1>2, <1>4
<1>6. (k - 1) + 1 \in P
  BY <1>4, <1>5
<1> QED
  BY <1>3, <1>4, <1>6

(* A list of values, each made of the one before it, exists.                *)
IsBuilt(f, N, base, step) ==
    f[0] = base /\ \A n \in 1..N : f[n] = step[<<f[n - 1], n>>]

LEMMA Recursion ==
    ASSUME NEW N \in Nat, NEW S, NEW base \in S, NEW step \in [S \X (1..N) -> S]
    PROVE  \E f \in [0..N -> S] : IsBuilt(f, N, base, step)
<1> DEFINE P == {n \in 0..N : \E f \in [0..n -> S] : IsBuilt(f, n, base, step)}
<1>1. 0 \in P
  <2> DEFINE g == [m \in 0..0 |-> base]
  <2>1. g \in [0..0 -> S] /\ IsBuilt(g, 0, base, step)
    BY DEF IsBuilt
  <2>2. 0 \in 0..N
    OBVIOUS
  <2> HIDE DEF g
  <2> QED
    BY <2>1, <2>2
<1>2. ASSUME NEW n \in 0..(N - 1), n \in P PROVE n + 1 \in P
  <2>0. n \in Nat /\ n + 1 \in 1..N /\ n + 1 \in 0..N
    OBVIOUS
  <2>1. PICK f \in [0..n -> S] : IsBuilt(f, n, base, step)
    BY <1>2
  <2> DEFINE g == [m \in 0..(n + 1) |-> IF m = n + 1 THEN step[<<f[n], n + 1>>] ELSE f[m]]
  <2>2. g \in [0..(n + 1) -> S]
    BY <2>0, <2>1
  <2>3. g[0] = base
    BY <2>0, <2>1 DEF IsBuilt
  <2>4. ASSUME NEW m \in 1..(n + 1) PROVE g[m] = step[<<g[m - 1], m>>]
    <3>1. g[m - 1] = f[m - 1]
      BY <2>0
    <3>2. CASE m = n + 1
      BY <2>0, <3>1, <3>2
    <3>3. CASE m # n + 1
      <4>1. m \in 1..n /\ g[m] = f[m]
        BY <2>0, <3>3
      <4> QED
        BY <2>1, <3>1, <4>1 DEF IsBuilt
    <3> QED
      BY <3>2, <3>3
  <2> HIDE DEF g
  <2>5. IsBuilt(g, n + 1, base, step)
    BY <2>3, <2>4 DEF IsBuilt
  <2> QED
    BY <2>0, <2>2, <2>5
<1>3. N \in P
  <2> HIDE DEF P
  <2>1. \A n \in 0..N : n \in P
    BY <1>1, <1>2, Counting
  <2> QED
    BY <2>1
<1> QED
  BY <1>3

-----------------------------------------------------------------------------
(* Slugs.                                                                   *)

Letters == LowerWords \cup {"-"}

(* What slugify has made of the first tokens of a text.                     *)
IsKept(text) ==
    /\ text \in Seq(Letters)
    /\ text # <<>> => text[1] # "-"
    /\ \A i \in 2..Len(text) : text[i] = "-" => text[i - 1] # "-"

(* One token more.                                                          *)
LEMMA KeepTokenKeeps ==
    ASSUME NEW out, IsKept(out), NEW token
    PROVE  IsKept(KeepToken(out, token))
<1>0. out \in Seq(Letters) /\ Len(out) \in Nat /\ (out # <<>> => Len(out) \in Nat \ {0})
  BY LenProperties, EmptySeq DEF IsKept
<1>1. ASSUME NEW e \in Letters, e = "-" => out # <<>> /\ out[Len(out)] # "-"
      PROVE  IsKept(Append(out, e))
  <2> DEFINE new == Append(out, e)
  <2>1. /\ new \in Seq(Letters) /\ Len(new) = Len(out) + 1
        /\ \A i \in 1..Len(out) : new[i] = out[i]
        /\ new[Len(out) + 1] = e
    BY <1>0, AppendProperties
  <2> HIDE DEF new
  <2>2. new[1] # "-"
    <3>1. CASE out = <<>>
      BY <1>1, <2>1, <3>1
    <3>2. CASE out # <<>>
      BY <1>0, <2>1, <3>2 DEF IsKept
    <3> QED
      BY <3>1, <3>2
  <2>3. ASSUME NEW i \in 2..Len(new), new[i] = "-" PROVE new[i - 1] # "-"
    <3>1. CASE i = Len(out) + 1
      BY <1>0, <1>1, <2>1, <2>3, <3>1
    <3>2. CASE i # Len(out) + 1
      <4>1. i \in 2..Len(out) /\ i - 1 \in 1..Len(out) /\ i \in 1..Len(out)
        BY <1>0, <2>1, <3>2
      <4> QED
        BY <2>1, <2>3, <4>1 DEF IsKept
    <3> QED
      BY <3>1, <3>2
  <2> QED
    BY <2>1, <2>2, <2>3 DEF IsKept, new
<1>2. CASE token \in DOMAIN Lower
  <2>1. Lower[token] \in Letters /\ Lower[token] # "-"
    BY <1>2, WordsAssumption DEF Letters, LowerWords
  <2>2. KeepToken(out, token) = Append(out, Lower[token])
    BY <1>2 DEF KeepToken
  <2> QED
    BY <1>1, <2>1, <2>2
<1>3. CASE token \notin DOMAIN Lower /\ out # <<>> /\ Lists!Last(out) # "-"
  <2>1. KeepToken(out, token) = Append(out, "-")
    BY <1>3 DEF KeepToken
  <2>2. "-" \in Letters
    BY DEF Letters
  <2>3. out[Len(out)] # "-"
    BY <1>3 DEF Lists!Last
  <2> QED
    BY <1>1, <1>3, <2>1, <2>2, <2>3
<1>4. CASE /\ ~(token \in DOMAIN Lower)
           /\ ~(token \notin DOMAIN Lower /\ out # <<>> /\ Lists!Last(out) # "-")
  <2>1. KeepToken(out, token) = out
    BY <1>4 DEF KeepToken
  <2> QED
    BY <2>1
<1> QED
  BY <1>2, <1>3, <1>4

(* slugify makes a slug of every text (`slugify`, slug.rs): words with      *)
(* single hyphens between them, `unknown` if there is no word.              *)
LEMMA SlugifyMakesSlugs ==
    ASSUME NEW text, Len(text) \in Nat
    PROVE  IsSlug(slugify(text))
<1> DEFINE N == Len(text)
           Kept == {out \in Seq(Letters) : IsKept(out)}
           step == [p \in Kept \X (1..N) |-> KeepToken(p[1], text[p[2]])]
           IsRun(h) == h = [n \in 0..N |->
                               IF n = 0 THEN <<>> ELSE KeepToken(h[n - 1], text[n])]
<1>1. <<>> \in Kept
  BY EmptySeq DEF IsKept
<1>2. \A x \in Kept : \A t : KeepToken(x, t) \in Kept
  BY KeepTokenKeeps DEF IsKept
<1>3. \A x \in Kept, n \in 1..N : step[<<x, n>>] = KeepToken(x, text[n])
  OBVIOUS
<1>4. step \in [Kept \X (1..N) -> Kept]
  BY <1>2
<1> HIDE DEF Kept, step
<1>5. PICK g \in [0..N -> Kept] : IsBuilt(g, N, <<>>, step)
  BY <1>1, <1>4, Recursion, Zenon
<1>6. \A n \in 0..N : g[n] = IF n = 0 THEN <<>> ELSE KeepToken(g[n - 1], text[n])
  <2>1. \A n \in 1..N : n - 1 \in 0..N /\ g[n - 1] \in Kept
    BY <1>5
  <2>2. \A n \in 1..N : g[n] = KeepToken(g[n - 1], text[n])
    BY <1>3, <1>5, <2>1 DEF IsBuilt
  <2>3. \A n \in 0..N : n = 0 \/ n \in 1..N
    OBVIOUS
  <2> QED
    BY <1>5, <2>2, <2>3 DEF IsBuilt
<1>7. IsRun(g)
  BY <1>5, <1>6
<1>8. \E h : IsRun(h)
           /\ slugify(text) =
                LET kept    == h[N]
                    trimmed == IF kept # <<>> /\ Lists!Last(kept) = "-"
                               THEN Lists!Front(kept) ELSE kept
                IN  IF trimmed = <<>> THEN <<"unknown">> ELSE trimmed
  BY <1>7, Zenon DEF slugify
<1> HIDE DEF IsRun
<1>9. PICK h : IsRun(h)
           /\ slugify(text) =
                LET kept    == h[N]
                    trimmed == IF kept # <<>> /\ Lists!Last(kept) = "-"
                               THEN Lists!Front(kept) ELSE kept
                IN  IF trimmed = <<>> THEN <<"unknown">> ELSE trimmed
  BY <1>8
<1>10. h[N] \in Kept
  <2> DEFINE P == {n \in 0..N : h[n] \in Kept}
  <2>0. \A n \in 0..N : h[n] = IF n = 0 THEN <<>> ELSE KeepToken(h[n - 1], text[n])
    BY <1>9, Zenon DEF IsRun
  <2>1. 0 \in P
    BY <1>1, <2>0
  <2>2. ASSUME NEW n \in 0..(N - 1), n \in P PROVE n + 1 \in P
    <3>1. n + 1 \in 0..N /\ n + 1 # 0 /\ (n + 1) - 1 = n
      OBVIOUS
    <3>2. h[n + 1] = KeepToken(h[n], text[n + 1])
      BY <2>0, <3>1
    <3> QED
      BY <1>2, <2>2, <3>1, <3>2
  <2>3. N \in P
    <3> HIDE DEF P
    <3>1. \A n \in 0..N : n \in P
      BY <2>1, <2>2, Counting
    <3> QED
      BY <3>1
  <2> QED
    BY <2>3
<1> DEFINE kept    == h[N]
           trimmed == IF kept # <<>> /\ Lists!Last(kept) = "-" THEN Lists!Front(kept) ELSE kept
<1>11. IsKept(kept)
  BY <1>10 DEF Kept
<1>12. slugify(text) = IF trimmed = <<>> THEN <<"unknown">> ELSE trimmed
  BY <1>9
<1> HIDE DEF kept
<1>13. IsKept(trimmed) /\ (trimmed # <<>> => trimmed[Len(trimmed)] # "-")
  <2>0. kept \in Seq(Letters) /\ Len(kept) \in Nat /\ (kept # <<>> => Len(kept) \in Nat \ {0})
    BY <1>11, LenProperties, EmptySeq DEF IsKept
  <2>1. CASE kept # <<>> /\ Lists!Last(kept) = "-"
    <3> DEFINE cut == SubSeq(kept, 1, Len(kept) - 1)
    <3>1. trimmed = cut
      BY <2>1 DEF Lists!Front
    <3>2. \A i \in 1..(Len(kept) - 1) : kept[i] \in Letters
      BY <2>0, ElementOfSeq
    <3>3. /\ cut \in Seq(Letters)
          /\ Len(cut) = Len(kept) - 1
          /\ \A i \in 1..(Len(kept) - 1) : cut[i] = kept[i]
      BY <2>0, <2>1, <3>2, SubSeqProperties
    <3> HIDE DEF cut
    <3>4. kept[Len(kept)] = "-"
      BY <2>1 DEF Lists!Last
    <3>5. IsKept(cut)
      <4>1. cut # <<>> => cut[1] # "-"
        BY <1>11, <2>0, <2>1, <3>3, EmptySeq DEF IsKept
      <4>2. \A i \in 2..Len(cut) : cut[i] = "-" => cut[i - 1] # "-"
        BY <1>11, <2>0, <2>1, <3>3 DEF IsKept
      <4> QED
        BY <3>3, <4>1, <4>2 DEF IsKept
    <3>6. cut # <<>> => cut[Len(cut)] # "-"
      <4>1. CASE Len(kept) >= 2
        BY <1>11, <2>0, <3>3, <3>4, <4>1 DEF IsKept
      <4>2. CASE Len(kept) < 2
        BY <2>0, <2>1, <3>3, <4>2, EmptySeq
      <4> QED
        BY <2>0, <4>1, <4>2
    <3> QED
      BY <3>1, <3>5, <3>6
  <2>2. CASE ~(kept # <<>> /\ Lists!Last(kept) = "-")
    BY <1>11, <2>2 DEF Lists!Last
  <2> QED
    BY <2>1, <2>2
<1> HIDE DEF trimmed
<1>14. CASE trimmed = <<>>
  <2>1. slugify(text) = <<"unknown">>
    BY <1>12, <1>14
  <2>2. "unknown" \in Letters /\ "unknown" # "-"
    BY DEF Letters, LowerWords
  <2>3. /\ <<"unknown">> \in Seq(Letters) /\ Len(<<"unknown">>) = 1
        /\ <<"unknown">>[1] = "unknown"
    BY <2>2
  <2> QED
    BY <2>1, <2>3 DEF IsSlug, Letters
<1>15. CASE trimmed # <<>>
  BY <1>12, <1>13, <1>15 DEF IsSlug, IsKept, Letters
<1> QED
  BY <1>14, <1>15

(* A slug with a number is a slug.                                          *)
LEMMA WithNumberMakesSlugs ==
    ASSUME NEW base, IsSlug(base), NEW n, ToString(n) \in LowerWords
    PROVE  IsSlug(WithNumber(base, n))
<1> DEFINE end == <<"-", ToString(n)>>
<1>1. base \in Seq(Letters) /\ Len(base) \in Nat \ {0}
  BY LenProperties, EmptySeq DEF IsSlug, Letters
<1>2. /\ end \in Seq(Letters) /\ Len(end) = 2
      /\ end[1] = "-" /\ end[2] = ToString(n)
  BY DEF Letters
<1>3. "-" \notin LowerWords
  BY WordsAssumption
<1> HIDE DEF end
<1> DEFINE new == base \o end
<1>4. /\ new \in Seq(Letters) /\ Len(new) = Len(base) + 2
      /\ \A i \in 1..(Len(base) + 2) :
            new[i] = IF i <= Len(base) THEN base[i] ELSE end[i - Len(base)]
  <2>1. /\ new \in Seq(Letters) /\ Len(new) = Len(base) + Len(end)
        /\ \A i \in 1..(Len(base) + Len(end)) :
              new[i] = IF i <= Len(base) THEN base[i] ELSE end[i - Len(base)]
    BY <1>1, <1>2, ConcatProperties
  <2> HIDE DEF new
  <2> QED
    BY <1>2, <2>1
<1>5. WithNumber(base, n) = new
  BY DEF WithNumber, end
<1> HIDE DEF new
<1>6. new # <<>> /\ new[1] # "-"
  BY <1>1, <1>4, EmptySeq DEF IsSlug
<1>7. new[Len(base) + 1] = "-" /\ new[Len(base) + 2] = ToString(n)
  <2>1. /\ Len(base) + 1 \in 1..(Len(base) + 2) /\ ~(Len(base) + 1 <= Len(base))
        /\ Len(base) + 2 \in 1..(Len(base) + 2) /\ ~(Len(base) + 2 <= Len(base))
        /\ (Len(base) + 1) - Len(base) = 1 /\ (Len(base) + 2) - Len(base) = 2
    BY <1>1
  <2>2. /\ new[Len(base) + 1] = end[(Len(base) + 1) - Len(base)]
        /\ new[Len(base) + 2] = end[(Len(base) + 2) - Len(base)]
    BY <1>4, <2>1
  <2> QED
    BY <1>2, <2>1, <2>2
<1>8. new[Len(new)] # "-"
  BY <1>3, <1>4, <1>7
<1>9. ASSUME NEW i \in 2..Len(new), new[i] = "-" PROVE new[i - 1] # "-"
  <2>1. CASE i <= Len(base)
    BY <1>1, <1>4, <1>9, <2>1 DEF IsSlug
  <2>2. CASE i = Len(base) + 1
    <3>1. new[i - 1] = base[Len(base)]
      BY <1>1, <1>4, <2>2
    <3> QED
      BY <3>1 DEF IsSlug
  <2>3. CASE i = Len(base) + 2
    BY <1>3, <1>7, <1>9, <2>3
  <2> QED
    BY <1>1, <1>4, <2>1, <2>2, <2>3
<1> QED
  BY <1>4, <1>5, <1>6, <1>8, <1>9 DEF IsSlug, Letters

(* Every device gets the slug of a text.                                    *)
LEMMA BasesAreSlugs == \A base \in Bases : IsSlug(base)
<1> SUFFICES ASSUME NEW id \in Identities PROVE IsSlug(Slugify[Seed(id)])
  BY DEF Bases
<1> DEFINE Tokens == STRING \cup {" ", "(", ")", "kbd", "numpad", "mouse", "other", "unknown"}
<1>1. PICK h \in Hardware : id = from_open_device(h)
  BY IdentitiesAreRead DEF Read
<1>2. id.name \in Seq(Tokens)
  <2>1. h.name = Nothing \/ h.name \in Seq(STRING)
    BY HardwareAssumption
  <2>2. h.name \in Seq(STRING) => h.name \in Seq(Tokens)
    BY SeqMonotonic
  <2>3. <<"unknown">> \in Seq(Tokens)
    OBVIOUS
  <2>4. id.name = IF h.name = Nothing THEN <<"unknown">> ELSE h.name
    BY <1>1 DEF from_open_device
  <2> HIDE DEF Tokens
  <2> QED
    BY <2>1, <2>2, <2>3, <2>4
<1>3. id.tag \in Seq(Tokens)
  <2>1. /\ <<"kbd">> \in Seq(Tokens) /\ <<"numpad">> \in Seq(Tokens)
        /\ <<"mouse">> \in Seq(Tokens) /\ <<"other">> \in Seq(Tokens)
    OBVIOUS
  <2>2. id.tag \in {<<"kbd">>, <<"numpad">>, <<"mouse">>, <<"other">>}
    BY <1>1 DEF from_open_device, classify_capabilities
  <2> HIDE DEF Tokens
  <2> QED
    BY <2>1, <2>2
<1>4. SeedText(Seed(id)) \in Seq(Tokens)
  <2>1. CASE id.tag = OtherTag
    <3>1. Seed(id) = <<id.name>>
      BY <2>1 DEF Seed
    <3>2. SeedText(Seed(id)) = id.name
      BY <3>1 DEF SeedText
    <3> QED
      BY <1>2, <3>2
  <2>2. CASE id.tag # OtherTag
    <3>1. Seed(id) = <<id.name, id.tag>>
      BY <2>2 DEF Seed
    <3>2. SeedText(Seed(id)) = id.name \o <<" ", "(">> \o id.tag \o <<")">>
      <4>1. /\ Len(Seed(id)) = 2
            /\ Seed(id)[1] = id.name /\ Seed(id)[2] = id.tag
        BY <3>1
      <4> QED
        BY <4>1 DEF SeedText, WithTag
    <3>3. <<" ", "(">> \in Seq(Tokens) /\ <<")">> \in Seq(Tokens)
      OBVIOUS
    <3> HIDE DEF Tokens
    <3>4. id.name \o <<" ", "(">> \in Seq(Tokens)
      BY <1>2, <3>3, ConcatProperties
    <3>5. id.name \o <<" ", "(">> \o id.tag \in Seq(Tokens)
      BY <1>3, <3>4, ConcatProperties
    <3>6. id.name \o <<" ", "(">> \o id.tag \o <<")">> \in Seq(Tokens)
      BY <3>3, <3>5, ConcatProperties
    <3> QED
      BY <3>2, <3>6
  <2> QED
    BY <2>1, <2>2
<1>5. Len(SeedText(Seed(id))) \in Nat
  <2> HIDE DEF Tokens
  <2> QED
    BY <1>4, LenProperties
<1> QED
  BY <1>5, SlugifyMakesSlugs, SlugsAreMade

(* So does every device whose name is taken.                                *)
LEMMA AllocatedAreSlugs ==
    ASSUME NEW db, NEW base \in Bases, NEW slug, IsAllocated(db, base, slug)
    PROVE  IsSlug(slug)
<1>1. CASE slug = base
  BY <1>1, BasesAreSlugs
<1>2. ASSUME NEW n \in 2..MaxSuffix, slug = Numbered[<<base, n>>] PROVE IsSlug(slug)
  <2>1. slug = WithNumber(base, n)
    BY <1>2, SlugsAreMade
  <2>2. ToString(n) \in LowerWords
    BY NumbersAreWords
  <2> QED
    BY <2>1, <2>2, BasesAreSlugs, WithNumberMakesSlugs
<1> QED
  BY <1>1, <1>2 DEF IsAllocated

HoldsSlugs(db) == \A i \in DOMAIN db : IsSlug(db[i].slug)

NamingInv == DbInv /\ HoldsSlugs(devices) /\ HoldsSlugs(file)

(* A changed list that is saved, or not.                                    *)
LEMMA SlugsAreSaved ==
    ASSUME NamingInv, [DbNext]_dbVars, HoldsSlugs(devices'),
           file' = devices' \/ file' = file
    PROVE  NamingInv'
<1>1. DbInv'
  BY DbStep DEF NamingInv
<1> QED
  BY <1>1 DEF NamingInv, HoldsSlugs

(* A change of a record that leaves its slug as it is.                      *)
LEMMA SlugIsKept ==
    ASSUME NEW db \in Seq(Record), HoldsSlugs(db), NEW i \in DOMAIN db,
           NEW rec, rec.slug = db[i].slug
    PROVE  HoldsSlugs([db EXCEPT ![i] = rec])
<1> DEFINE new == [db EXCEPT ![i] = rec]
<1>1. /\ DOMAIN new = DOMAIN db
      /\ \A j \in DOMAIN db : new[j] = IF j = i THEN rec ELSE db[j]
  BY LenProperties
<1> HIDE DEF new
<1> QED
  BY <1>1 DEF HoldsSlugs, new

(* Every step of the registry keeps the slugs slugs.                        *)
LEMMA NamingStep == NamingInv /\ [DbNext]_dbVars => NamingInv'
<1> SUFFICES ASSUME NamingInv, [DbNext]_dbVars PROVE NamingInv'
  OBVIOUS
<1>0. /\ devices \in Seq(Record) /\ HoldsSlugs(devices) /\ HoldsSlugs(file)
  BY DEF NamingInv, DbInv, DbTypeOK
<1>1. CASE UNCHANGED dbVars
  BY <1>0, <1>1, SlugsAreSaved DEF dbVars, HoldsSlugs
<1>2. CASE Load
  BY <1>0, <1>2, SlugsAreSaved DEF Load, HoldsSlugs
<1>3. CASE Crash
  <2>1. HoldsSlugs(devices')
    BY <1>3 DEF Crash, HoldsSlugs
  <2> QED
    BY <1>3, <2>1, SlugsAreSaved DEF Crash
<1>4. ASSUME NEW id \in Identities, NEW i \in DOMAIN devices, MatchKnown(id, i)
      PROVE  NamingInv'
  <2>1. devices' = [devices EXCEPT ![i] = Backfill(devices[i], id)]
    BY <1>4 DEF MatchKnown
  <2>2. id \in Identity /\ devices[i] \in Record
    BY <1>0, IdentitiesAssumption, ElementOfSeq
  <2>3. HoldsSlugs(devices')
    BY <1>0, <2>1, <2>2, BackfillLemma, SlugIsKept
  <2> QED
    BY <1>4, <2>3, SlugsAreSaved DEF MatchKnown, SaveAtomic
<1>5. ASSUME NEW id \in Identities, NEW slug \in Slugs, InsertNew(id, slug)
      PROVE  NamingInv'
  <2>1. IsSlug(slug)
    BY <1>5, AllocatedAreSlugs DEF InsertNew, Bases
  <2>2. id \in Identity
    BY IdentitiesAssumption
  <2>3. /\ DOMAIN devices' = 1..(Len(devices) + 1)
        /\ \A j \in DOMAIN devices : devices'[j] = devices[j]
        /\ devices'[Len(devices) + 1].slug = slug
    <3>1. devices' = Insert(devices, id, slug)
      BY <1>5 DEF InsertNew
    <3>2. NewRecord(id, slug).slug = slug
      BY <2>2, NewRecordLemma
    <3> QED
      BY <1>0, <2>2, <3>1, <3>2, InsertLemma
  <2>4. DOMAIN devices = 1..Len(devices) /\ Len(devices) \in Nat
    BY <1>0, LenProperties
  <2>5. HoldsSlugs(devices')
    BY <1>0, <2>1, <2>3, <2>4 DEF HoldsSlugs
  <2> QED
    BY <1>5, <2>5, SlugsAreSaved DEF InsertNew, SaveAtomic
<1>6. ASSUME NEW slug \in Slugs, NEW on \in BOOLEAN, NEW i \in DOMAIN devices,
             SetEnabled(slug, on, i)
      PROVE  NamingInv'
  <2> DEFINE rec == [devices[i] EXCEPT !.enabled = on]
  <2>1. devices[i] \in Record
    BY <1>0, ElementOfSeq
  <2>2. rec.slug = devices[i].slug
    BY <2>1 DEF Record
  <2>3. devices' = [devices EXCEPT ![i] = rec]
    BY <1>6 DEF SetEnabled
  <2> HIDE DEF rec
  <2>4. HoldsSlugs(devices')
    BY <1>0, <2>2, <2>3, SlugIsKept
  <2> QED
    BY <1>6, <2>4, SlugsAreSaved DEF SetEnabled, SaveAtomic
<1>7. ASSUME NEW slug \in Slugs, NEW code \in Codes, NEW i \in DOMAIN devices,
             RecordKey(slug, code, i)
      PROVE  NamingInv'
  <2> DEFINE rec == ObserveKey(devices[i], code)
  <2>1. devices[i] \in Record
    BY <1>0, ElementOfSeq
  <2>2. rec.slug = devices[i].slug
    BY <2>1 DEF Record, ObserveKey
  <2>3. devices' = [devices EXCEPT ![i] = rec]
    BY <1>7 DEF RecordKey
  <2> HIDE DEF rec
  <2>4. HoldsSlugs(devices')
    BY <1>0, <2>2, <2>3, SlugIsKept
  <2> QED
    BY <1>7, <2>4, SlugsAreSaved DEF RecordKey, SaveAtomic
<1>8. ASSUME NEW slug \in Slugs, NEW i \in DOMAIN devices, Remove(slug, i)
      PROVE  NamingInv'
  <2>1. HoldsSlugs(devices')
    BY <1>0, <1>8, SurvivorLemma DEF Remove, HoldsSlugs
  <2> QED
    BY <1>8, <2>1, SlugsAreSaved DEF Remove, SaveAtomic
<1> QED
  BY <1>1, <1>2, <1>3, <1>4, <1>5, <1>6, <1>7, <1>8 DEF DbNext

(* The records have slugs at first.                                         *)
LEMMA NamingInitially == DbInit => NamingInv
<1> SUFFICES ASSUME DbInit PROVE NamingInv
  OBVIOUS
<1>1. HoldsSlugs(file)
  BY FilesHoldSlugs DEF DbInit, HoldsSlugs
<1>2. HoldsSlugs(devices)
  BY DEF DbInit, HoldsSlugs
<1> QED
  BY <1>1, <1>2, DbInitially DEF NamingInv

(* "Slugs are permanent", and they are slugs: no step of the registry gives *)
(* a record another name (`slugify` and `allocate_slug`).                   *)
THEOREM RecordsHaveSlugs == DbSpec => []NamingInv
  BY NamingInitially, NamingStep, PTL DEF DbSpec
-----------------------------------------------------------------------------
(* Joining and cutting texts.                                               *)

Tokens ==
    STRING \cup Letters
    \cup {"/", "_", "action", "status", "devices", "enabled", "device", "config"}

(* What stands where in two, three and four texts put together.             *)
TwoParts(text, S, a, n, b, m) ==
    /\ text \in Seq(S) /\ Len(text) = n + m
    /\ \A i \in 1..n : text[i] = a[i]
    /\ \A i \in 1..m : text[n + i] = b[i]

ThreeParts(text, S, a, n, b, m, c, k) ==
    /\ text \in Seq(S) /\ Len(text) = n + m + k
    /\ \A i \in 1..n : text[i] = a[i]
    /\ \A i \in 1..m : text[n + i] = b[i]
    /\ \A i \in 1..k : text[n + m + i] = c[i]

FourParts(text, S, a, n, b, m, c, k, d, l) ==
    /\ text \in Seq(S) /\ Len(text) = n + m + k + l
    /\ \A i \in 1..n : text[i] = a[i]
    /\ \A i \in 1..m : text[n + i] = b[i]
    /\ \A i \in 1..k : text[n + m + i] = c[i]
    /\ \A i \in 1..l : text[n + m + k + i] = d[i]

LEMMA TwoJoined ==
    ASSUME NEW S, NEW s \in Seq(S), NEW t \in Seq(S),
           NEW n, Len(s) = n, NEW m, Len(t) = m
    PROVE  TwoParts(s \o t, S, s, n, t, m)
<1> DEFINE new == s \o t
<1>1. /\ new \in Seq(S)
      /\ Len(new) = Len(s) + Len(t)
      /\ \A i \in 1..(Len(s) + Len(t)) :
            new[i] = IF i <= Len(s) THEN s[i] ELSE t[i - Len(s)]
  BY ConcatProperties
<1>2. Len(s) \in Nat /\ Len(t) \in Nat
  BY LenProperties
<1> HIDE DEF new
<1>3. \A i \in 1..Len(s) : new[i] = s[i]
  BY <1>1, <1>2
<1>4. ASSUME NEW i \in 1..Len(t) PROVE new[Len(s) + i] = t[i]
  <2>1. /\ Len(s) + i \in 1..(Len(s) + Len(t)) /\ ~(Len(s) + i <= Len(s))
        /\ (Len(s) + i) - Len(s) = i
    BY <1>2
  <2> QED
    BY <1>1, <2>1
<1> QED
  BY <1>1, <1>3, <1>4 DEF new, TwoParts

LEMMA ThreeJoined ==
    ASSUME NEW S, NEW a \in Seq(S), NEW b \in Seq(S), NEW c \in Seq(S),
           NEW n, Len(a) = n, NEW m, Len(b) = m, NEW k, Len(c) = k
    PROVE  ThreeParts(a \o b \o c, S, a, n, b, m, c, k)
<1> DEFINE u == a \o b
           v == u \o c
<1>0. n \in Nat /\ m \in Nat /\ k \in Nat
  BY LenProperties
<1>1. TwoParts(u, S, a, n, b, m)
  BY TwoJoined
<1> HIDE DEF u
<1>2. TwoParts(v, S, u, n + m, c, k)
  <2>1. u \in Seq(S) /\ Len(u) = n + m
    BY <1>1 DEF TwoParts
  <2> QED
    BY <2>1, TwoJoined, Zenon
<1> HIDE DEF v
<1>3. \A i \in 1..n : v[i] = a[i]
  BY <1>0, <1>1, <1>2 DEF TwoParts
<1>4. ASSUME NEW i \in 1..m PROVE v[n + i] = b[i]
  <2>1. n + i \in 1..(n + m)
    BY <1>0
  <2> QED
    BY <1>1, <1>2, <2>1 DEF TwoParts
<1>5. ThreeParts(v, S, a, n, b, m, c, k)
  BY <1>2, <1>3, <1>4 DEF TwoParts, ThreeParts
<1> QED
  BY <1>5 DEF u, v

LEMMA FourJoined ==
    ASSUME NEW S, NEW a \in Seq(S), NEW b \in Seq(S), NEW c \in Seq(S), NEW d \in Seq(S),
           NEW n, Len(a) = n, NEW m, Len(b) = m, NEW k, Len(c) = k, NEW l, Len(d) = l
    PROVE  FourParts(a \o b \o c \o d, S, a, n, b, m, c, k, d, l)
<1> DEFINE u == a \o b \o c
           v == u \o d
<1>0. n \in Nat /\ m \in Nat /\ k \in Nat /\ l \in Nat
  BY LenProperties
<1>1. ThreeParts(u, S, a, n, b, m, c, k)
  BY ThreeJoined, Zenon
<1> HIDE DEF u
<1>2. TwoParts(v, S, u, n + m + k, d, l)
  BY <1>1, TwoJoined DEF ThreeParts
<1> HIDE DEF v
<1>3. \A i \in 1..n : v[i] = a[i]
  BY <1>0, <1>1, <1>2 DEF TwoParts, ThreeParts
<1>4. ASSUME NEW i \in 1..m PROVE v[n + i] = b[i]
  <2>1. n + i \in 1..(n + m + k)
    BY <1>0
  <2> QED
    BY <1>1, <1>2, <2>1 DEF TwoParts, ThreeParts
<1>5. ASSUME NEW i \in 1..k PROVE v[n + m + i] = c[i]
  <2>1. n + m + i \in 1..(n + m + k)
    BY <1>0
  <2> QED
    BY <1>1, <1>2, <2>1 DEF TwoParts, ThreeParts
<1>6. FourParts(v, S, a, n, b, m, c, k, d, l)
  BY <1>2, <1>3, <1>4, <1>5 DEF TwoParts, FourParts
<1> QED
  BY <1>6 DEF u, v

(* What it means that a text begins with another.                           *)
Begins(s, t) == Len(s) <= Len(t) /\ \A i \in 1..Len(s) : s[i] = t[i]

LEMMA BeginsWith ==
    ASSUME NEW S, NEW s \in Seq(S), NEW t \in Seq(S)
    PROVE  Lists!IsPrefix(s, t) <=> Begins(s, t)
<1> USE DEF Begins
<1>1. Len(s) \in Nat /\ Len(t) \in Nat
  BY LenProperties
<1>2. \A i \in 1..Len(s) : s[i] \in S
  BY ElementOfSeq
<1>3. /\ SubSeq(s, 1, Len(s)) \in Seq(S) /\ Len(SubSeq(s, 1, Len(s))) = Len(s)
      /\ \A i \in 1..Len(s) : SubSeq(s, 1, Len(s))[i] = s[i]
  BY SubSeqFull
<1>4. CASE Len(s) <= Len(t)
  <2>1. \A i \in 1..Len(s) : t[i] \in S
    BY <1>1, <1>4, ElementOfSeq
  <2>2. /\ SubSeq(t, 1, Len(s)) \in Seq(S) /\ Len(SubSeq(t, 1, Len(s))) = Len(s)
        /\ \A i \in 1..Len(s) : SubSeq(t, 1, Len(s))[i] = t[i]
    BY <1>1, <2>1, SubSeqProperties
  <2>3. SubSeq(s, 1, Len(s)) = SubSeq(t, 1, Len(s)) <=> \A i \in 1..Len(s) : s[i] = t[i]
    BY <1>3, <2>2, SeqEqual
  <2> QED
    BY <1>4, <2>3 DEF Lists!IsPrefix
<1>5. CASE ~(Len(s) <= Len(t))
  BY <1>5 DEF Lists!IsPrefix
<1> QED
  BY <1>4, <1>5

(* What it means that it ends with another.                                 *)
LEMMA EndsWith ==
    ASSUME NEW S, NEW s \in Seq(S), NEW t \in Seq(S)
    PROVE  Lists!IsSuffix(s, t) <=>
              /\ Len(s) <= Len(t)
              /\ \A i \in 1..Len(s) : s[i] = t[(Len(t) - Len(s)) + i]
<1> DEFINE r == Lists!Reverse(s)
           q == Lists!Reverse(t)
<1>1. Len(s) \in Nat /\ Len(t) \in Nat
  BY LenProperties
<1>2. /\ r \in Seq(S) /\ Len(r) = Len(s)
      /\ \A i \in 1..Len(s) : r[i] = s[(Len(s) - i) + 1]
  <2>1. \A i \in 1..Len(s) : s[(Len(s) - i) + 1] \in S
    BY <1>1, ElementOfSeq
  <2>2. [i \in 1..Len(s) |-> s[(Len(s) - i) + 1]] \in Seq(S)
    BY <1>1, <2>1, IsASeq
  <2> QED
    BY <1>1, <2>2 DEF Lists!Reverse
<1>3. /\ q \in Seq(S) /\ Len(q) = Len(t)
      /\ \A i \in 1..Len(t) : q[i] = t[(Len(t) - i) + 1]
  <2>1. \A i \in 1..Len(t) : t[(Len(t) - i) + 1] \in S
    BY <1>1, ElementOfSeq
  <2>2. [i \in 1..Len(t) |-> t[(Len(t) - i) + 1]] \in Seq(S)
    BY <1>1, <2>1, IsASeq
  <2> QED
    BY <1>1, <2>2 DEF Lists!Reverse
<1>4. Lists!IsSuffix(s, t) <=> Lists!IsPrefix(r, q)
  BY DEF Lists!IsSuffix
<1> HIDE DEF r, q
<1>5. Lists!IsPrefix(r, q) <=> Len(s) <= Len(t) /\ \A i \in 1..Len(s) : r[i] = q[i]
  <2>1. Lists!IsPrefix(r, q) <=> Begins(r, q)
    <3>1. r \in Seq(S) /\ q \in Seq(S)
      BY <1>2, <1>3
    <3> QED
      BY <3>1, BeginsWith
  <2>2. Len(r) = Len(s) /\ Len(q) = Len(t)
    BY <1>2, <1>3
  <2> QED
    BY <2>1, <2>2 DEF Begins
<1>6. ASSUME Len(s) <= Len(t)
      PROVE  (\A i \in 1..Len(s) : r[i] = q[i])
             <=> \A i \in 1..Len(s) : s[i] = t[(Len(t) - Len(s)) + i]
  <2>1. ASSUME NEW i \in 1..Len(s)
        PROVE  /\ (Len(s) - i) + 1 \in 1..Len(s)
               /\ r[(Len(s) - i) + 1] = s[i]
               /\ q[(Len(s) - i) + 1] = t[(Len(t) - Len(s)) + i]
    <3>1. /\ (Len(s) - i) + 1 \in 1..Len(s) /\ (Len(s) - i) + 1 \in 1..Len(t)
          /\ (Len(s) - ((Len(s) - i) + 1)) + 1 = i
          /\ (Len(t) - ((Len(s) - i) + 1)) + 1 = (Len(t) - Len(s)) + i
      BY <1>1, <1>6
    <3> QED
      BY <1>2, <1>3, <3>1
  <2>2. \A i \in 1..Len(s) : \E j \in 1..Len(s) : (Len(s) - j) + 1 = i
    <3>1. ASSUME NEW i \in 1..Len(s) PROVE \E j \in 1..Len(s) : (Len(s) - j) + 1 = i
      <4>1. (Len(s) - i) + 1 \in 1..Len(s) /\ (Len(s) - ((Len(s) - i) + 1)) + 1 = i
        BY <1>1
      <4> QED
        BY <4>1
    <3> QED
      BY <3>1
  <2> DEFINE b(i) == t[(Len(t) - Len(s)) + i]
             m(i) == (Len(s) - i) + 1
  <2>3. /\ \A i \in 1..Len(s) : m(i) \in 1..Len(s) /\ r[m(i)] = s[i] /\ q[m(i)] = b(i)
        /\ \A i \in 1..Len(s) : \E j \in 1..Len(s) : m(j) = i
    BY <2>1, <2>2
  <2> HIDE DEF b, m
  <2>4. ASSUME \A i \in 1..Len(s) : r[i] = q[i], NEW i \in 1..Len(s)
        PROVE  s[i] = b(i)
    BY <2>3, <2>4
  <2>5. ASSUME \A i \in 1..Len(s) : s[i] = b(i), NEW i \in 1..Len(s)
        PROVE  r[i] = q[i]
    <3>1. PICK j \in 1..Len(s) : m(j) = i
      BY <2>3
    <3>2. r[m(j)] = q[m(j)]
      BY <2>3, <2>5
    <3> QED
      BY <3>1, <3>2
  <2>6. (\A i \in 1..Len(s) : r[i] = q[i]) <=> \A i \in 1..Len(s) : s[i] = b(i)
    BY <2>4, <2>5
  <2> QED
    BY <2>6 DEF b
<1> QED
  BY <1>4, <1>5, <1>6
-----------------------------------------------------------------------------
(* The shapes of the topics.                                                *)

(* The prefixes and the slugs are texts, a slug without slash or underscore.*)
LEMMA Pieces ==
    /\ TopicPrefix \in Seq(Tokens) /\ Len(TopicPrefix) \in Nat
    /\ DiscoveryPrefix \in Seq(Tokens) /\ Len(DiscoveryPrefix) \in Nat
    /\ \A slug : IsSlug(slug) =>
          /\ slug \in Seq(Tokens) /\ Len(slug) \in Nat \ {0}
          /\ \A i \in 1..Len(slug) : slug[i] # "/" /\ slug[i] # "_"
<1>1. TopicPrefix \in Seq(Tokens) /\ DiscoveryPrefix \in Seq(Tokens)
  BY PrefixesAssumption, SeqMonotonic DEF Tokens
<1>2. Len(TopicPrefix) \in Nat /\ Len(DiscoveryPrefix) \in Nat
  BY <1>1, LenProperties
<1>3. ASSUME NEW slug, IsSlug(slug)
      PROVE  /\ slug \in Seq(Tokens) /\ Len(slug) \in Nat \ {0}
             /\ \A i \in 1..Len(slug) : slug[i] # "/" /\ slug[i] # "_"
  <2>1. slug \in Seq(Letters) /\ slug # <<>>
    BY <1>3 DEF IsSlug, Letters
  <2>2. slug \in Seq(Tokens)
    BY <2>1, SeqMonotonic DEF Tokens
  <2>3. \A i \in 1..Len(slug) : slug[i] \in Letters
    BY <2>1, ElementOfSeq
  <2>4. "/" \notin Letters /\ "_" \notin Letters
    BY WordsAssumption DEF Letters
  <2> QED
    BY <2>1, <2>2, <2>3, <2>4, EmptySeq
<1> QED
  BY <1>1, <1>2, <1>3

(* The parts of the topics that are written out.                            *)
LEMMA Literals ==
    /\ <<"/">> \in Seq(Tokens) /\ Len(<<"/">>) = 1 /\ <<"/">>[1] = "/"
    /\ <<"_">> \in Seq(Tokens) /\ Len(<<"_">>) = 1 /\ <<"_">>[1] = "_"
    /\ \A word \in {"action", "status", "enabled", "config"} :
          /\ <<"/", word>> \in Seq(Tokens) /\ Len(<<"/", word>>) = 2
          /\ <<"/", word>>[1] = "/" /\ <<"/", word>>[2] = word
    /\ <<"/", "_", "devices", "/">> \in Seq(Tokens)
    /\ Len(<<"/", "_", "devices", "/">>) = 4
    /\ <<"/", "_", "devices", "/">>[1] = "/" /\ <<"/", "_", "devices", "/">>[2] = "_"
    /\ <<"/", "_", "devices", "/">>[3] = "devices" /\ <<"/", "_", "devices", "/">>[4] = "/"
    /\ <<"/", "device", "/">> \in Seq(Tokens) /\ Len(<<"/", "device", "/">>) = 3
  BY DEF Tokens

LEMMA ActionShape ==
    ASSUME NEW slug, IsSlug(slug)
    PROVE  LET topic == action_topic(slug)
               n     == Len(TopicPrefix)
               k     == Len(slug)
           IN  /\ topic \in Seq(Tokens) /\ Len(topic) = n + k + 3
               /\ \A i \in 1..n : topic[i] = TopicPrefix[i]
               /\ topic[n + 1] = "/"
               /\ \A i \in 1..k : topic[n + 1 + i] = slug[i]
               /\ topic[n + k + 2] = "/" /\ topic[n + k + 3] = "action"
<1> DEFINE n == Len(TopicPrefix)
           k == Len(slug)
           b == <<"/">>
           d == <<"/", "action">>
           topic == action_topic(slug)
<1>1. /\ TopicPrefix \in Seq(Tokens) /\ n \in Nat
      /\ slug \in Seq(Tokens) /\ k \in Nat \ {0}
  BY Pieces
<1>2. /\ b \in Seq(Tokens) /\ Len(b) = 1 /\ b[1] = "/"
      /\ d \in Seq(Tokens) /\ Len(d) = 2 /\ d[1] = "/" /\ d[2] = "action"
  BY Literals
<1>3. topic = TopicPrefix \o b \o slug \o d
  BY DEF action_topic
<1>4. FourParts(topic, Tokens, TopicPrefix, n, b, 1, slug, k, d, 2)
  <2>1. FourParts(TopicPrefix \o b \o slug \o d, Tokens, TopicPrefix, n, b, 1, slug, k, d, 2)
    <3> HIDE DEF b, d
    <3> QED
      BY <1>1, <1>2, FourJoined, Zenon
  <2> QED
    BY <1>3, <2>1, Zenon
<1> HIDE DEF b, d, topic, n, k
<1>5. /\ topic \in Seq(Tokens) /\ Len(topic) = n + 1 + k + 2
      /\ \A i \in 1..n : topic[i] = TopicPrefix[i]
      /\ \A i \in 1..1 : topic[n + i] = b[i]
      /\ \A i \in 1..k : topic[n + 1 + i] = slug[i]
      /\ \A i \in 1..2 : topic[n + 1 + k + i] = d[i]
  BY <1>4, Zenon DEF FourParts
<1>6. n + 1 + k + 1 = n + k + 2 /\ n + 1 + k + 2 = n + k + 3
  BY <1>1
<1>7. /\ topic[n + 1] = "/"
      /\ topic[n + 1 + k + 1] = "/" /\ topic[n + 1 + k + 2] = "action"
  BY <1>2, <1>5
<1> QED
  BY <1>5, <1>6, <1>7 DEF n, k, topic

LEMMA AvailabilityShape ==
    LET topic == availability_topic
        n     == Len(TopicPrefix)
    IN  /\ topic \in Seq(Tokens) /\ Len(topic) = n + 2
        /\ topic[n + 1] = "/" /\ topic[n + 2] = "status"
<1> DEFINE n == Len(TopicPrefix)
           b == <<"/", "status">>
           topic == availability_topic
<1>1. TopicPrefix \in Seq(Tokens) /\ n \in Nat
  BY Pieces
<1>2. b \in Seq(Tokens) /\ Len(b) = 2 /\ b[1] = "/" /\ b[2] = "status"
  BY Literals
<1>3. topic = TopicPrefix \o b
  BY DEF availability_topic
<1> HIDE DEF b
<1>4. TwoParts(topic, Tokens, TopicPrefix, n, b, 2)
  BY <1>1, <1>2, <1>3, TwoJoined
<1> HIDE DEF topic, n
<1>5. /\ topic \in Seq(Tokens) /\ Len(topic) = n + 2
      /\ topic[n + 1] = "/" /\ topic[n + 2] = "status"
  BY <1>2, <1>4 DEF TwoParts
<1> QED
  BY <1>5 DEF n, topic

LEMMA InfoShape ==
    ASSUME NEW slug \in Seq(Tokens)
    PROVE  LET topic == device_info_topic(slug)
               n     == Len(TopicPrefix)
               k     == Len(slug)
           IN  /\ topic \in Seq(Tokens) /\ Len(topic) = n + k + 4
               /\ \A i \in 1..n : topic[i] = TopicPrefix[i]
               /\ topic[n + 1] = "/" /\ topic[n + 2] = "_"
               /\ topic[n + 3] = "devices" /\ topic[n + 4] = "/"
               /\ \A i \in 1..k : topic[n + 4 + i] = slug[i]
<1> DEFINE n == Len(TopicPrefix)
           k == Len(slug)
           b == <<"/", "_", "devices", "/">>
           topic == device_info_topic(slug)
<1>1. /\ TopicPrefix \in Seq(Tokens) /\ n \in Nat /\ k \in Nat
  BY Pieces, LenProperties
<1>2. /\ b \in Seq(Tokens) /\ Len(b) = 4
      /\ b[1] = "/" /\ b[2] = "_" /\ b[3] = "devices" /\ b[4] = "/"
  BY Literals
<1>3. topic = TopicPrefix \o b \o slug
  BY DEF device_info_topic
<1>4. ThreeParts(topic, Tokens, TopicPrefix, n, b, 4, slug, k)
  <2>1. ThreeParts(TopicPrefix \o b \o slug, Tokens, TopicPrefix, n, b, 4, slug, k)
    <3> HIDE DEF b
    <3> QED
      BY <1>1, <1>2, ThreeJoined, Zenon
  <2> QED
    BY <1>3, <2>1, Zenon
<1> HIDE DEF b, topic, n, k
<1>5. /\ topic \in Seq(Tokens) /\ Len(topic) = n + 4 + k
      /\ \A i \in 1..n : topic[i] = TopicPrefix[i]
      /\ \A i \in 1..4 : topic[n + i] = b[i]
      /\ \A i \in 1..k : topic[n + 4 + i] = slug[i]
  BY <1>4, Zenon DEF ThreeParts
<1>6. n + 4 + k = n + k + 4
  BY <1>1
<1>7. /\ topic[n + 1] = "/" /\ topic[n + 2] = "_"
      /\ topic[n + 3] = "devices" /\ topic[n + 4] = "/"
  <2>1. 1 \in 1..4 /\ 2 \in 1..4 /\ 3 \in 1..4 /\ 4 \in 1..4
    OBVIOUS
  <2> QED
    BY <1>2, <1>5, <2>1, Zenon
<1> QED
  BY <1>5, <1>6, <1>7 DEF n, k, topic

LEMMA EnabledShape ==
    ASSUME NEW slug, IsSlug(slug)
    PROVE  LET topic == device_enabled_topic(slug)
               n     == Len(TopicPrefix)
               k     == Len(slug)
           IN  /\ topic \in Seq(Tokens) /\ Len(topic) = n + k + 6
               /\ \A i \in 1..n : topic[i] = TopicPrefix[i]
               /\ topic[n + 1] = "/" /\ topic[n + 2] = "_"
               /\ topic[n + 3] = "devices" /\ topic[n + 4] = "/"
               /\ \A i \in 1..k : topic[n + 4 + i] = slug[i]
               /\ topic[n + k + 5] = "/" /\ topic[n + k + 6] = "enabled"
<1> DEFINE n == Len(TopicPrefix)
           k == Len(slug)
           b == <<"/", "enabled">>
           head == device_info_topic(slug)
           topic == device_enabled_topic(slug)
<1>1. n \in Nat /\ slug \in Seq(Tokens) /\ k \in Nat \ {0}
  BY Pieces
<1>2. b \in Seq(Tokens) /\ Len(b) = 2 /\ b[1] = "/" /\ b[2] = "enabled"
  BY Literals
<1>3. /\ head \in Seq(Tokens) /\ Len(head) = n + k + 4
      /\ \A i \in 1..n : head[i] = TopicPrefix[i]
      /\ head[n + 1] = "/" /\ head[n + 2] = "_"
      /\ head[n + 3] = "devices" /\ head[n + 4] = "/"
      /\ \A i \in 1..k : head[n + 4 + i] = slug[i]
  BY <1>1, InfoShape
<1>4. topic = head \o b
  BY DEF device_enabled_topic
<1> HIDE DEF b, head, topic
<1>11. TwoParts(topic, Tokens, head, n + k + 4, b, 2)
  BY <1>2, <1>3, <1>4, TwoJoined
<1> HIDE DEF n, k
<1>5. /\ topic \in Seq(Tokens) /\ Len(topic) = n + k + 4 + 2
      /\ \A i \in 1..(n + k + 4) : topic[i] = head[i]
      /\ \A i \in 1..2 : topic[n + k + 4 + i] = b[i]
  BY <1>11, Zenon DEF TwoParts
<1>6. \A i \in 1..n : topic[i] = TopicPrefix[i]
  <2>1. \A i \in 1..n : i \in 1..(n + k + 4)
    BY <1>1
  <2> QED
    BY <1>3, <1>5, <2>1
<1>7. /\ topic[n + 1] = "/" /\ topic[n + 2] = "_"
      /\ topic[n + 3] = "devices" /\ topic[n + 4] = "/"
  <2>1. /\ n + 1 \in 1..(n + k + 4) /\ n + 2 \in 1..(n + k + 4)
        /\ n + 3 \in 1..(n + k + 4) /\ n + 4 \in 1..(n + k + 4)
    BY <1>1
  <2> QED
    BY <1>3, <1>5, <2>1
<1>8. \A i \in 1..k : topic[n + 4 + i] = slug[i]
  <2>1. \A i \in 1..k : n + 4 + i \in 1..(n + k + 4)
    BY <1>1
  <2> QED
    BY <1>3, <1>5, <2>1
<1>9. topic[n + k + 5] = "/" /\ topic[n + k + 6] = "enabled"
  <2>1. n + k + 4 + 1 = n + k + 5 /\ n + k + 4 + 2 = n + k + 6
    BY <1>1
  <2>2. topic[n + k + 4 + 1] = "/" /\ topic[n + k + 4 + 2] = "enabled"
    BY <1>2, <1>5
  <2> QED
    BY <2>1, <2>2
<1>10. Len(topic) = n + k + 6
  BY <1>1, <1>5
<1> QED
  BY <1>5, <1>6, <1>7, <1>8, <1>9, <1>10 DEF n, k, topic

LEMMA IdentifierShape ==
    ASSUME NEW slug, IsSlug(slug)
    PROVE  LET name == device_identifier(slug)
               n    == Len(TopicPrefix)
               k    == Len(slug)
           IN  /\ name \in Seq(Tokens) /\ Len(name) = n + k + 1
               /\ name[n + 1] = "_"
               /\ \A i \in 1..k : name[n + 1 + i] = slug[i]
<1> DEFINE n == Len(TopicPrefix)
           k == Len(slug)
           b == <<"_">>
           name == device_identifier(slug)
<1>1. /\ TopicPrefix \in Seq(Tokens) /\ n \in Nat
      /\ slug \in Seq(Tokens) /\ k \in Nat \ {0}
  BY Pieces
<1>2. b \in Seq(Tokens) /\ Len(b) = 1 /\ b[1] = "_"
  BY Literals
<1>3. name = TopicPrefix \o b \o slug
  BY DEF device_identifier
<1>4. ThreeParts(name, Tokens, TopicPrefix, n, b, 1, slug, k)
  <2>1. ThreeParts(TopicPrefix \o b \o slug, Tokens, TopicPrefix, n, b, 1, slug, k)
    <3> HIDE DEF b
    <3> QED
      BY <1>1, <1>2, ThreeJoined, Zenon
  <2> QED
    BY <1>3, <2>1, Zenon
<1> HIDE DEF b, name, n, k
<1>5. /\ name \in Seq(Tokens) /\ Len(name) = n + 1 + k
      /\ \A i \in 1..1 : name[n + i] = b[i]
      /\ \A i \in 1..k : name[n + 1 + i] = slug[i]
  BY <1>4, Zenon DEF ThreeParts
<1>6. n + 1 + k = n + k + 1
  BY <1>1
<1>7. name[n + 1] = "_"
  <2>1. 1 \in 1..1
    OBVIOUS
  <2> QED
    BY <1>2, <1>5, <2>1, Zenon
<1> QED
  BY <1>5, <1>6, <1>7 DEF n, k, name

LEMMA DiscoveryShape ==
    ASSUME NEW slug, IsSlug(slug)
    PROVE  LET topic == device_discovery_topic(device_identifier(slug))
               d     == Len(DiscoveryPrefix)
               n     == Len(TopicPrefix)
               k     == Len(slug)
           IN  /\ topic \in Seq(Tokens) /\ Len(topic) = d + n + k + 6
               /\ \A i \in 1..k : topic[d + n + 4 + i] = slug[i]
               /\ topic[d + n + k + 5] = "/" /\ topic[d + n + k + 6] = "config"
<1> DEFINE d == Len(DiscoveryPrefix)
           n == Len(TopicPrefix)
           k == Len(slug)
           b == <<"/", "device", "/">>
           e == <<"/", "config">>
           name == device_identifier(slug)
           topic == device_discovery_topic(name)
<1>1. DiscoveryPrefix \in Seq(Tokens) /\ d \in Nat /\ n \in Nat /\ k \in Nat \ {0}
  BY Pieces
<1>2. /\ b \in Seq(Tokens) /\ Len(b) = 3
      /\ e \in Seq(Tokens) /\ Len(e) = 2 /\ e[1] = "/" /\ e[2] = "config"
  BY Literals
<1>3. /\ name \in Seq(Tokens) /\ Len(name) = n + k + 1
      /\ \A i \in 1..k : name[n + 1 + i] = slug[i]
  BY IdentifierShape
<1>4. topic = DiscoveryPrefix \o b \o name \o e
  BY DEF device_discovery_topic
<1>9. FourParts(topic, Tokens, DiscoveryPrefix, d, b, 3, name, n + k + 1, e, 2)
  <2>1. FourParts(DiscoveryPrefix \o b \o name \o e, Tokens,
                  DiscoveryPrefix, d, b, 3, name, n + k + 1, e, 2)
    <3> HIDE DEF b, e, name
    <3> QED
      BY <1>1, <1>2, <1>3, FourJoined, Zenon
  <2> QED
    BY <1>4, <2>1, Zenon
<1> HIDE DEF b, e, name, topic, d, n, k
<1>5. /\ topic \in Seq(Tokens) /\ Len(topic) = d + 3 + (n + k + 1) + 2
      /\ \A i \in 1..(n + k + 1) : topic[d + 3 + i] = name[i]
      /\ \A i \in 1..2 : topic[d + 3 + (n + k + 1) + i] = e[i]
  BY <1>9, Zenon DEF FourParts
<1>6. ASSUME NEW i \in 1..k PROVE topic[d + n + 4 + i] = slug[i]
  <2>1. n + 1 + i \in 1..(n + k + 1) /\ d + 3 + (n + 1 + i) = d + n + 4 + i
    BY <1>1
  <2> QED
    BY <1>3, <1>5, <2>1
<1>7. topic[d + n + k + 5] = "/" /\ topic[d + n + k + 6] = "config"
  <2>1. /\ d + 3 + (n + k + 1) + 1 = d + n + k + 5
        /\ d + 3 + (n + k + 1) + 2 = d + n + k + 6
    BY <1>1
  <2>2. /\ topic[d + 3 + (n + k + 1) + 1] = "/"
        /\ topic[d + 3 + (n + k + 1) + 2] = "config"
    BY <1>2, <1>5
  <2> QED
    BY <2>1, <2>2
<1>8. Len(topic) = d + n + k + 6
  BY <1>1, <1>5
<1> QED
  BY <1>5, <1>6, <1>7, <1>8 DEF d, n, k, topic, name
-----------------------------------------------------------------------------
(* No topic is like another.                                                *)

(* Two topics or identifiers with the same text are of one kind and of one  *)
(* slug: where two kinds have the same length, some position tells a slash, *)
(* an underscore or a last word apart from what a slug has there.           *)
LEMMA KindsDiffer ==
    ASSUME NEW s, IsSlug(s), NEW t, IsSlug(t)
    PROVE  /\ action_topic(s) # device_info_topic(t)
           /\ action_topic(s) # device_enabled_topic(t)
           /\ action_topic(s) # device_discovery_topic(device_identifier(t))
           /\ action_topic(s) # device_identifier(t)
           /\ device_info_topic(s) # device_enabled_topic(t)
           /\ device_info_topic(s) # device_discovery_topic(device_identifier(t))
           /\ device_info_topic(s) # device_identifier(t)
           /\ device_enabled_topic(s) # device_discovery_topic(device_identifier(t))
           /\ device_enabled_topic(s) # device_identifier(t)
           /\ device_discovery_topic(device_identifier(s)) # device_identifier(t)
<1> DEFINE n == Len(TopicPrefix)
           d == Len(DiscoveryPrefix)
           k == Len(s)
           l == Len(t)
           A == action_topic(s)
           I == device_info_topic(s)
           J == device_info_topic(t)
           E == device_enabled_topic(s)
           F == device_enabled_topic(t)
           C == device_discovery_topic(device_identifier(s))
           D == device_discovery_topic(device_identifier(t))
           N == device_identifier(t)
<1>1. /\ n \in Nat /\ d \in Nat /\ k \in Nat \ {0} /\ l \in Nat \ {0}
      /\ s \in Seq(Tokens) /\ t \in Seq(Tokens)
      /\ \A i \in 1..k : s[i] # "/" /\ s[i] # "_"
      /\ \A i \in 1..l : t[i] # "/" /\ t[i] # "_"
  BY Pieces
<1>2. /\ Len(A) = n + k + 3 /\ A[n + 1] = "/" /\ A[n + k + 3] = "action"
      /\ \A i \in 1..k : A[n + 1 + i] = s[i]
  BY ActionShape
<1>3. /\ Len(I) = n + k + 4 /\ I[n + 1] = "/"
      /\ \A i \in 1..k : I[n + 4 + i] = s[i]
  BY <1>1, InfoShape
<1>4. Len(J) = n + l + 4 /\ J[n + 2] = "_"
  BY <1>1, InfoShape
<1>5. Len(E) = n + k + 6 /\ E[n + 1] = "/" /\ E[n + k + 6] = "enabled"
  BY EnabledShape
<1>6. Len(F) = n + l + 6 /\ F[n + 2] = "_" /\ F[n + l + 5] = "/"
  BY EnabledShape
<1>7. Len(C) = d + n + k + 6 /\ C[d + n + k + 5] = "/"
  BY DiscoveryShape
<1>8. Len(D) = d + n + l + 6 /\ D[d + n + l + 5] = "/" /\ D[d + n + l + 6] = "config"
  BY DiscoveryShape
<1>9. /\ Len(N) = n + l + 1 /\ N[n + 1] = "_"
      /\ \A i \in 1..l : N[n + 1 + i] = t[i]
  BY IdentifierShape
<1> HIDE DEF n, d, k, l, A, I, J, E, F, C, D, N
<1>18. n \in Nat /\ d \in Nat /\ k \in Nat /\ k >= 1 /\ l \in Nat /\ l >= 1
  <2>1. n \in Nat /\ d \in Nat /\ k \in Nat \ {0} /\ l \in Nat \ {0}
    BY <1>1, Zenon
  <2> QED
    BY <2>1
<1>10. A[n + 2] # "_"
  <2>1. 1 \in 1..k /\ n + 1 + 1 = n + 2
    BY <1>18
  <2>2. A[n + 1 + 1] = s[1]
    BY <1>2, <2>1, Zenon
  <2> QED
    BY <1>1, <2>1, <2>2
<1>11. A # J /\ A # F
  BY <1>4, <1>6, <1>10
<1>12. A # D
  <2>1. A = D => n + k + 3 = d + n + l + 6
    BY <1>2, <1>8
  <2>2. n + k + 3 = d + n + l + 6 => A[d + n + l + 6] = "action"
    BY <1>2
  <2> QED
    BY <1>8, <2>1, <2>2
<1>13. A # N /\ I # N /\ E # N
  BY <1>2, <1>3, <1>5, <1>9
<1>14. I # F
  <2> SUFFICES ASSUME I = F PROVE FALSE
    OBVIOUS
  <2>1. n + k + 4 = n + l + 6
    BY <1>3, <1>6
  <2>2. l + 1 \in 1..k /\ n + 4 + (l + 1) = n + l + 5
    BY <1>18, <2>1
  <2>3. I[n + 4 + (l + 1)] = s[l + 1]
    BY <1>3, <2>2, Zenon
  <2> QED
    BY <1>1, <1>6, <2>2, <2>3
<1>15. I # D
  <2> SUFFICES ASSUME I = D PROVE FALSE
    OBVIOUS
  <2>1. n + k + 4 = d + n + l + 6
    BY <1>3, <1>8
  <2>2. k - 1 \in 1..k /\ n + 4 + (k - 1) = d + n + l + 5
    BY <1>18, <2>1
  <2>3. I[n + 4 + (k - 1)] = s[k - 1]
    BY <1>3, <2>2, Zenon
  <2> QED
    BY <1>1, <1>8, <2>2, <2>3
<1>16. E # D
  <2>1. E = D => n + k + 6 = d + n + l + 6
    BY <1>5, <1>8
  <2>2. n + k + 6 = d + n + l + 6 => E[d + n + l + 6] = "enabled"
    BY <1>5
  <2> QED
    BY <1>8, <2>1, <2>2
<1>17. C # N
  <2> SUFFICES ASSUME C = N PROVE FALSE
    OBVIOUS
  <2>1. n + l + 1 = d + n + k + 6
    BY <1>7, <1>9
  <2>2. l - 1 \in 1..l /\ n + 1 + (l - 1) = d + n + k + 5
    BY <1>18, <2>1
  <2>3. N[n + 1 + (l - 1)] = t[l - 1]
    BY <1>9, <2>2, Zenon
  <2> QED
    BY <1>1, <1>7, <2>2, <2>3
<1> QED
  BY <1>11, <1>12, <1>13, <1>14, <1>15, <1>16, <1>17 DEF A, I, J, E, F, C, D, N

(* One text placed in two topics at the same position.                      *)
LEMMA SamePlace ==
    ASSUME NEW S, NEW s \in Seq(S), NEW t \in Seq(S), NEW topic, NEW p,
           Len(s) = Len(t),
           \A i \in 1..Len(s) : topic[p + i] = s[i],
           \A i \in 1..Len(t) : topic[p + i] = t[i]
    PROVE  s = t
<1>1. \A i \in 1..Len(s) : s[i] = t[i]
  BY Zenon
<1> QED
  BY <1>1, SeqEqual

LEMMA SlugsShow ==
    ASSUME NEW s, IsSlug(s), NEW t, IsSlug(t),
           \/ action_topic(s) = action_topic(t)
           \/ device_info_topic(s) = device_info_topic(t)
           \/ device_enabled_topic(s) = device_enabled_topic(t)
           \/ device_discovery_topic(device_identifier(s))
              = device_discovery_topic(device_identifier(t))
           \/ device_identifier(s) = device_identifier(t)
    PROVE  s = t
<1> DEFINE n == Len(TopicPrefix)
           d == Len(DiscoveryPrefix)
<1>1. /\ n \in Nat /\ d \in Nat /\ Len(s) \in Nat /\ Len(t) \in Nat
      /\ s \in Seq(Tokens) /\ t \in Seq(Tokens)
  BY Pieces
<1>2. \A r \in {s, t} :
         /\ Len(action_topic(r)) = n + Len(r) + 3
         /\ \A i \in 1..Len(r) : action_topic(r)[n + 1 + i] = r[i]
  BY ActionShape
<1>3. \A r \in {s, t} :
         /\ Len(device_info_topic(r)) = n + Len(r) + 4
         /\ \A i \in 1..Len(r) : device_info_topic(r)[n + 4 + i] = r[i]
  <2>1. \A r \in {s, t} : r \in Seq(Tokens)
    BY <1>1
  <2> QED
    BY <2>1, InfoShape
<1>4. \A r \in {s, t} :
         /\ Len(device_enabled_topic(r)) = n + Len(r) + 6
         /\ \A i \in 1..Len(r) : device_enabled_topic(r)[n + 4 + i] = r[i]
  BY EnabledShape
<1>5. \A r \in {s, t} :
         /\ Len(device_discovery_topic(device_identifier(r))) = d + n + Len(r) + 6
         /\ \A i \in 1..Len(r) :
               device_discovery_topic(device_identifier(r))[d + n + 4 + i] = r[i]
  BY DiscoveryShape
<1>6. \A r \in {s, t} :
         /\ Len(device_identifier(r)) = n + Len(r) + 1
         /\ \A i \in 1..Len(r) : device_identifier(r)[n + 1 + i] = r[i]
  BY IdentifierShape
<1> HIDE DEF n, d
<1>7. CASE action_topic(s) = action_topic(t)
  <2>1. Len(s) = Len(t)
    BY <1>1, <1>2, <1>7
  <2>2. /\ \A i \in 1..Len(s) : action_topic(s)[n + 1 + i] = s[i]
        /\ \A i \in 1..Len(t) : action_topic(s)[n + 1 + i] = t[i]
    BY <1>2, <1>7
  <2> QED
    BY <1>1, <2>1, <2>2, SamePlace
<1>8. CASE device_info_topic(s) = device_info_topic(t)
  <2>1. Len(s) = Len(t)
    BY <1>1, <1>3, <1>8
  <2>2. /\ \A i \in 1..Len(s) : device_info_topic(s)[n + 4 + i] = s[i]
        /\ \A i \in 1..Len(t) : device_info_topic(s)[n + 4 + i] = t[i]
    BY <1>3, <1>8
  <2> QED
    BY <1>1, <2>1, <2>2, SamePlace
<1>9. CASE device_enabled_topic(s) = device_enabled_topic(t)
  <2>1. Len(s) = Len(t)
    BY <1>1, <1>4, <1>9
  <2>2. /\ \A i \in 1..Len(s) : device_enabled_topic(s)[n + 4 + i] = s[i]
        /\ \A i \in 1..Len(t) : device_enabled_topic(s)[n + 4 + i] = t[i]
    BY <1>4, <1>9
  <2> QED
    BY <1>1, <2>1, <2>2, SamePlace
<1>10. CASE device_discovery_topic(device_identifier(s))
            = device_discovery_topic(device_identifier(t))
  <2> DEFINE topic == device_discovery_topic(device_identifier(s))
  <2>1. Len(s) = Len(t)
    BY <1>1, <1>5, <1>10
  <2>2. /\ \A i \in 1..Len(s) : topic[d + n + 4 + i] = s[i]
        /\ \A i \in 1..Len(t) : topic[d + n + 4 + i] = t[i]
    BY <1>5, <1>10
  <2> HIDE DEF topic
  <2> QED
    BY <1>1, <2>1, <2>2, SamePlace
<1>11. CASE device_identifier(s) = device_identifier(t)
  <2>1. Len(s) = Len(t)
    BY <1>1, <1>6, <1>11
  <2>2. /\ \A i \in 1..Len(s) : device_identifier(s)[n + 1 + i] = s[i]
        /\ \A i \in 1..Len(t) : device_identifier(s)[n + 1 + i] = t[i]
    BY <1>6, <1>11
  <2> QED
    BY <1>1, <2>1, <2>2, SamePlace
<1> QED
  BY <1>7, <1>8, <1>9, <1>10, <1>11

(* The topic of the availability is none of a device.                       *)
LEMMA AvailabilityDiffers ==
    ASSUME NEW s, IsSlug(s)
    PROVE  /\ availability_topic # action_topic(s)
           /\ availability_topic # device_info_topic(s)
           /\ availability_topic # device_enabled_topic(s)
           /\ availability_topic # device_discovery_topic(device_identifier(s))
           /\ availability_topic # device_identifier(s)
<1> DEFINE n == Len(TopicPrefix)
           d == Len(DiscoveryPrefix)
           k == Len(s)
<1>1. n \in Nat /\ d \in Nat /\ k \in Nat \ {0} /\ s \in Seq(Tokens)
  BY Pieces
<1>2. Len(availability_topic) = n + 2 /\ availability_topic[n + 1] = "/"
  BY AvailabilityShape
<1>3. /\ Len(action_topic(s)) = n + k + 3
      /\ Len(device_info_topic(s)) = n + k + 4
      /\ Len(device_enabled_topic(s)) = n + k + 6
      /\ Len(device_discovery_topic(device_identifier(s))) = d + n + k + 6
  <2>1. Len(device_info_topic(s)) = n + k + 4
    BY <1>1, InfoShape
  <2> QED
    BY <2>1, ActionShape, EnabledShape, DiscoveryShape
<1>4. device_identifier(s)[n + 1] = "_"
  BY IdentifierShape
<1> HIDE DEF n, d, k
<1>5. n + 2 # n + k + 3 /\ n + 2 # n + k + 4 /\ n + 2 # n + k + 6 /\ n + 2 # d + n + k + 6
  BY <1>1
<1> QED
  BY <1>2, <1>3, <1>4, <1>5

(* The topics and the identifier of a record, one by one.                   *)
LEMMA NamesOfSlug ==
    ASSUME NEW s \in Slugs
    PROVE  /\ TopicsOf[s] = { action_topic(s), device_info_topic(s), device_enabled_topic(s),
                              device_discovery_topic(device_identifier(s)) }
           /\ NamesOf[s] = TopicsOf[s] \cup {device_identifier(s)}
  BY DEF TopicsOf, NamesOf

(* Two devices never share a topic or an identifier, whatever they are      *)
(* called, and none takes the daemon's own: the topics of topics.rs, the    *)
(* slugs of slug.rs and the registry together.                              *)
THEOREM DbTopicsTellDevicesApart == DbSpec => []TopicsTellDevicesApart
<1>1. NamingInv => TopicsTellDevicesApart
  <2> SUFFICES ASSUME NamingInv, NEW i \in DOMAIN devices, NEW j \in DOMAIN devices
               PROVE  /\ i # j => NamesOf[devices[i].slug] \cap NamesOf[devices[j].slug] = {}
                      /\ availability_topic \notin NamesOf[devices[i].slug]
    BY DEF TopicsTellDevicesApart
  <2> DEFINE s == devices[i].slug
             t == devices[j].slug
  <2>1. IsSlug(s) /\ IsSlug(t)
    BY DEF NamingInv, HoldsSlugs
  <2>2. s \in Slugs /\ t \in Slugs
    <3>1. devices[i] \in Record /\ devices[j] \in Record
      BY ElementOfSeq DEF NamingInv, DbInv, DbTypeOK
    <3> QED
      BY <3>1 DEF Record
  <2>3. s = t => i = j
    BY DEF NamingInv, DbInv, KeptApart, UniqueSlugs
  <2> HIDE DEF s, t
  <2>4. availability_topic \notin NamesOf[s]
    BY <2>1, <2>2, NamesOfSlug, AvailabilityDiffers
  <2>5. ASSUME NEW name \in NamesOf[s], name \in NamesOf[t] PROVE s = t
    <3>1. name \in { action_topic(s), device_info_topic(s), device_enabled_topic(s),
                     device_discovery_topic(device_identifier(s)), device_identifier(s) }
      BY <2>2, NamesOfSlug
    <3>2. name \in { action_topic(t), device_info_topic(t), device_enabled_topic(t),
                     device_discovery_topic(device_identifier(t)), device_identifier(t) }
      BY <2>2, <2>5, NamesOfSlug
    <3>3. CASE name = action_topic(s)
      BY <2>1, <3>2, <3>3, KindsDiffer, SlugsShow
    <3>4. CASE name = device_info_topic(s)
      BY <2>1, <3>2, <3>4, KindsDiffer, SlugsShow
    <3>5. CASE name = device_enabled_topic(s)
      BY <2>1, <3>2, <3>5, KindsDiffer, SlugsShow
    <3>6. CASE name = device_discovery_topic(device_identifier(s))
      BY <2>1, <3>2, <3>6, KindsDiffer, SlugsShow
    <3>7. CASE name = device_identifier(s)
      BY <2>1, <3>2, <3>7, KindsDiffer, SlugsShow
    <3> QED
      BY <3>1, <3>3, <3>4, <3>5, <3>6, <3>7
  <2> QED
    BY <2>3, <2>4, <2>5 DEF s, t
<1> QED
  BY <1>1, RecordsHaveSlugs, PTL
-----------------------------------------------------------------------------
(* Topics are parsed back.                                                  *)

Head0 == device_info_topic(<<>>)

(* What stands behind `{prefix}/_devices/`.                                 *)
LEMMA WithoutHead ==
    ASSUME NEW topic \in Seq(Tokens), NEW l \in Nat,
           Len(topic) = Len(TopicPrefix) + 4 + l
    PROVE  /\ Without(Head0, topic) \in Seq(Tokens)
           /\ Len(Without(Head0, topic)) = l
           /\ \A i \in 1..l :
                 Without(Head0, topic)[i] = topic[Len(TopicPrefix) + 4 + i]
<1> DEFINE n == Len(TopicPrefix)
<1>1. n \in Nat /\ <<>> \in Seq(Tokens) /\ Len(<<>>) = 0
  BY Pieces, EmptySeq
<1>2. Len(Head0) = n + 4
  <2>1. Len(Head0) = n + 0 + 4
    BY <1>1, InfoShape DEF Head0
  <2> QED
    BY <1>1, <2>1
<1> DEFINE rest == SubSeq(topic, n + 5, n + 4 + l)
<1>3. Without(Head0, topic) = rest
  <2>1. (n + 4) + 1 = n + 5
    BY <1>1
  <2> QED
    BY <1>2, <2>1 DEF Without
<1> HIDE DEF n
<1>4. \A i \in (n + 5)..(n + 4 + l) : topic[i] \in Tokens
  <2>1. \A i \in (n + 5)..(n + 4 + l) : i \in 1..(n + 4 + l)
    BY <1>1
  <2> QED
    BY <2>1, ElementOfSeq DEF n
<1>5. /\ rest \in Seq(Tokens)
      /\ Len(rest) = IF n + 5 <= n + 4 + l THEN (n + 4 + l) - (n + 5) + 1 ELSE 0
      /\ \A i \in 1..((n + 4 + l) - (n + 5) + 1) : rest[i] = topic[(n + 5) + i - 1]
  <2>1. n + 5 \in Int /\ n + 4 + l \in Int
    BY <1>1
  <2> QED
    BY <1>4, <2>1, SubSeqProperties
<1> HIDE DEF rest
<1>6. Len(rest) = l
  BY <1>1, <1>5
<1>7. ASSUME NEW i \in 1..l PROVE rest[i] = topic[n + 4 + i]
  <2>1. i \in 1..((n + 4 + l) - (n + 5) + 1) /\ (n + 5) + i - 1 = n + 4 + i
    BY <1>1
  <2> QED
    BY <1>5, <2>1
<1> QED
  BY <1>3, <1>5, <1>6, <1>7 DEF n

(* What a topic that begins with `{prefix}/_devices/` looks like.           *)
LEMMA BeginsWithHead ==
    ASSUME NEW topic \in Seq(Tokens)
    PROVE  LET n == Len(TopicPrefix) IN
           Lists!IsPrefix(Head0, topic)
           <=> /\ n + 4 <= Len(topic)
               /\ \A i \in 1..n : topic[i] = TopicPrefix[i]
               /\ topic[n + 1] = "/" /\ topic[n + 2] = "_"
               /\ topic[n + 3] = "devices" /\ topic[n + 4] = "/"
<1> DEFINE n == Len(TopicPrefix)
<1>1. n \in Nat /\ <<>> \in Seq(Tokens) /\ Len(<<>>) = 0
  BY Pieces, EmptySeq
<1>2. /\ Head0 \in Seq(Tokens) /\ Len(Head0) = n + 0 + 4
      /\ \A i \in 1..n : Head0[i] = TopicPrefix[i]
      /\ Head0[n + 1] = "/" /\ Head0[n + 2] = "_"
      /\ Head0[n + 3] = "devices" /\ Head0[n + 4] = "/"
  BY <1>1, InfoShape DEF Head0
<1> HIDE DEF n
<1>3. Lists!IsPrefix(Head0, topic) <=> Begins(Head0, topic)
  BY <1>2, BeginsWith
<1>4. Len(Head0) = n + 4
  <2>1. n + 0 + 4 = n + 4
    BY <1>1
  <2> QED
    BY <1>2, <2>1
<1>5. \A i \in 1..(n + 4) :
         i \in 1..n \/ i = n + 1 \/ i = n + 2 \/ i = n + 3 \/ i = n + 4
  BY <1>1
<1>6. \A i \in 1..n : i \in 1..(n + 4)
  BY <1>1
<1>7. /\ n + 1 \in 1..(n + 4) /\ n + 2 \in 1..(n + 4)
      /\ n + 3 \in 1..(n + 4) /\ n + 4 \in 1..(n + 4)
  BY <1>1
<1>8. (\A i \in 1..(n + 4) : Head0[i] = topic[i])
      <=> /\ \A i \in 1..n : topic[i] = TopicPrefix[i]
          /\ topic[n + 1] = "/" /\ topic[n + 2] = "_"
          /\ topic[n + 3] = "devices" /\ topic[n + 4] = "/"
  BY <1>2, <1>5, <1>6, <1>7
<1> QED
  BY <1>3, <1>4, <1>8 DEF n, Begins

(* What a text that ends with `/enabled` looks like.                        *)
LEMMA EndsWithEnabled ==
    ASSUME NEW rest \in Seq(Tokens), Lists!IsSuffix(<<"/", "enabled">>, rest)
    PROVE  /\ Len(rest) >= 2
           /\ rest[Len(rest) - 1] = "/" /\ rest[Len(rest)] = "enabled"
<1> DEFINE tail == <<"/", "enabled">>
<1>1. /\ tail \in Seq(Tokens) /\ Len(tail) = 2 /\ tail[1] = "/" /\ tail[2] = "enabled"
  BY Literals
<1> HIDE DEF tail
<1>2. /\ Len(tail) <= Len(rest)
      /\ \A i \in 1..Len(tail) : tail[i] = rest[(Len(rest) - Len(tail)) + i]
  BY <1>1, EndsWith DEF tail
<1>3. Len(rest) \in Nat
  BY LenProperties
<1>4. /\ 1 \in 1..2 /\ 2 \in 1..2
      /\ (Len(rest) - 2) + 1 = Len(rest) - 1 /\ (Len(rest) - 2) + 2 = Len(rest)
  BY <1>3
<1>5. /\ tail[1] = rest[(Len(rest) - 2) + 1]
      /\ tail[2] = rest[(Len(rest) - 2) + 2]
  BY <1>1, <1>2, <1>4, Zenon
<1> QED
  BY <1>1, <1>2, <1>4, <1>5

(* The info topic of a slug is parsed back to it, and is no enabled topic.  *)
LEMMA InfoParsed ==
    ASSUME NEW s, IsSlug(s)
    PROVE  /\ parse_info_slug(device_info_topic(s)) = s
           /\ parse_enabled_topic(device_info_topic(s)) = NoText
<1> DEFINE topic == device_info_topic(s)
           n     == Len(TopicPrefix)
           k     == Len(s)
           rest  == Without(Head0, topic)
<1>1. /\ n \in Nat /\ k \in Nat \ {0} /\ s \in Seq(Tokens)
      /\ \A i \in 1..k : s[i] # "/" /\ s[i] # "_"
  BY Pieces
<1>2. /\ topic \in Seq(Tokens) /\ Len(topic) = n + k + 4
      /\ \A i \in 1..n : topic[i] = TopicPrefix[i]
      /\ topic[n + 1] = "/" /\ topic[n + 2] = "_"
      /\ topic[n + 3] = "devices" /\ topic[n + 4] = "/"
      /\ \A i \in 1..k : topic[n + 4 + i] = s[i]
  BY <1>1, InfoShape
<1> HIDE DEF topic
<1>3. n + 4 <= n + k + 4 /\ n + k + 4 = n + 4 + k /\ k \in Nat
  <2> HIDE DEF n, k
  <2>1. n \in Nat /\ k \in Nat \ {0}
    BY <1>1, Zenon
  <2> QED
    BY <2>1
<1>4. Lists!IsPrefix(Head0, topic)
  BY <1>2, <1>3, BeginsWithHead
<1>5. /\ rest \in Seq(Tokens) /\ Len(rest) = k
      /\ \A i \in 1..k : rest[i] = topic[n + 4 + i]
  BY <1>2, <1>3, WithoutHead
<1> HIDE DEF rest
<1>6. rest = s
  <2>1. \A i \in 1..Len(rest) : rest[i] = s[i]
    BY <1>2, <1>5
  <2> QED
    BY <1>1, <1>5, <2>1, SeqEqual
<1>7. rest # <<>> /\ ~Lists!Contains(rest, "/")
  <2>1. ~Lists!Contains(rest, "/")
    BY <1>1, <1>6 DEF Lists!Contains
  <2>2. s # <<>>
    BY DEF IsSlug
  <2> QED
    BY <1>6, <2>1, <2>2
<1>8. parse_info_slug(topic) = s
  BY <1>4, <1>6, <1>7 DEF parse_info_slug, rest, Head0
<1>9. ~Lists!IsSuffix(<<"/", "enabled">>, rest)
  <2> SUFFICES ASSUME Lists!IsSuffix(<<"/", "enabled">>, rest) PROVE FALSE
    OBVIOUS
  <2>1. Len(rest) >= 2 /\ rest[Len(rest) - 1] = "/"
    BY <1>5, EndsWithEnabled
  <2>2. k >= 2 /\ rest[k - 1] = "/"
    BY <1>5, <2>1
  <2>3. k - 1 \in 1..k
    <3> HIDE DEF k
    <3> QED
      BY <1>3, <2>2
  <2> QED
    BY <1>1, <1>6, <2>2, <2>3
<1>10. parse_enabled_topic(topic) = NoText
  BY <1>9 DEF parse_enabled_topic, rest, Head0
<1> QED
  BY <1>8, <1>10 DEF topic

(* The enabled topic of a slug is parsed back to it, and is no info topic.  *)
LEMMA EnabledParsed ==
    ASSUME NEW s, IsSlug(s)
    PROVE  /\ parse_enabled_topic(device_enabled_topic(s)) = s
           /\ parse_info_slug(device_enabled_topic(s)) = NoText
<1> DEFINE topic == device_enabled_topic(s)
           n     == Len(TopicPrefix)
           k     == Len(s)
           rest  == Without(Head0, topic)
           tail  == <<"/", "enabled">>
           cut   == SubSeq(rest, 1, Len(rest) - Len(tail))
<1>1. /\ n \in Nat /\ k \in Nat \ {0} /\ s \in Seq(Tokens)
      /\ \A i \in 1..k : s[i] # "/" /\ s[i] # "_"
  BY Pieces
<1>2. /\ topic \in Seq(Tokens) /\ Len(topic) = n + k + 6
      /\ \A i \in 1..n : topic[i] = TopicPrefix[i]
      /\ topic[n + 1] = "/" /\ topic[n + 2] = "_"
      /\ topic[n + 3] = "devices" /\ topic[n + 4] = "/"
      /\ \A i \in 1..k : topic[n + 4 + i] = s[i]
      /\ topic[n + k + 5] = "/" /\ topic[n + k + 6] = "enabled"
  BY EnabledShape
<1>3. /\ tail \in Seq(Tokens) /\ Len(tail) = 2 /\ tail[1] = "/" /\ tail[2] = "enabled"
  BY Literals
<1> HIDE DEF topic, tail, n
<1>4. /\ n + 4 <= n + k + 6 /\ n + k + 6 = n + 4 + (k + 2) /\ k \in Nat /\ k + 2 \in Nat
      /\ n + 4 + (k + 1) = n + k + 5 /\ n + 4 + (k + 2) = n + k + 6
      /\ k + 1 \in 1..(k + 2) /\ k + 2 \in 1..(k + 2)
      /\ \A i \in 1..k : i \in 1..(k + 2)
      /\ (k + 2) - 2 = k
  <2> HIDE DEF k
  <2>1. n \in Nat /\ k \in Nat \ {0}
    BY <1>1, Zenon
  <2> QED
    BY <2>1
<1>5. Lists!IsPrefix(Head0, topic)
  BY <1>2, <1>4, BeginsWithHead DEF n
<1>6. /\ rest \in Seq(Tokens) /\ Len(rest) = k + 2
      /\ \A i \in 1..(k + 2) : rest[i] = topic[n + 4 + i]
  BY <1>2, <1>4, WithoutHead DEF n
<1> HIDE DEF rest
<1>7. /\ \A i \in 1..k : rest[i] = s[i]
      /\ rest[k + 1] = "/" /\ rest[k + 2] = "enabled"
  BY <1>2, <1>4, <1>6
<1>8. Lists!IsSuffix(tail, rest)
  <2>1. Len(tail) <= Len(rest)
    <3> HIDE DEF k
    <3> QED
      BY <1>3, <1>4, <1>6
  <2>2. (Len(rest) - Len(tail)) + 1 = k + 1 /\ (Len(rest) - Len(tail)) + 2 = k + 2
    <3> HIDE DEF k
    <3> QED
      BY <1>3, <1>4, <1>6
  <2>3. \A i \in 1..Len(tail) : i = 1 \/ i = 2
    BY <1>3
  <2>4. \A i \in 1..Len(tail) : tail[i] = rest[(Len(rest) - Len(tail)) + i]
    BY <1>3, <1>7, <2>2, <2>3
  <2> QED
    BY <1>3, <1>6, <2>1, <2>4, EndsWith
<1>9. cut = s
  <2> DEFINE part == SubSeq(rest, 1, k)
  <2>0. Len(rest) - Len(tail) = k
    BY <1>3, <1>4, <1>6
  <2>1. cut = part
    BY <2>0
  <2>2. \A i \in 1..k : rest[i] \in Tokens
    BY <1>4, <1>6, ElementOfSeq
  <2>3. /\ part \in Seq(Tokens)
        /\ Len(part) = IF 1 <= k THEN k - 1 + 1 ELSE 0
        /\ \A i \in 1..(k - 1 + 1) : part[i] = rest[1 + i - 1]
    BY <1>4, <2>2, SubSeqProperties
  <2> HIDE DEF part
  <2>4. Len(part) = k /\ \A i \in 1..k : part[i] = rest[i]
    <3> HIDE DEF k
    <3> QED
      BY <1>4, <2>3
  <2>5. \A i \in 1..Len(part) : part[i] = s[i]
    BY <1>7, <2>4
  <2>6. part = s
    BY <1>1, <2>3, <2>4, <2>5, SeqEqual
  <2> QED
    BY <2>1, <2>6
<1>10. cut # <<>> /\ ~Lists!Contains(cut, "/")
  <2>1. ~Lists!Contains(cut, "/")
    BY <1>1, <1>9 DEF Lists!Contains
  <2>2. s # <<>>
    BY DEF IsSlug
  <2> QED
    BY <1>9, <2>1, <2>2
<1>11. parse_enabled_topic(topic) = cut
  BY <1>5, <1>8, <1>10 DEF parse_enabled_topic, rest, Head0, tail
<1>12. Lists!Contains(rest, "/")
  BY <1>4, <1>6, <1>7 DEF Lists!Contains
<1>13. parse_info_slug(topic) = NoText
  BY <1>12 DEF parse_info_slug, rest, Head0
<1> QED
  BY <1>9, <1>11, <1>13 DEF topic

(* The other topics are neither.                                            *)
LEMMA OthersParsed ==
    ASSUME NEW s, IsSlug(s),
           NEW topic \in { action_topic(s), availability_topic,
                           device_discovery_topic(device_identifier(s)) }
    PROVE  /\ parse_enabled_topic(topic) = NoText
           /\ parse_info_slug(topic) = NoText
<1> DEFINE n == Len(TopicPrefix)
           d == Len(DiscoveryPrefix)
           k == Len(s)
<1>1. /\ n \in Nat /\ d \in Nat /\ k \in Nat \ {0}
      /\ \A i \in 1..k : s[i] # "/" /\ s[i] # "_"
  BY Pieces
<1>2. n \in Nat /\ d \in Nat /\ k \in Nat /\ k >= 1
  <2> HIDE DEF n, d, k
  <2>1. n \in Nat /\ d \in Nat /\ k \in Nat \ {0}
    BY <1>1, Zenon
  <2> QED
    BY <2>1
<1>3. ASSUME ~Lists!IsPrefix(Head0, topic)
      PROVE  /\ parse_enabled_topic(topic) = NoText
             /\ parse_info_slug(topic) = NoText
  BY <1>3 DEF parse_enabled_topic, parse_info_slug, Head0
<1>4. CASE topic = availability_topic
  <2>1. topic \in Seq(Tokens) /\ Len(topic) = n + 2
    BY <1>4, AvailabilityShape
  <2>2. ~(n + 4 <= n + 2)
    <3> HIDE DEF n
    <3> QED
      BY <1>2
  <2>3. ~Lists!IsPrefix(Head0, topic)
    BY <2>1, <2>2, BeginsWithHead
  <2> QED
    BY <1>3, <2>3
<1>5. CASE topic = action_topic(s)
  <2>1. topic \in Seq(Tokens) /\ \A i \in 1..k : topic[n + 1 + i] = s[i]
    BY <1>5, ActionShape
  <2>2. 1 \in 1..k /\ n + 1 + 1 = n + 2
    <3> HIDE DEF n, k
    <3> QED
      BY <1>2
  <2>3. topic[n + 1 + 1] = s[1]
    BY <2>1, <2>2, Zenon
  <2>4. topic[n + 2] # "_"
    BY <1>1, <2>2, <2>3
  <2>5. ~Lists!IsPrefix(Head0, topic)
    BY <2>1, <2>4, BeginsWithHead
  <2> QED
    BY <1>3, <2>5
<1>6. CASE topic = device_discovery_topic(device_identifier(s))
  <2> DEFINE rest == Without(Head0, topic)
             l    == d + k + 2
  <2>1. /\ topic \in Seq(Tokens) /\ Len(topic) = d + n + k + 6
        /\ topic[d + n + k + 5] = "/" /\ topic[d + n + k + 6] = "config"
    BY <1>6, DiscoveryShape
  <2>2. /\ l \in Nat /\ d + n + k + 6 = n + 4 + l
        /\ l - 1 \in 1..l /\ l \in 1..l
        /\ n + 4 + (l - 1) = d + n + k + 5 /\ n + 4 + l = d + n + k + 6
    <3> HIDE DEF n, d, k
    <3> QED
      BY <1>2
  <2> HIDE DEF l
  <2>3. /\ rest \in Seq(Tokens) /\ Len(rest) = l
        /\ \A i \in 1..l : rest[i] = topic[n + 4 + i]
    BY <2>1, <2>2, WithoutHead
  <2> HIDE DEF rest
  <2>4. rest[l - 1] = "/" /\ rest[l] = "config"
    <3>1. rest[l - 1] = topic[n + 4 + (l - 1)] /\ rest[l] = topic[n + 4 + l]
      BY <2>2, <2>3, Zenon
    <3> QED
      BY <2>1, <2>2, <3>1
  <2>5. Lists!Contains(rest, "/")
    BY <2>2, <2>3, <2>4 DEF Lists!Contains
  <2>6. ~Lists!IsSuffix(<<"/", "enabled">>, rest)
    <3> SUFFICES ASSUME Lists!IsSuffix(<<"/", "enabled">>, rest) PROVE FALSE
      OBVIOUS
    <3>1. rest[Len(rest)] = "enabled"
      BY <2>3, EndsWithEnabled
    <3> QED
      BY <2>3, <2>4, <3>1
  <2>7. parse_enabled_topic(topic) = NoText
    BY <2>6 DEF parse_enabled_topic, rest, Head0
  <2>8. parse_info_slug(topic) = NoText
    BY <2>5 DEF parse_info_slug, rest, Head0
  <2> QED
    BY <2>7, <2>8
<1> QED
  BY <1>4, <1>5, <1>6

(* A topic leads back to the device it was made for, and the topics of      *)
(* other kinds to none: what the coordinator takes for a command and what   *)
(* the client lists (parse_enabled_topic and parse_info_slug, and the       *)
(* topics of topics.rs).                                                    *)
THEOREM DbTopicsLeadBack == DbSpec => []TopicsLeadBack
<1>1. NamingInv => TopicsLeadBack
  <2> SUFFICES ASSUME NamingInv, NEW i \in DOMAIN devices,
                      NEW topic \in TopicsOf[devices[i].slug] \cup {availability_topic}
               PROVE  LET slug == devices[i].slug IN
                      ParsedAs[topic] = CASE topic = device_enabled_topic(slug) -> <<slug, NoText>>
                                          [] topic = device_info_topic(slug)    -> <<NoText, slug>>
                                          [] OTHER                              -> <<NoText, NoText>>
    BY DEF TopicsLeadBack
  <2> DEFINE s == devices[i].slug
  <2>1. IsSlug(s)
    BY DEF NamingInv, HoldsSlugs
  <2>2. s \in Slugs
    <3>1. devices[i] \in Record
      BY ElementOfSeq DEF NamingInv, DbInv, DbTypeOK
    <3> QED
      BY <3>1 DEF Record
  <2> HIDE DEF s
  <2>3. ParsedAs[topic] = <<parse_enabled_topic(topic), parse_info_slug(topic)>>
    <3>1. topic \in (UNION {TopicsOf[r] : r \in Slugs}) \cup {availability_topic}
      BY <2>2 DEF s
    <3> QED
      BY <3>1, Zenon DEF ParsedAs
  <2>4. topic \in { action_topic(s), device_info_topic(s), device_enabled_topic(s),
                    device_discovery_topic(device_identifier(s)), availability_topic }
    BY <2>2, NamesOfSlug DEF s
  <2>5. CASE topic = device_enabled_topic(s)
    <3>1. parse_enabled_topic(topic) = s /\ parse_info_slug(topic) = NoText
      BY <2>1, <2>5, EnabledParsed
    <3>2. topic # device_info_topic(s)
      BY <2>1, <2>5, KindsDiffer
    <3> QED
      BY <2>3, <2>5, <3>1, <3>2 DEF s
  <2>6. CASE topic = device_info_topic(s)
    <3>1. topic # device_enabled_topic(s)
      BY <2>1, <2>6, KindsDiffer
    <3> QED
      BY <2>1, <2>3, <2>6, <3>1, InfoParsed DEF s
  <2>7. CASE topic \in { action_topic(s), availability_topic,
                         device_discovery_topic(device_identifier(s)) }
    <3>1. topic # device_enabled_topic(s) /\ topic # device_info_topic(s)
      BY <2>1, <2>7, KindsDiffer, AvailabilityDiffers
    <3>2. parse_enabled_topic(topic) = NoText /\ parse_info_slug(topic) = NoText
      BY <2>1, <2>7, OthersParsed
    <3> QED
      BY <2>3, <3>1, <3>2 DEF s
  <2> QED
    BY <2>4, <2>5, <2>6, <2>7
<1> QED
  BY <1>1, RecordsHaveSlugs, PTL
-----------------------------------------------------------------------------
(* Fingerprints.                                                            *)

IsAscending(list, codes) ==
    /\ list \in [1..Cardinality(codes) -> codes]
    /\ \A i, j \in DOMAIN list : i < j => list[i] < list[j]

(* Every finite set of numbers can be sorted.                               *)
LEMMA CanBeSorted ==
    ASSUME NEW codes \in SUBSET Nat, IsFiniteSet(codes)
    PROVE  \E list : IsAscending(list, codes)
<1> DEFINE P == {n \in Nat : \A S \in SUBSET Nat :
                    IsFiniteSet(S) /\ Cardinality(S) = n => \E list : IsAscending(list, S)}
<1>1. 0 \in P
  <2>1. ASSUME NEW S \in SUBSET Nat, IsFiniteSet(S), Cardinality(S) = 0
        PROVE  \E list : IsAscending(list, S)
    <3> DEFINE list == [i \in 1..0 |-> 0]
    <3>1. list \in [1..0 -> S] /\ \A i, j \in DOMAIN list : i < j => list[i] < list[j]
      OBVIOUS
    <3> HIDE DEF list
    <3>2. IsAscending(list, S)
      BY <2>1, <3>1 DEF IsAscending
    <3> QED
      BY <3>2
  <2> QED
    BY <2>1
<1>2. ASSUME NEW n \in Nat, n \in P PROVE n + 1 \in P
  <2>1. ASSUME NEW S \in SUBSET Nat, IsFiniteSet(S), Cardinality(S) = n + 1
        PROVE  \E list : IsAscending(list, S)
    <3>1. S # {}
      BY <2>1, FS_EmptySet
    <3>2. PICK least \in S : \A m \in S : least <= m
      BY <3>1, LeastNumber
    <3> DEFINE T == S \ {least}
    <3>3. T \in SUBSET Nat /\ IsFiniteSet(T) /\ Cardinality(T) = n
      <4>1. IsFiniteSet(T) /\ Cardinality(T) = (n + 1) - 1
        BY <2>1, FS_RemoveElement
      <4> HIDE DEF T
      <4>2. T \in SUBSET Nat
        BY DEF T
      <4> QED
        BY <4>1, <4>2
    <3>4. T \subseteq S /\ \A m \in T : least < m
      BY <3>2
    <3> HIDE DEF T
    <3>5. PICK old : IsAscending(old, T)
      BY <1>2, <3>3
    <3>6. /\ old \in [1..n -> T]
          /\ \A i, j \in 1..n : i < j => old[i] < old[j]
      BY <3>3, <3>5 DEF IsAscending
    <3> DEFINE new == [i \in 1..(n + 1) |-> IF i = 1 THEN least ELSE old[i - 1]]
    <3>7. \A i \in 1..(n + 1) : i = 1 \/ i - 1 \in 1..n
      OBVIOUS
    <3>8. new \in [1..(n + 1) -> S]
      BY <3>4, <3>6, <3>7
    <3>9. ASSUME NEW i \in 1..(n + 1), NEW j \in 1..(n + 1), i < j
          PROVE  new[i] < new[j]
      <4>1. j # 1 /\ j - 1 \in 1..n
        BY <3>9
      <4>2. new[j] = old[j - 1] /\ old[j - 1] \in T
        BY <3>6, <4>1
      <4>3. CASE i = 1
        BY <3>4, <4>2, <4>3
      <4>4. CASE i # 1
        <5>1. i - 1 \in 1..n /\ i - 1 < j - 1
          BY <3>9, <4>4
        <5>2. new[i] = old[i - 1]
          BY <4>4
        <5> QED
          BY <3>6, <4>1, <4>2, <5>1, <5>2
      <4> QED
        BY <4>3, <4>4
    <3>10. DOMAIN new = 1..(n + 1)
      OBVIOUS
    <3> HIDE DEF new
    <3>11. IsAscending(new, S)
      BY <2>1, <3>8, <3>9, <3>10 DEF IsAscending
    <3> QED
      BY <3>11
  <2> QED
    BY <2>1
<1>3. Cardinality(codes) \in Nat
  BY FS_CardinalityType
<1>4. Cardinality(codes) \in P
  <2> HIDE DEF P
  <2> DEFINE N == Cardinality(codes)
  <2>1. \A n \in 0..(N - 1) : n \in P => n + 1 \in P
    <3> HIDE DEF N
    <3> QED
      BY <1>2, <1>3 DEF N
  <2>2. \A n \in 0..N : n \in P
    BY <1>1, <1>3, <2>1, Counting
  <2> QED
    BY <1>3, <2>2
<1> QED
  BY <1>4

(* The sorted list of a section has the codes of the section and no other.  *)
CodesIn(list) == {list[i] : i \in 1..Len(list)}

LEMMA AscendingLemma ==
    ASSUME NEW N \in Nat, NEW codes \in SUBSET (0..N)
    PROVE  /\ Ascending(codes) \in Seq(0..N)
           /\ codes = CodesIn(Ascending(codes))
<1> DEFINE list == Ascending(codes)
           n    == Cardinality(codes)
<1>1. codes \in SUBSET Nat /\ IsFiniteSet(codes) /\ n \in Nat
  <2>1. codes \in SUBSET Nat /\ \A c \in codes : c <= N
    OBVIOUS
  <2>2. IsFiniteSet(codes)
    BY <2>1, FS_BoundedSetOfNaturals
  <2> QED
    BY <2>1, <2>2, FS_CardinalityType
<1>2. IsAscending(list, codes)
  <2>1. \E l \in [1..Cardinality(codes) -> codes] :
           \A i, j \in DOMAIN l : i < j => l[i] < l[j]
    BY <1>1, CanBeSorted DEF IsAscending
  <2> QED
    BY <2>1, Zenon DEF Ascending, IsAscending
<1> HIDE DEF list, n
<1>3. /\ list \in [1..n -> codes]
      /\ \A i, j \in 1..n : i < j => list[i] < list[j]
  BY <1>2 DEF IsAscending, n
<1>4. list \in Seq(0..N) /\ Len(list) = n
  <2>1. list \in [1..n -> 0..N]
    BY <1>3
  <2>2. [i \in 1..n |-> list[i]] \in Seq(0..N)
    BY <1>1, <2>1, IsASeq
  <2>3. list = [i \in 1..n |-> list[i]]
    BY <2>1
  <2>4. DOMAIN list = 1..n
    BY <2>1
  <2> QED
    BY <1>1, <2>2, <2>3, <2>4, LenProperties
<1>5. list \in Injection(1..n, codes)
  <2>1. ASSUME NEW i \in 1..n, NEW j \in 1..n, list[i] = list[j] PROVE i = j
    <3>1. list[i] \in Nat /\ list[j] \in Nat
      BY <1>1, <1>3
    <3>2. ~(i < j) /\ ~(j < i)
      BY <1>3, <2>1, <3>1
    <3> QED
      BY <1>1, <3>2
  <2> QED
    BY <1>3, <2>1 DEF Injection, IsInjective
<1>6. Cardinality(1..n) = n
  BY <1>1, FS_Interval
<1>7. list \in Surjection(1..n, codes)
  BY <1>1, <1>5, <1>6, FS_Injection DEF n
<1>8. codes = {list[i] : i \in 1..n}
  <2>1. \A c \in codes : \E i \in 1..n : list[i] = c
    BY <1>7 DEF Surjection
  <2>2. \A i \in 1..n : list[i] \in codes
    BY <1>3
  <2> QED
    BY <2>1, <2>2
<1> QED
  BY <1>4, <1>8 DEF list, CodesIn

(* The last mark can be found in what is folded.                            *)
Lacks(list, mark) == \A i \in 1..Len(list) : list[i] # mark

(* A list with a mark in it.                                                *)
MarkedAt(a, mark, u) == a \o <<mark>> \o u

LEMMA LastMark ==
    ASSUME NEW a \in Seq(Nat), NEW b \in Seq(Nat), NEW u \in Seq(Nat), NEW v \in Seq(Nat),
           NEW mark \in Nat, Lacks(u, mark), Lacks(v, mark),
           MarkedAt(a, mark, u) = MarkedAt(b, mark, v)
    PROVE  a = b /\ u = v
<1> DEFINE n == Len(a)
           m == Len(b)
           k == Len(u)
           l == Len(v)
           one == <<mark>>
           whole == a \o one \o u
<1>1. n \in Nat /\ m \in Nat /\ k \in Nat /\ l \in Nat
  BY LenProperties
<1>2. one \in Seq(Nat) /\ Len(one) = 1 /\ one[1] = mark
  OBVIOUS
<1>3. ThreeParts(whole, Nat, a, n, one, 1, u, k)
  <2> HIDE DEF one
  <2> QED
    BY <1>2, ThreeJoined, Zenon
<1>4. ThreeParts(whole, Nat, b, m, one, 1, v, l)
  <2>1. whole = b \o one \o v
    BY DEF MarkedAt
  <2> HIDE DEF one, whole
  <2>2. ThreeParts(b \o one \o v, Nat, b, m, one, 1, v, l)
    BY <1>2, ThreeJoined, Zenon
  <2> QED
    BY <2>1, <2>2, Zenon
<1> HIDE DEF one, whole
<1>5. /\ Len(whole) = n + 1 + k
      /\ \A i \in 1..n : whole[i] = a[i]
      /\ whole[n + 1] = mark
      /\ \A i \in 1..k : whole[n + 1 + i] = u[i]
  BY <1>2, <1>3 DEF ThreeParts
<1>6. /\ Len(whole) = m + 1 + l
      /\ \A i \in 1..m : whole[i] = b[i]
      /\ whole[m + 1] = mark
      /\ \A i \in 1..l : whole[m + 1 + i] = v[i]
  BY <1>2, <1>4 DEF ThreeParts
<1>7. n = m
  <2> HIDE DEF n, m, k, l
  <2>1. n + 1 + k = m + 1 + l
    BY <1>5, <1>6
  <2>2. CASE n < m
    <3>1. m - n \in 1..k /\ n + 1 + (m - n) = m + 1
      BY <1>1, <2>1, <2>2
    <3>2. whole[n + 1 + (m - n)] = u[m - n]
      BY <1>5, <3>1, Zenon
    <3> QED
      BY <1>6, <3>1, <3>2 DEF k, Lacks
  <2>3. CASE m < n
    <3>1. n - m \in 1..l /\ m + 1 + (n - m) = n + 1
      BY <1>1, <2>1, <2>3
    <3>2. whole[m + 1 + (n - m)] = v[n - m]
      BY <1>6, <3>1, Zenon
    <3> QED
      BY <1>5, <3>1, <3>2 DEF l, Lacks
  <2> QED
    BY <1>1, <2>2, <2>3
<1>8. k = l
  <2> HIDE DEF n, m, k, l
  <2> QED
    BY <1>1, <1>5, <1>6, <1>7
<1>9. a = b
  <2>1. \A i \in 1..Len(a) : a[i] = b[i]
    BY <1>5, <1>6, <1>7
  <2> QED
    BY <1>7, <2>1, SeqEqual
<1>10. u = v
  <2>1. \A i \in 1..Len(u) : u[i] = v[i]
    BY <1>5, <1>6, <1>7, <1>8
  <2> QED
    BY <1>8, <2>1, SeqEqual
<1> QED
  BY <1>9, <1>10

(* What is folded.                                                          *)
LEMMA Folded ==
    ASSUME NEW g, NEW h, capability_fingerprint(g) = capability_fingerprint(h)
    PROVE  <<TYPES>> \o Ascending(g.types) \o <<KEYS>> \o Ascending(g.keys)
           \o <<RELS>> \o Ascending(g.rels) \o <<ABSS>> \o Ascending(g.abss)
           = <<TYPES>> \o Ascending(h.types) \o <<KEYS>> \o Ascending(h.keys)
             \o <<RELS>> \o Ascending(h.rels) \o <<ABSS>> \o Ascending(h.abss)
  BY DEF capability_fingerprint

LEMMA Marks ==
    /\ KEY_MAX \in Nat /\ TYPES \in Nat /\ KEYS \in Nat /\ RELS \in Nat /\ ABSS \in Nat
    /\ \A code \in 0..KEY_MAX : code \in Nat /\ code \notin {KEYS, RELS, ABSS}
  BY SMT DEF KEY_MAX, TYPES, KEYS, RELS, ABSS

(* The fingerprint tells the capabilities: what is folded falls apart into  *)
(* the sections again, because no code is a mark.                           *)
LEMMA FingerprintTells ==
    ASSUME NEW g \in Hardware, NEW h \in Hardware,
           capability_fingerprint(g) = capability_fingerprint(h)
    PROVE  Capabilities(g) = Capabilities(h)
<1> DEFINE N  == KEY_MAX
           m1 == TYPES
           m2 == KEYS
           m3 == RELS
           m4 == ABSS
           a1 == Ascending(g.types)
           a2 == Ascending(g.keys)
           a3 == Ascending(g.rels)
           a4 == Ascending(g.abss)
           b1 == Ascending(h.types)
           b2 == Ascending(h.keys)
           b3 == Ascending(h.rels)
           b4 == Ascending(h.abss)
<1>0. /\ N \in Nat /\ m1 \in Nat /\ m2 \in Nat /\ m3 \in Nat /\ m4 \in Nat
      /\ \A code \in 0..N : code \in Nat /\ code \notin {m2, m3, m4}
  BY Marks, Zenon
<1>1. \A d \in {g, h} :
         /\ d.types \in SUBSET (0..N) /\ d.keys \in SUBSET (0..N)
         /\ d.rels \in SUBSET (0..N) /\ d.abss \in SUBSET (0..N)
  BY HardwareAssumption, Zenon
<1>3. <<m1>> \o a1 \o <<m2>> \o a2 \o <<m3>> \o a3 \o <<m4>> \o a4
      = <<m1>> \o b1 \o <<m2>> \o b2 \o <<m3>> \o b3 \o <<m4>> \o b4
  BY Folded, Zenon
<1> HIDE DEF N, m1, m2, m3, m4
<1>2. \A list \in {a1, a2, a3, a4, b1, b2, b3, b4} :
         list \in Seq(Nat) /\ Lacks(list, m2) /\ Lacks(list, m3) /\ Lacks(list, m4)
  <2>1. ASSUME NEW list \in Seq(0..N)
        PROVE  list \in Seq(Nat) /\ Lacks(list, m2) /\ Lacks(list, m3) /\ Lacks(list, m4)
    <3>1. 0..N \subseteq Nat
      BY <1>0
    <3>2. list \in Seq(Nat)
      BY <3>1, SeqMonotonic
    <3>3. \A i \in 1..Len(list) : list[i] \in 0..N
      BY ElementOfSeq
    <3> QED
      BY <1>0, <3>2, <3>3 DEF Lacks
  <2>2. ASSUME NEW d \in {g, h}
        PROVE  /\ Ascending(d.types) \in Seq(0..N) /\ Ascending(d.keys) \in Seq(0..N)
               /\ Ascending(d.rels) \in Seq(0..N) /\ Ascending(d.abss) \in Seq(0..N)
    <3>1. /\ d.types \in SUBSET (0..N) /\ d.keys \in SUBSET (0..N)
          /\ d.rels \in SUBSET (0..N) /\ d.abss \in SUBSET (0..N)
      BY <1>1
    <3> QED
      BY <1>0, <3>1, AscendingLemma
  <2>3. /\ a1 \in Seq(0..N) /\ a2 \in Seq(0..N)
        /\ a3 \in Seq(0..N) /\ a4 \in Seq(0..N)
        /\ b1 \in Seq(0..N) /\ b2 \in Seq(0..N)
        /\ b3 \in Seq(0..N) /\ b4 \in Seq(0..N)
    BY <2>2
  <2> HIDE DEF a1, a2, a3, a4, b1, b2, b3, b4
  <2>4. \A list \in {a1, a2, a3, a4, b1, b2, b3, b4} : list \in Seq(0..N)
    BY <2>3
  <2> QED
    BY <2>1, <2>4, Zenon
<1> HIDE DEF a1, a2, a3, a4, b1, b2, b3, b4
<1>4. /\ <<m1>> \in Seq(Nat) /\ <<m2>> \in Seq(Nat)
      /\ <<m3>> \in Seq(Nat) /\ <<m4>> \in Seq(Nat)
  BY <1>0
<1> DEFINE c1 == <<m1>> \o a1
           d1 == <<m1>> \o b1
           c2 == c1 \o <<m2>> \o a2
           d2 == d1 \o <<m2>> \o b2
           c3 == c2 \o <<m3>> \o a3
           d3 == d2 \o <<m3>> \o b3
<1>5. c1 \in Seq(Nat) /\ d1 \in Seq(Nat)
  BY <1>2, <1>4, ConcatProperties
<1>6. c3 \o <<m4>> \o a4 = d3 \o <<m4>> \o b4
  BY <1>3
<1> HIDE DEF c1, d1
<1>7. c2 \in Seq(Nat) /\ d2 \in Seq(Nat)
  BY <1>2, <1>4, <1>5, ConcatProperties
<1>8. c2 \o <<m3>> \o a3 = c3 /\ d2 \o <<m3>> \o b3 = d3
  OBVIOUS
<1> HIDE DEF c2, d2
<1>9. c3 \in Seq(Nat) /\ d3 \in Seq(Nat)
  BY <1>2, <1>4, <1>7, ConcatProperties
<1> HIDE DEF c3, d3
<1>10. c3 = d3 /\ a4 = b4
  <2>1. /\ a4 \in Seq(Nat) /\ Lacks(a4, m4)
        /\ b4 \in Seq(Nat) /\ Lacks(b4, m4)
    BY <1>2
  <2>2. MarkedAt(c3, m4, a4) = MarkedAt(d3, m4, b4)
    BY <1>6 DEF MarkedAt
  <2>3. m4 \in Nat
    BY <1>0
  <2>4. c3 \in Seq(Nat)
    BY <1>9
  <2>5. d3 \in Seq(Nat)
    BY <1>9
  <2> QED
    BY <2>1, <2>2, <2>3, <2>4, <2>5, LastMark, SMT
<1>11. c2 = d2 /\ a3 = b3
  <2>1. /\ a3 \in Seq(Nat) /\ Lacks(a3, m3)
        /\ b3 \in Seq(Nat) /\ Lacks(b3, m3)
    BY <1>2
  <2>2. MarkedAt(c2, m3, a3) = MarkedAt(d2, m3, b3)
    BY <1>8, <1>10 DEF MarkedAt
  <2>3. m3 \in Nat
    BY <1>0
  <2>4. c2 \in Seq(Nat)
    BY <1>7
  <2>5. d2 \in Seq(Nat)
    BY <1>7
  <2> QED
    BY <2>1, <2>2, <2>3, <2>4, <2>5, LastMark, SMT
<1>12. c1 = d1 /\ a2 = b2
  <2>1. /\ a2 \in Seq(Nat) /\ Lacks(a2, m2)
        /\ b2 \in Seq(Nat) /\ Lacks(b2, m2)
    BY <1>2
  <2>2. MarkedAt(c1, m2, a2) = MarkedAt(d1, m2, b2)
    BY <1>11 DEF MarkedAt, c2, d2
  <2>3. m2 \in Nat
    BY <1>0
  <2>4. c1 \in Seq(Nat)
    BY <1>5
  <2>5. d1 \in Seq(Nat)
    BY <1>5
  <2> QED
    BY <2>1, <2>2, <2>3, <2>4, <2>5, LastMark, SMT
<1>13. a1 = b1
  <2>1. <<m1>> \o a1 = <<m1>> \o b1
    BY <1>12 DEF c1, d1
  <2>2. a1 \in Seq(Nat) /\ b1 \in Seq(Nat)
    BY <1>2
  <2> DEFINE one == <<m1>>
  <2>3. one \in Seq(Nat) /\ one \o a1 = one \o b1
    BY <1>4, <2>1
  <2> HIDE DEF one
  <2> QED
    BY <2>2, <2>3, ConcatSimplifications
<1>14. g.types = h.types /\ g.keys = h.keys /\ g.rels = h.rels /\ g.abss = h.abss
  <2>1. ASSUME NEW S \in SUBSET (0..N), NEW T \in SUBSET (0..N),
               Ascending(S) = Ascending(T)
        PROVE  S = T
    <3>1. S = CodesIn(Ascending(S)) /\ T = CodesIn(Ascending(T))
      BY <1>0, AscendingLemma
    <3> QED
      BY <2>1, <3>1, Zenon
  <2>2. /\ g.types \in SUBSET (0..N) /\ h.types \in SUBSET (0..N)
        /\ g.keys \in SUBSET (0..N) /\ h.keys \in SUBSET (0..N)
        /\ g.rels \in SUBSET (0..N) /\ h.rels \in SUBSET (0..N)
        /\ g.abss \in SUBSET (0..N) /\ h.abss \in SUBSET (0..N)
    BY <1>1
  <2>3. /\ Ascending(g.types) = Ascending(h.types)
        /\ Ascending(g.keys) = Ascending(h.keys)
        /\ Ascending(g.rels) = Ascending(h.rels)
        /\ Ascending(g.abss) = Ascending(h.abss)
    BY <1>10, <1>11, <1>12, <1>13 DEF a1, a2, a3, a4, b1, b2, b3, b4
  <2> QED
    BY <2>1, <2>2, <2>3
<1> QED
  BY <1>14 DEF Capabilities

(* The collections of one receiver never fold into one record: a record     *)
(* with a fingerprint describes devices of one set of capabilities only     *)
(* (`capability_fingerprint`, discovery.rs, and `matches`, db.rs).          *)
THEOREM DbCollectionsStayApart == DbSpec => []CollectionsStayApart
<1>1. CollectionsStayApart
  <2> SUFFICES ASSUME NEW i \in DOMAIN devices, NEW g \in Hardware, NEW h \in Hardware,
                      devices[i].caps # None,
                      Matches(devices[i], Read[g]), Matches(devices[i], Read[h])
               PROVE  Capabilities(g) = Capabilities(h)
    BY DEF CollectionsStayApart
  <2>1. Read[g].caps = Read[h].caps
    BY DEF Matches
  <2>2. /\ Read[g].caps = capability_fingerprint(g)
        /\ Read[h].caps = capability_fingerprint(h)
    BY DEF Read, from_open_device
  <2> QED
    BY <2>1, <2>2, FingerprintTells
<1> QED
  BY <1>1, PTL
=============================================================================
