---------------------------- MODULE CasesProofs ----------------------------
(***************************************************************************)
(* Theorems about Cases, for every set of lines, hence every text, and every *)
(* history.                                                                 *)
(*                                                                          *)
(* Recursion over a text is reasoned about by least counterexamples: that    *)
(* sets of naturals have a least element needs no operator as a parameter.   *)
(***************************************************************************)
EXTENDS Cases, TLAPS, FiniteSetTheorems, WellFoundedInduction

-----------------------------------------------------------------------------
(* Induction and recursion *)

LEMMA LeastOfNaturals ==
  ASSUME NEW S \in SUBSET Nat, S # {}
  PROVE  \E x \in S : \A y \in S : x <= y
<1> DEFINE below == {ss \in Nat \X Nat : ss[1] < ss[2]}
<1>1. IsWellFoundedOn(below, Nat)
  BY NatLessThanWellFounded DEF OpToRel
<1>2. PICK x \in S : \A y \in S : <<y, x>> \notin below
  <2> HIDE DEF below
  <2> QED
    BY <1>1, WFMin
<1>3. \A y \in S : ~(y < x)
  BY <1>2
<1> QED
  BY <1>3

LEMMA LeastIsLeast ==
  ASSUME NEW S \in SUBSET Nat, S # {}
  PROVE  Least(S) \in S /\ \A y \in S : Least(S) <= y
<1>1. PICK x \in S : \A y \in S : x <= y
  BY LeastOfNaturals
<1> QED
  BY <1>1 DEF Least

\* Whatever holds of 0 and, with a number, of the next one ...
LEMMA Induction ==
  ASSUME NEW S \in SUBSET Nat, 0 \in S, \A k \in S : k + 1 \in S
  PROVE  S = Nat
<1> SUFFICES ASSUME Nat \ S # {}
             PROVE  FALSE
  OBVIOUS
<1>1. PICK x \in Nat \ S : \A y \in Nat \ S : x <= y
  BY LeastOfNaturals
<1>2. x - 1 \in Nat /\ x - 1 \notin Nat \ S
  BY <1>1
<1> QED
  BY <1>1, <1>2

\* What step says of the value at d depends on values at smaller ranks.
LooksBelow(step, rank, D, S) ==
  /\ step \in [D -> [[D -> S] -> S]]
  /\ \A d \in D : \A f, g \in [D -> S] :
       (\A e \in D : rank[e] < rank[d] => f[e] = g[e]) => step[d][f] = step[d][g]

\* A function may be defined by what it is at arguments of smaller rank.
LEMMA RecursionIsSound ==
  ASSUME NEW D, NEW S, S # {}, NEW N \in Nat, NEW rank \in [D -> 0..N],
         NEW step, LooksBelow(step, rank, D, S)
  PROVE  \E f \in [D -> S] : \A d \in D : f[d] = step[d][f]
<1> DEFINE good == {k \in Nat : \E f \in [D -> S] : \A d \in D :
                                  rank[d] < k => f[d] = step[d][f]}
<1>1. 0 \in good
  <2>1. PICK s \in S : TRUE
    OBVIOUS
  <2>2. PICK f : f \in [D -> S]
    <3>1. [d \in D |-> s] \in [D -> S]
      OBVIOUS
    <3> QED
      BY <3>1, Zenon
  <2>3. \A d \in D : ~(rank[d] < 0)
    OBVIOUS
  <2> QED
    BY <2>2, <2>3
<1>2. ASSUME NEW k \in good
      PROVE  k + 1 \in good
  <2>1. PICK f \in [D -> S] : \A d \in D : rank[d] < k => f[d] = step[d][f]
    OBVIOUS
  <2> DEFINE g == [d \in D |-> IF rank[d] = k THEN step[d][f] ELSE f[d]]
  <2>2. g \in [D -> S]
    BY DEF LooksBelow
  <2>3. ASSUME NEW d \in D, rank[d] < k + 1
        PROVE  g[d] = step[d][g]
    <3>1. \A e \in D : rank[e] < rank[d] => f[e] = g[e]
      BY <2>3
    <3>2. step[d][f] = step[d][g]
      <4> HIDE DEF g
      <4> QED
        BY <2>2, <3>1 DEF LooksBelow
    <3>3. rank[d] = k \/ rank[d] < k
      <4>1. rank[d] \in Int /\ k \in Int
        OBVIOUS
      <4>2. \A a, b \in Int : a < b + 1 => a = b \/ a < b
        OBVIOUS
      <4> QED
        BY <2>3, <4>1, <4>2, Zenon
    <3>4. g[d] = step[d][f]
      BY <2>1, <3>3
    <3> QED
      BY <3>2, <3>4
  <2> HIDE DEF g
  <2> QED
    BY <2>2, <2>3
<1>3. N + 1 \in good
  <2> HIDE DEF good
  <2>1. good \in SUBSET Nat
    BY DEF good
  <2> QED
    BY <1>1, <1>2, <2>1, Induction
<1>4. PICK f \in [D -> S] : \A d \in D : rank[d] < N + 1 => f[d] = step[d][f]
  BY <1>3
<1>5. \A d \in D : rank[d] < N + 1
  OBVIOUS
<1> QED
  BY <1>4, <1>5


\* The case of one step from each number to the next
Unfolds(f, first, step, a, b, S) ==
  /\ f \in [a..b -> S]
  /\ a <= b => f[a] = first
  /\ \A i \in a + 1..b : f[i] = step[i][f[i - 1]]

StepsWithin(step, a, b, S) == \A i \in a + 1..b, x \in S : step[i][x] \in S

LEMMA RecursionOnInterval ==
  ASSUME NEW a \in Nat, NEW b \in Nat, NEW S, NEW first \in S,
         NEW step, StepsWithin(step, a, b, S)
  PROVE  \E f : Unfolds(f, first, step, a, b, S)
<1> DEFINE D == a..b
           rank == [i \in D |-> i - a]
           full == [i \in D |-> [f \in [D -> S] |-> IF i = a THEN first ELSE step[i][f[i - 1]]]]
<1>1. rank \in [D -> 0..b]
  OBVIOUS
<1>2. full \in [D -> [[D -> S] -> S]]
  <2>1. ASSUME NEW i \in D, NEW f \in [D -> S]
        PROVE  (IF i = a THEN first ELSE step[i][f[i - 1]]) \in S
    <3>1. CASE i = a
      BY <3>1
    <3>2. CASE i # a
      <4>1. i - 1 \in D
        BY <3>2
      <4>2. f[i - 1] \in S
        BY <4>1
      <4> QED
        BY <3>2, <4>2 DEF StepsWithin
    <3> QED
      BY <3>1, <3>2
  <2> QED
    BY <2>1
<1>3. LooksBelow(full, rank, D, S)
  <2> SUFFICES ASSUME NEW d \in D, NEW f \in [D -> S], NEW g \in [D -> S],
                      \A e \in D : rank[e] < rank[d] => f[e] = g[e]
               PROVE  full[d][f] = full[d][g]
    BY <1>2, Zenon DEF LooksBelow
  <2>1. CASE d = a
    BY <2>1
  <2>2. CASE d # a
    <3>1. d - 1 \in D /\ rank[d - 1] < rank[d]
      BY <2>2
    <3>2. f[d - 1] = g[d - 1]
      BY <3>1
    <3> QED
      BY <2>2, <3>2
  <2> QED
    BY <2>1, <2>2
<1>4. PICK f \in [D -> S] : \A d \in D : f[d] = full[d][f]
  <2>1. S # {}
    OBVIOUS
  <2> HIDE DEF D, rank, full
  <2> QED
    BY <1>1, <1>3, <2>1, RecursionIsSound
<1>5. \A i \in D : full[i][f] = IF i = a THEN first ELSE step[i][f[i - 1]]
  OBVIOUS
<1>6. Unfolds(f, first, step, a, b, S)
  BY <1>4, <1>5 DEF Unfolds
<1> QED
  BY <1>6

\* What follows the steps from an element of S stays in S.
LEMMA UnfoldingStays ==
  ASSUME NEW a \in Nat, NEW b \in Nat, NEW S, NEW first \in S,
         NEW step, StepsWithin(step, a, b, S),
         NEW g, a <= b => g[a] = first,
         \A i \in a + 1..b : g[i - 1] \in S => g[i] = step[i][g[i - 1]]
  PROVE  \A i \in a..b : g[i] \in S
<1> DEFINE good == {k \in Nat : a + k \in a..b => g[a + k] \in S}
<1>1. 0 \in good
  OBVIOUS
<1>2. ASSUME NEW k \in good
      PROVE  k + 1 \in good
  <2>1. CASE a + (k + 1) \in a..b
    <3>1. a + k \in a..b /\ a + k + 1 \in a + 1..b /\ (a + k + 1) - 1 = a + k
      BY <2>1
    <3>2. g[a + k] \in S
      BY <3>1
    <3>3. g[a + k + 1] = step[a + k + 1][g[a + k]]
      BY <3>1, <3>2
    <3>4. g[a + k + 1] \in S
      BY <3>1, <3>2, <3>3 DEF StepsWithin
    <3> QED
      BY <3>4
  <2> QED
    BY <2>1
<1>3. good = Nat
  <2> HIDE DEF good
  <2>1. good \in SUBSET Nat
    BY DEF good
  <2> QED
    BY <1>1, <1>2, <2>1, Induction
<1>4. ASSUME NEW i \in a..b
      PROVE  g[i] \in S
  <2>1. i - a \in good /\ a + (i - a) = i
    BY <1>3
  <2> QED
    BY <2>1
<1> QED
  BY <1>4

-----------------------------------------------------------------------------
(* The two readings of a text are what their equations say. *)

Stands == {"out", "in", "single", "double"}

StandsAfter(t, i, before) ==
  CASE before = "out" -> IF IsStart(t, i) THEN "in" ELSE "out"
    [] before = "in" ->
         IF t[i] = Slash THEN "out" ELSE IF t[i] \in Quotes THEN t[i][2] ELSE "in"
    [] OTHER -> IF t[i] = <<"quote", before>> THEN "in" ELSE before

LEMMA StandsAfterType ==
  ASSUME NEW t, NEW i, NEW before \in Stands
  PROVE  StandsAfter(t, i, before) \in Stands
<1>1. \A q \in Quotes : q[2] \in Stands
  BY DEF Quotes, Stands
<1> QED
  BY <1>1 DEF StandsAfter, Stands

LEMMA StandingIs ==
  ASSUME NEW t \in Seq(Tokens)
  PROVE  /\ Standing(t) \in [0..Len(t) -> Stands]
         /\ Standing(t)[0] = "out"
         /\ \A i \in 1..Len(t) : Standing(t)[i] = StandsAfter(t, i, Standing(t)[i - 1])
<1> DEFINE n == Len(t)
           step == [i \in 1..n |-> [before \in Stands |-> StandsAfter(t, i, before)]]
           Body(at) == [i \in 0..n |-> IF i = 0 THEN "out" ELSE StandsAfter(t, i, at[i - 1])]
<1>0. n \in Nat /\ 0 \in Nat /\ "out" \in Stands
  BY DEF Stands
<1>1. StepsWithin(step, 0, n, Stands)
  BY StandsAfterType DEF StepsWithin
<1>2. PICK f : Unfolds(f, "out", step, 0, n, Stands)
  <2> HIDE DEF step, n
  <2> QED
    BY <1>0, <1>1, RecursionOnInterval
<1>3. f = Body(f)
  <2>1. f \in [0..n -> Stands] /\ f[0] = "out"
    BY <1>0, <1>2 DEF Unfolds
  <2>2. ASSUME NEW i \in 1..n
        PROVE  f[i] = StandsAfter(t, i, f[i - 1])
    <3>1. f[i - 1] \in Stands
      BY <2>1
    <3> QED
      BY <1>2, <3>1 DEF Unfolds
  <2> QED
    BY <2>1, <2>2
<1>4. Standing(t) = CHOOSE at : at = Body(at)
  BY DEF Standing, StandsAfter
<1>5. Standing(t) = Body(Standing(t))
  <2> HIDE DEF Body
  <2> QED
    BY <1>3, <1>4
<1>6. Standing(t)[0] = "out"
  BY <1>5
<1>7. \A i \in 1..Len(t) : Standing(t)[i] = StandsAfter(t, i, Standing(t)[i - 1])
  BY <1>5
<1>8. \A i \in 0..n : Standing(t)[i] \in Stands
  <2> DEFINE at == Standing(t)
  <2>1. ASSUME NEW i \in 0 + 1..n, at[i - 1] \in Stands
        PROVE  at[i] = step[i][at[i - 1]]
    BY <1>7, <2>1
  <2> HIDE DEF step, n, at
  <2> QED
    BY <1>0, <1>1, <1>6, <2>1, UnfoldingStays DEF at
<1>9. Standing(t) \in [0..Len(t) -> Stands]
  BY <1>5, <1>8
<1> QED
  BY <1>6, <1>7, <1>9

Quotations == Quotes \union {Slash}

OpenAfter(t, c, open) ==
  IF open = Slash THEN IF t[c] \in Quotes THEN t[c] ELSE Slash
  ELSE IF t[c] = open THEN Slash ELSE open

LEMMA QuoteFromIs ==
  ASSUME NEW t \in Seq(Tokens), NEW p \in 1..Len(t)
  PROVE  /\ \A c \in p..Len(t) : QuoteFrom(t, p)[c] \in Quotations
         /\ QuoteFrom(t, p)[p] = Slash
         /\ \A c \in p + 1..Len(t) :
              QuoteFrom(t, p)[c] = OpenAfter(t, c, QuoteFrom(t, p)[c - 1])
<1> DEFINE n == Len(t)
           step == [c \in p + 1..n |-> [open \in Quotations |-> OpenAfter(t, c, open)]]
           Body(quote) == [c \in p..n |-> IF c = p THEN Slash ELSE OpenAfter(t, c, quote[c - 1])]
<1>0. n \in Nat /\ p \in Nat /\ Slash \in Quotations
  BY DEF Quotations
<1>1. StepsWithin(step, p, n, Quotations)
  BY DEF StepsWithin, Quotations, OpenAfter
<1>2. PICK f : Unfolds(f, Slash, step, p, n, Quotations)
  <2> HIDE DEF step, n
  <2> QED
    BY <1>0, <1>1, RecursionOnInterval
<1>3. f = Body(f)
  <2>1. f \in [p..n -> Quotations] /\ f[p] = Slash
    BY <1>0, <1>2 DEF Unfolds
  <2>2. ASSUME NEW c \in p + 1..n
        PROVE  f[c] = OpenAfter(t, c, f[c - 1])
    <3>1. f[c - 1] \in Quotations
      BY <2>1
    <3> QED
      BY <1>2, <3>1 DEF Unfolds
  <2> QED
    BY <2>1, <2>2
<1>4. QuoteFrom(t, p) = CHOOSE quote : quote = Body(quote)
  BY DEF QuoteFrom, OpenAfter
<1>5. QuoteFrom(t, p) = Body(QuoteFrom(t, p))
  <2> HIDE DEF Body
  <2> QED
    BY <1>3, <1>4
<1>6. QuoteFrom(t, p)[p] = Slash
  BY <1>5
<1>7. \A c \in p + 1..n : QuoteFrom(t, p)[c] = OpenAfter(t, c, QuoteFrom(t, p)[c - 1])
  BY <1>5
<1>8. \A c \in p..n : QuoteFrom(t, p)[c] \in Quotations
  <2> DEFINE quote == QuoteFrom(t, p)
  <2>1. ASSUME NEW c \in p + 1..n, quote[c - 1] \in Quotations
        PROVE  quote[c] = step[c][quote[c - 1]]
    BY <1>7, <2>1
  <2> HIDE DEF step, n, quote
  <2> QED
    BY <1>0, <1>1, <1>6, <2>1, UnfoldingStays DEF quote
<1> QED
  BY <1>6, <1>7, <1>8

LEMMA EndOfIs ==
  ASSUME NEW t \in Seq(Tokens), NEW p \in 1..Len(t)
  PROVE  LET end == EndOf(t, p)
             quote == QuoteFrom(t, p)
         IN  /\ end \in p + 1..Len(t) + 1
             /\ end # Len(t) + 1 => t[end] = Slash /\ quote[end - 1] = Slash
             /\ \A c \in p + 1..end - 1 : ~(t[c] = Slash /\ quote[c - 1] = Slash)
<1> DEFINE S == {c \in p + 1..Len(t) : t[c] = Slash /\ QuoteFrom(t, p)[c - 1] = Slash}
                  \union {Len(t) + 1}
<1>1. S \in SUBSET Nat /\ S # {}
  OBVIOUS
<1>2. EndOf(t, p) = Least(S)
  BY DEF EndOf
<1>3. EndOf(t, p) \in S /\ \A c \in S : EndOf(t, p) <= c
  <2> HIDE DEF S
  <2> QED
    BY <1>1, <1>2, LeastIsLeast
<1> QED
  BY <1>3

-----------------------------------------------------------------------------
(* The namelists that iter_namelists finds are those of the reference. *)

Heads(t) == {h \in 1..Len(t) : Standing(t)[h - 1] = "out" /\ Standing(t)[h] = "in"}

\* The positions of the namelist at h without its closing slash
Extent(t, h) == h..EndOf(t, h) - 1

\* What the reference makes of the quotation that is open
StandIn(quote) == IF quote = Slash THEN "in" ELSE quote[2]

LEMMA HeadIsStart ==
  ASSUME NEW t \in Seq(Tokens), NEW h \in 1..Len(t), Standing(t)[h - 1] = "out"
  PROVE  /\ h \in Heads(t) <=> IsStart(t, h)
         /\ h \notin Heads(t) => Standing(t)[h] = "out"
BY StandingIs DEF Heads, StandsAfter

\* One token further, inside a namelist: both readings agree.
LEMMA ReadingsAgree ==
  ASSUME NEW t \in Seq(Tokens), NEW i \in 1..Len(t), NEW open \in Quotations,
         ~(t[i] = Slash /\ open = Slash)
  PROVE  StandsAfter(t, i, StandIn(open)) = StandIn(OpenAfter(t, i, open))
<1>1. CASE open = Slash
  <2>1. StandIn(open) = "in"
    BY <1>1 DEF StandIn
  <2>2. CASE t[i] \in Quotes
    <3>1. t[i] # Slash
      <4>1. \A q \in Quotes : q[1] = "quote"
        BY DEF Quotes
      <4>2. Slash[1] = "slash"
        BY DEF Slash
      <4>3. "quote" # "slash"
        OBVIOUS
      <4> QED
        BY <2>2, <4>1, <4>2, <4>3
    <3> QED
      BY <1>1, <2>1, <2>2, <3>1 DEF StandsAfter, StandIn, OpenAfter
  <2>3. CASE t[i] \notin Quotes
    BY <1>1, <2>1, <2>3 DEF StandsAfter, StandIn, OpenAfter
  <2> QED
    BY <2>2, <2>3
<1>2. CASE open # Slash
  <2>1. open \in Quotes
    BY <1>2 DEF Quotations
  <2>2. /\ StandIn(open) = open[2] /\ open = <<"quote", open[2]>>
        /\ open[2] # "in" /\ open[2] # "out"
    BY <1>2, <2>1 DEF StandIn, Quotes
  <2>3. StandsAfter(t, i, open[2]) = IF t[i] = open THEN "in" ELSE open[2]
    BY <2>2 DEF StandsAfter
  <2>4. OpenAfter(t, i, open) = IF t[i] = open THEN Slash ELSE open
    BY <1>2 DEF OpenAfter
  <2> QED
    BY <1>2, <2>2, <2>3, <2>4 DEF StandIn
<1> QED
  BY <1>1, <1>2

LEMMA InsideNamelist ==
  ASSUME NEW t \in Seq(Tokens), NEW h \in Heads(t)
  PROVE  /\ \A c \in Extent(t, h) : Standing(t)[c] = StandIn(QuoteFrom(t, h)[c])
         /\ EndOf(t, h) # Len(t) + 1 => Standing(t)[EndOf(t, h)] = "out"
<1> DEFINE at == Standing(t)
           quote == QuoteFrom(t, h)
           end == EndOf(t, h)
           n == Len(t)
           good == {k \in Nat : h + k \in Extent(t, h) => at[h + k] = StandIn(quote[h + k])}
<1>0. h \in 1..n /\ at[h] = "in" /\ n \in Nat
  BY DEF Heads
<1>1. /\ end \in h + 1..n + 1
      /\ end # n + 1 => t[end] = Slash /\ quote[end - 1] = Slash
      /\ \A c \in h + 1..end - 1 : ~(t[c] = Slash /\ quote[c - 1] = Slash)
  BY <1>0, EndOfIs
<1>2. 0 \in good
  BY <1>0, QuoteFromIs DEF StandIn
<1>3. ASSUME NEW k \in good
      PROVE  k + 1 \in good
  <2> SUFFICES ASSUME h + (k + 1) \in Extent(t, h)
               PROVE  at[h + (k + 1)] = StandIn(quote[h + (k + 1)])
    OBVIOUS
  <2> DEFINE c == h + (k + 1)
  <2>1. c \in h + 1..end - 1 /\ c \in 1..n /\ c - 1 = h + k /\ h + k \in Extent(t, h)
    BY <1>0, <1>1 DEF Extent
  <2>2. at[c - 1] = StandIn(quote[c - 1])
    BY <2>1
  <2>3. quote[c - 1] \in Quotations /\ quote[c] = OpenAfter(t, c, quote[c - 1])
    <3>1. c - 1 \in h..n /\ c \in h + 1..n
      BY <1>0, <1>1, <2>1
    <3> HIDE DEF c
    <3> QED
      BY <1>0, <3>1, QuoteFromIs
  <2>4. ~(t[c] = Slash /\ quote[c - 1] = Slash)
    BY <1>1, <2>1
  <2>5. at[c] = StandsAfter(t, c, at[c - 1])
    BY <2>1, StandingIs
  <2>6. StandsAfter(t, c, StandIn(quote[c - 1])) = StandIn(OpenAfter(t, c, quote[c - 1]))
    <3> HIDE DEF c, quote
    <3> QED
      BY <2>1, <2>3, <2>4, ReadingsAgree
  <2> QED
    BY <2>2, <2>3, <2>5, <2>6
<1>4. good = Nat
  <2> HIDE DEF good
  <2>1. good \in SUBSET Nat
    BY DEF good
  <2> QED
    BY <1>2, <1>3, <2>1, Induction
<1>5. ASSUME NEW c \in Extent(t, h)
      PROVE  at[c] = StandIn(quote[c])
  <2>1. c - h \in Nat /\ h + (c - h) = c
    BY <1>0, <1>1 DEF Extent
  <2>2. c - h \in good
    <3> HIDE DEF good
    <3> QED
      BY <1>4, <2>1
  <2> QED
    BY <2>1, <2>2
<1>6. ASSUME end # n + 1
      PROVE  at[end] = "out"
  <2>1. end - 1 \in Extent(t, h) /\ end \in 1..n
    BY <1>0, <1>1, <1>6 DEF Extent
  <2>2. at[end - 1] = "in" /\ t[end] = Slash
    BY <1>1, <1>5, <1>6, <2>1 DEF StandIn
  <2>3. at[end] = StandsAfter(t, end, at[end - 1])
    BY <2>1, StandingIs
  <2> QED
    BY <2>2, <2>3 DEF StandsAfter
<1> QED
  BY <1>5, <1>6

LEMMA OutsideNamelists ==
  ASSUME NEW t \in Seq(Tokens), NEW p \in 1..Len(t) + 1, NEW q \in p..Len(t) + 1,
         Standing(t)[p - 1] = "out", \A i \in p..q - 1 : ~IsStart(t, i)
  PROVE  \A i \in p - 1..q - 1 : Standing(t)[i] = "out"
<1> DEFINE at == Standing(t)
           step == [i \in p..q - 1 |-> [before \in {"out"} |-> "out"]]
<1>1. p - 1 \in Nat /\ q - 1 \in Nat /\ "out" \in {"out"} /\ (p - 1) + 1 = p
  OBVIOUS
<1>2. StepsWithin(step, p - 1, q - 1, {"out"})
  BY <1>1 DEF StepsWithin
<1>3. ASSUME NEW i \in p..q - 1, at[i - 1] \in {"out"}
      PROVE  at[i] = step[i][at[i - 1]]
  <2>1. i \in 1..Len(t) /\ ~IsStart(t, i)
    OBVIOUS
  <2>2. at[i] = "out"
    BY <1>3, <2>1, StandingIs DEF StandsAfter
  <2> QED
    BY <1>3, <2>2
<1>4. \A i \in p - 1..q - 1 : at[i] \in {"out"}
  <2> HIDE DEF step, at
  <2>1. p - 1 <= q - 1 => at[p - 1] = "out"
    BY DEF at
  <2>2. \A i \in (p - 1) + 1..q - 1 : at[i - 1] \in {"out"} => at[i] = step[i][at[i - 1]]
    BY <1>1, <1>3
  <2> DEFINE a == p - 1  b == q - 1  S == {"out"}
  <2>3. /\ a \in Nat /\ b \in Nat /\ "out" \in S /\ StepsWithin(step, a, b, S)
        /\ a <= b => at[a] = "out"
        /\ \A i \in a + 1..b : at[i - 1] \in S => at[i] = step[i][at[i - 1]]
    BY <1>1, <1>2, <2>1, <2>2
  <2> HIDE DEF a, b, S
  <2>4. \A i \in a..b : at[i] \in S
    BY <2>3, UnfoldingStays
  <2> QED
    BY <2>4 DEF a, b, S
<1> QED
  BY <1>4

\* Behind a head the reference stays in the namelist up to its slash.
LEMMA ExtentIsInside ==
  ASSUME NEW t \in Seq(Tokens), NEW h \in Heads(t)
  PROVE  /\ h \in Extent(t, h) /\ Extent(t, h) \subseteq 1..Len(t)
         /\ \A c \in Extent(t, h) : Standing(t)[c] # "out"
<1>1. h \in 1..Len(t) /\ EndOf(t, h) \in h + 1..Len(t) + 1
  BY EndOfIs DEF Heads
<1>2. \A open \in Quotations : StandIn(open) # "out"
  BY DEF Quotations, Quotes, StandIn
<1>3. ASSUME NEW c \in Extent(t, h)
      PROVE  Standing(t)[c] # "out"
  <2>1. c \in h..Len(t)
    BY <1>1 DEF Extent
  <2>2. QuoteFrom(t, h)[c] \in Quotations
    BY <1>1, <2>1, QuoteFromIs
  <2> QED
    BY <1>2, <2>2, InsideNamelist
<1> QED
  BY <1>1, <1>3 DEF Extent

\* Whatever is inside belongs to one of them.
LEMMA InsideHasHead ==
  ASSUME NEW t \in Seq(Tokens)
  PROVE  \A i \in 1..Len(t) : Standing(t)[i] # "out" => \E h \in Heads(t) : i \in Extent(t, h)
<1> DEFINE at == Standing(t)
           n == Len(t)
           lost == {i \in 1..n : at[i] # "out" /\ \A h \in Heads(t) : i \notin Extent(t, h)}
<1> SUFFICES ASSUME lost # {}
             PROVE  FALSE
  OBVIOUS
<1>0. n \in Nat
  OBVIOUS
<1>1. PICK i \in lost : \A j \in lost : i <= j
  <2>1. lost \in SUBSET Nat
    OBVIOUS
  <2> HIDE DEF lost
  <2> QED
    BY <2>1, LeastOfNaturals
<1>2. i \in 1..n /\ at[i] # "out" /\ \A h \in Heads(t) : i \notin Extent(t, h)
  OBVIOUS
<1>3. at[i] = StandsAfter(t, i, at[i - 1])
  BY <1>2, StandingIs
<1>4. CASE at[i - 1] = "out"
  <2>1. i \in Heads(t)
    BY <1>2, <1>4, HeadIsStart
  <2> QED
    BY <1>2, <2>1, ExtentIsInside
<1>5. CASE at[i - 1] # "out"
  <2>1. i - 1 \in 1..n
    BY <1>2, <1>5, StandingIs
  <2>2. i - 1 \notin lost
    BY <1>1, <1>2
  <2>3. PICK h \in Heads(t) : i - 1 \in Extent(t, h)
    BY <1>5, <2>1, <2>2
  <2>4. EndOf(t, h) \in Nat
    BY EndOfIs DEF Heads
  <2>5. i = EndOf(t, h)
    BY <1>2, <2>3, <2>4 DEF Extent, Heads
  <2> QED
    BY <1>0, <1>2, <2>5, InsideNamelist
<1> QED
  BY <1>4, <1>5

LEMMA OwnerIs ==
  ASSUME NEW t \in Seq(Tokens)
  PROVE  /\ DOMAIN Owner(t) = 1..Len(t)
         /\ \A i \in 1..Len(t) : Standing(t)[i] = "out" => Owner(t)[i] = "none"
         /\ \A h \in Heads(t) : \A i \in Extent(t, h) : Owner(t)[i] = t[h][2]
<1> DEFINE at == Standing(t)
           LastHead(i) == CHOOSE h \in Heads(t) : h <= i /\ \A g \in Heads(t) : g <= i => g <= h
<1>1. Owner(t) = [i \in 1..Len(t) |-> IF at[i] = "out" THEN "none" ELSE t[LastHead(i)][2]]
  <2>1. DOMAIN t = 1..Len(t)
    OBVIOUS
  <2> QED
    BY <2>1 DEF Owner, Heads
<1>2. ASSUME NEW h \in Heads(t), NEW i \in Extent(t, h)
      PROVE  Owner(t)[i] = t[h][2]
  <2>1. i \in 1..Len(t) /\ at[i] # "out" /\ h <= i /\ EndOf(t, h) \in Nat /\ h \in Nat
    BY ExtentIsInside, EndOfIs DEF Extent, Heads
  <2>2. ASSUME NEW g \in Heads(t), g <= i
        PROVE  g <= h
    <3> SUFFICES ASSUME h < g
                 PROVE  FALSE
      BY <2>1 DEF Heads
    <3>1. g - 1 \in Extent(t, h)
      BY <2>1, <2>2 DEF Extent, Heads
    <3> QED
      BY <3>1, ExtentIsInside DEF Heads
  <2>3. \A g \in Heads(t) : (g <= i /\ \A f \in Heads(t) : f <= i => f <= g) => g = h
    <3>1. \A g \in Heads(t) : g \in Nat
      BY DEF Heads
    <3> QED
      BY <2>1, <2>2, <3>1
  <2>4. LastHead(i) = h
    BY <2>1, <2>2, <2>3
  <2> QED
    BY <1>1, <2>1, <2>4
<1> QED
  BY <1>1, <1>2

Elements(list) == {list[i] : i \in DOMAIN list}

LEMMA ElementsOfCons ==
  ASSUME NEW S, NEW x \in S, NEW rest \in Seq(S)
  PROVE  Elements(<<x>> \o rest) = {x} \union Elements(rest)
<1> DEFINE all == <<x>> \o rest
<1>1. Len(rest) \in Nat /\ DOMAIN rest = 1..Len(rest)
  OBVIOUS
<1>2. DOMAIN all = 1..Len(rest) + 1
  BY <1>1
<1>3. all[1] = x /\ \A i \in 1..Len(rest) : all[i + 1] = rest[i]
  BY <1>1
<1>4. \A i \in 2..Len(rest) + 1 : i - 1 \in 1..Len(rest) /\ all[i] = rest[i - 1]
  BY <1>1, <1>3
<1>5. /\ \A i \in 1..Len(rest) + 1 : i = 1 \/ i \in 2..Len(rest) + 1
      /\ 1 \in 1..Len(rest) + 1
      /\ \A i \in 1..Len(rest) : i + 1 \in 1..Len(rest) + 1
  BY <1>1
<1> HIDE DEF all
<1>6. Elements(all) \subseteq {x} \union Elements(rest)
  <2>1. ASSUME NEW i \in 1..Len(rest) + 1
        PROVE  all[i] \in {x} \union Elements(rest)
    <3>1. CASE i = 1
      BY <1>3, <3>1
    <3>2. CASE i \in 2..Len(rest) + 1
      BY <1>1, <1>4, <3>2 DEF Elements
    <3> QED
      BY <1>5, <3>1, <3>2
  <2> QED
    BY <1>2, <2>1 DEF Elements
<1>7. x \in Elements(all)
  BY <1>2, <1>3, <1>5 DEF Elements
<1>8. Elements(rest) \subseteq Elements(all)
  <2>1. ASSUME NEW i \in 1..Len(rest)
        PROVE  rest[i] \in Elements(all)
    BY <1>2, <1>3, <1>5 DEF Elements
  <2> QED
    BY <1>1, <2>1 DEF Elements
<1> QED
  BY <1>6, <1>7, <1>8 DEF all

\* Where iter_namelists looks for the next head, and how it goes on from p
Starts(t, p) == {q \in p..Len(t) : IsStart(t, q)}

ListFrom(t, p, from) ==
  IF Starts(t, p) = {} THEN <<>>
  ELSE <<Namelist(t, Least(Starts(t, p)))>> \o from[EndOf(t, Least(Starts(t, p))) + 1]

Namelists(t) == {Namelist(t, h) : h \in 1..Len(t)}

LEMMA NextHead ==
  ASSUME NEW t \in Seq(Tokens), NEW p \in 1..Len(t) + 2, Starts(t, p) # {}
  PROVE  LET q == Least(Starts(t, p)) IN
         /\ q \in p..Len(t) /\ q \in 1..Len(t) /\ IsStart(t, q)
         /\ \A i \in p..q - 1 : ~IsStart(t, i)
         /\ EndOf(t, q) + 1 \in q + 2..Len(t) + 2
         /\ Namelist(t, q) \in Namelists(t)
<1> DEFINE q == Least(Starts(t, p))
<1>1. Starts(t, p) \in SUBSET Nat
  BY DEF Starts
<1>2. q \in Starts(t, p) /\ \A i \in Starts(t, p) : q <= i
  BY <1>1, LeastIsLeast
<1>3. q \in p..Len(t) /\ q \in 1..Len(t) /\ IsStart(t, q)
  BY <1>2 DEF Starts
<1>4. ASSUME NEW i \in p..q - 1
      PROVE  ~IsStart(t, i)
  <2>1. i \in p..Len(t) /\ ~(q <= i)
    BY <1>3
  <2> QED
    BY <1>2, <2>1 DEF Starts
<1>5. EndOf(t, q) + 1 \in q + 2..Len(t) + 2
  BY <1>3, EndOfIs
<1> QED
  BY <1>3, <1>4, <1>5 DEF Namelists

\* iter_namelists is the value at 1 of a function that follows ListFrom.
LEMMA ListIs ==
  ASSUME NEW t \in Seq(Tokens)
  PROVE  \E from : /\ iter_namelists(t) = from[1]
                   /\ \A p \in 1..Len(t) + 2 : from[p] = ListFrom(t, p, from)
<1> DEFINE n == Len(t)
           D == 1..n + 2
           S == Seq(Namelists(t))
           rank == [p \in D |-> n + 2 - p]
           step == [p \in D |-> [from \in [D -> S] |-> ListFrom(t, p, from)]]
           Body(from) == [p \in D |-> ListFrom(t, p, from)]
<1>0. n \in Nat /\ n + 1 \in Nat
  OBVIOUS
<1>1. rank \in [D -> 0..n + 1] /\ S # {}
  <2>1. \A p \in D : n + 2 - p \in 0..n + 1
    BY <1>0
  <2>2. rank \in [D -> 0..n + 1]
    BY <2>1
  <2>3. <<>> \in S
    OBVIOUS
  <2> QED
    BY <2>2, <2>3
<1>2. step \in [D -> [[D -> S] -> S]]
  <2>1. ASSUME NEW p \in D, NEW from \in [D -> S]
        PROVE  ListFrom(t, p, from) \in S
    <3>1. CASE Starts(t, p) = {}
      BY <3>1 DEF ListFrom
    <3>2. CASE Starts(t, p) # {}
      <4> DEFINE q == Least(Starts(t, p))
      <4>1. EndOf(t, q) + 1 \in D /\ Namelist(t, q) \in Namelists(t)
        BY <3>2, NextHead
      <4>2. from[EndOf(t, q) + 1] \in S /\ <<Namelist(t, q)>> \in S
        BY <4>1
      <4> QED
        BY <3>2, <4>2 DEF ListFrom
    <3> QED
      BY <3>1, <3>2
  <2> QED
    BY <2>1
<1>3. LooksBelow(step, rank, D, S)
  <2> SUFFICES ASSUME NEW p \in D, NEW f \in [D -> S], NEW g \in [D -> S],
                      \A e \in D : rank[e] < rank[p] => f[e] = g[e]
               PROVE  step[p][f] = step[p][g]
    BY <1>2, Zenon DEF LooksBelow
  <2>1. CASE Starts(t, p) = {}
    BY <2>1 DEF ListFrom
  <2>2. CASE Starts(t, p) # {}
    <3> DEFINE e == EndOf(t, Least(Starts(t, p))) + 1
    <3>1. e \in D /\ rank[e] < rank[p]
      BY <2>2, NextHead
    <3>2. f[e] = g[e]
      BY <3>1
    <3> QED
      BY <2>2, <3>2 DEF ListFrom
  <2> QED
    BY <2>1, <2>2
<1>4. PICK f \in [D -> S] : \A p \in D : f[p] = step[p][f]
  <2> HIDE DEF D, S, rank, step
  <2> QED
    BY <1>0, <1>1, <1>3, RecursionIsSound
<1>5. f = Body(f)
  <2>1. \A p \in D : f[p] = ListFrom(t, p, f)
    BY <1>4
  <2> QED
    BY <2>1
<1> DEFINE from == CHOOSE g : g = Body(g)
<1>6. from = Body(from)
  <2> HIDE DEF Body
  <2> QED
    BY <1>5
<1>7. iter_namelists(t) = from[1]
  BY DEF iter_namelists, ListFrom, Starts
<1>8. \A p \in D : from[p] = ListFrom(t, p, from)
  <2> HIDE DEF from
  <2> QED
    BY <1>6
<1> QED
  BY <1>7, <1>8

\* What is read from p on, if the reference is outside there, are the
\* namelists of the heads from p on.
LEMMA NamelistsAreThoseOfHeads ==
  ASSUME NEW t \in Seq(Tokens)
  PROVE  LET list == iter_namelists(t) IN
         /\ list \in Seq(Namelists(t))
         /\ Elements(list) = {Namelist(t, h) : h \in Heads(t)}
<1> DEFINE at == Standing(t)
           n == Len(t)
           D == 1..n + 2
           From(p) == {h \in Heads(t) : h >= p}
<1>0. n \in Nat /\ \A h \in Heads(t) : h \in 1..n
  BY DEF Heads
<1>1. PICK from : /\ iter_namelists(t) = from[1]
                  /\ \A p \in D : from[p] = ListFrom(t, p, from)
  BY ListIs
<1> DEFINE Right(p) ==
             /\ from[p] \in Seq(Namelists(t))
             /\ (p = n + 2 \/ at[p - 1] = "out") =>
                  Elements(from[p]) = {Namelist(t, h) : h \in From(p)}
           wrong == {k \in 0..n + 1 : ~Right(n + 2 - k)}
<1>2. ASSUME NEW p \in D, \A r \in p + 1..n + 2 : Right(r)
      PROVE  Right(p)
  <2>1. CASE Starts(t, p) = {}
    <3>1. from[p] = <<>>
      BY <1>1, <2>1 DEF ListFrom
    <3>2. ASSUME p = n + 2 \/ at[p - 1] = "out"
          PROVE  From(p) = {}
      <4> SUFFICES ASSUME NEW h \in Heads(t), h >= p
                   PROVE  FALSE
        OBVIOUS
      <4>1. h \in p..n /\ IsStart(t, h)
        <5>1. h \in p..n
          BY <1>0
        <5>2. at[h - 1] = "out"
          BY DEF Heads
        <5> QED
          BY <1>0, <5>1, <5>2, HeadIsStart
      <4> QED
        BY <2>1, <4>1 DEF Starts
    <3> QED
      BY <3>1, <3>2 DEF Elements
  <2>2. CASE Starts(t, p) # {}
    <3> DEFINE q == Least(Starts(t, p))
               e == EndOf(t, q)
    <3>1. /\ q \in p..n /\ q \in 1..n /\ IsStart(t, q) /\ e + 1 \in q + 2..n + 2
          /\ e \in Nat /\ Namelist(t, q) \in Namelists(t)
          /\ \A i \in p..q - 1 : ~IsStart(t, i)
      <4>1. q \in p..n /\ q \in 1..n /\ IsStart(t, q) /\ Namelist(t, q) \in Namelists(t)
        BY <2>2, NextHead
      <4>2. e \in q + 1..n + 1
        BY <4>1, EndOfIs
      <4>3. \A i \in p..q - 1 : ~IsStart(t, i)
        BY <2>2, NextHead
      <4> QED
        BY <1>0, <4>1, <4>2, <4>3
    <3>2. from[p] = <<Namelist(t, q)>> \o from[e + 1]
      BY <1>1, <2>2 DEF ListFrom
    <3>3. Right(e + 1)
      <4>1. e + 1 \in p + 1..n + 2
        BY <3>1
      <4> HIDE DEF Right
      <4> QED
        BY <1>2, <4>1
    <3>4. from[p] \in Seq(Namelists(t))
      BY <3>1, <3>2, <3>3
    <3>5. Elements(from[p]) = {Namelist(t, q)} \union Elements(from[e + 1])
      <4>1. from[e + 1] \in Seq(Namelists(t)) /\ Namelist(t, q) \in Namelists(t)
        BY <3>1, <3>3
      <4> HIDE DEF q, e
      <4> QED
        BY <3>2, <4>1, ElementsOfCons
    <3>6. ASSUME at[p - 1] = "out"
          PROVE  From(p) = {q} \union From(e + 1)
      <4>1. p \in 1..n + 1 /\ q \in p..n + 1
        BY <1>0, <3>1
      <4>2. \A i \in p - 1..q - 1 : at[i] = "out"
        BY <3>1, <3>6, <4>1, OutsideNamelists
      <4>3. at[q - 1] = "out"
        BY <3>1, <4>1, <4>2
      <4>4. q \in Heads(t)
        BY <3>1, <4>3, HeadIsStart
      <4>5. ASSUME NEW h \in Heads(t), h >= p
            PROVE  h = q \/ h >= e + 1
        <5>1. h \in 1..n /\ at[h - 1] = "out" /\ at[h] # "out"
          BY DEF Heads
        <5>2. ~(h < q)
          BY <3>1, <4>2, <4>5, <5>1
        <5>3. ~(h > q /\ h <= e)
          <6> SUFFICES ASSUME h > q, h <= e
                       PROVE  FALSE
            OBVIOUS
          <6>1. h - 1 \in Extent(t, q)
            BY <3>1, <5>1 DEF Extent
          <6> QED
            BY <4>4, <5>1, <6>1, ExtentIsInside
        <5> QED
          BY <3>1, <5>1, <5>2, <5>3
      <4>6. q >= p /\ \A h \in Heads(t) : h >= e + 1 => h >= p
        BY <1>0, <3>1
      <4> QED
        BY <4>4, <4>5, <4>6
    <3>7. ASSUME at[p - 1] = "out"
          PROVE  Elements(from[e + 1]) = {Namelist(t, h) : h \in From(e + 1)}
      <4>1. q \in Heads(t)
        <5>1. p \in 1..n + 1 /\ q \in p..n + 1
          BY <1>0, <3>1
        <5>2. at[q - 1] = "out"
          BY <3>1, <3>7, <5>1, OutsideNamelists
        <5> QED
          BY <3>1, <5>2, HeadIsStart
      <4>2. e + 1 = n + 2 \/ at[e] = "out"
        BY <1>0, <3>1, <4>1, InsideNamelist
      <4>3. (e + 1) - 1 = e
        BY <3>1
      <4> QED
        BY <3>3, <4>2, <4>3
    <3>8. p # n + 2
      BY <1>0, <3>1
    <3> HIDE DEF q, e, From, at
    <3>9. at[p - 1] = "out" => Elements(from[p]) = {Namelist(t, h) : h \in From(p)}
      BY <3>5, <3>6, <3>7
    <3> QED
      BY <3>4, <3>8, <3>9
  <2> QED
    BY <2>1, <2>2
<1>3. wrong = {}
  <2> SUFFICES ASSUME wrong # {}
               PROVE  FALSE
    OBVIOUS
  <2>1. PICK k \in wrong : \A j \in wrong : k <= j
    <3>1. wrong \in SUBSET Nat
      <4> HIDE DEF Right
      <4> QED
        BY <1>0
    <3> HIDE DEF wrong
    <3> QED
      BY <3>1, LeastOfNaturals
  <2> HIDE DEF Right
  <2>2. k \in 0..n + 1 /\ n + 2 - k \in D /\ ~Right(n + 2 - k)
    BY <1>0
  <2>3. ASSUME NEW r \in (n + 2 - k) + 1..n + 2
        PROVE  Right(r)
    <3>1. n + 2 - r \in 0..n + 1 /\ ~(k <= n + 2 - r) /\ n + 2 - (n + 2 - r) = r
      BY <1>0, <2>2
    <3> QED
      BY <2>1, <3>1
  <2> QED
    BY <1>2, <2>2, <2>3
<1>4. Right(1)
  <2>1. n + 1 \in 0..n + 1 /\ n + 2 - (n + 1) = 1
    BY <1>0
  <2> HIDE DEF Right
  <2> QED
    BY <1>3, <2>1
<1>5. From(1) = Heads(t)
  BY <1>0
<1>6. at[1 - 1] = "out"
  BY StandingIs
<1> QED
  BY <1>1, <1>4, <1>5, <1>6

-----------------------------------------------------------------------------
(* Findings *)

\* The values that assignments of this kind have in one body
ValuesIn(body, kind) == {body[i][2] : i \in Assigned(body, kind)}

LEMMA HeadHasName ==
  ASSUME NEW t \in Seq(Tokens), NEW h \in Heads(t)
  PROVE  /\ h \in 1..Len(t) /\ t[h][1] = "name" /\ t[h][2] # "none"
         /\ Namelist(t, h).name = t[h][2]
<1>1. h \in 1..Len(t) /\ t[h] \in Tokens /\ IsStart(t, h)
  BY HeadIsStart DEF Heads
<1>2. t[h][1] = "name"
  BY <1>1 DEF IsStart, IsName
<1> QED
  BY <1>1, <1>2, CasesAssumption DEF Namelist

LEMMA BodyOfNamelist ==
  ASSUME NEW t \in Seq(Tokens), NEW h \in Heads(t), NEW kind, kind # "name"
  PROVE  \A v : v \in ValuesIn(Namelist(t, h).body, kind)
                  <=> \E d \in Extent(t, h) : t[d][1] = kind /\ v = t[d][2]
<1> DEFINE body == Namelist(t, h).body
           last == EndOf(t, h) - 1
<1>1. h \in 1..Len(t) /\ last \in h..Len(t) /\ t[h][1] # kind
  <2>1. h \in 1..Len(t) /\ t[h][1] = "name"
    BY HeadHasName
  <2> QED
    BY <2>1, EndOfIs
<1>2. body = SubSeq(t, h + 1, last)
  BY DEF Namelist
<1>3. DOMAIN body = 1..last - h /\ \A i \in 1..last - h : body[i] = t[h + i]
  <2> HIDE DEF last, body
  <2>1. h \in Nat /\ last \in Nat /\ h <= last /\ last <= Len(t)
    BY <1>1
  <2>2. last - ((h + 1) - 1) = last - h /\ \A i \in 1..last - h : (h + 1) + i - 1 = h + i
    BY <2>1
  <2>3. DOMAIN body = 1..last - h
    BY <1>2, <2>1
  <2>4. \A i \in 1..last - h : body[i] = t[h + i]
    BY <1>2, <2>1, <2>2
  <2> QED
    BY <2>3, <2>4
<1> HIDE DEF body, last
<1>4. Assigned(body, kind) = {i \in 1..last - h : t[h + i][1] = kind}
  BY <1>3 DEF Assigned
<1>5. ASSUME NEW d \in Extent(t, h), t[d][1] = kind
      PROVE  t[d][2] \in ValuesIn(body, kind)
  <2>1. d - h \in 1..last - h /\ h + (d - h) = d
    BY <1>1, <1>5 DEF Extent, last
  <2>2. d - h \in Assigned(body, kind) /\ body[d - h] = t[d]
    BY <1>3, <1>4, <1>5, <2>1
  <2> QED
    BY <2>2 DEF ValuesIn
<1>6. ASSUME NEW i \in Assigned(body, kind)
      PROVE  \E d \in Extent(t, h) : t[d][1] = kind /\ t[d][2] = body[i][2]
  <2>1. i \in 1..last - h /\ t[h + i][1] = kind /\ body[i] = t[h + i]
    BY <1>3, <1>4
  <2>2. h + i \in Extent(t, h)
    BY <1>1, <2>1 DEF Extent, last
  <2> QED
    BY <2>1, <2>2
<1>7. \A v : v \in ValuesIn(body, kind) <=> \E i \in Assigned(body, kind) : v = body[i][2]
  BY DEF ValuesIn
<1>8. \A v : v \in ValuesIn(body, kind)
               <=> \E d \in Extent(t, h) : t[d][1] = kind /\ v = t[d][2]
  BY <1>5, <1>6, <1>7
<1> QED
  BY <1>8 DEF body

\* What check_case.py collects is what the reference says.
LEMMA ValuesAreSaid ==
  ASSUME NEW t \in Seq(Tokens), NEW kind, kind # "name", NEW names, "none" \notin names
  PROVE  Values({l \in Elements(iter_namelists(t)) : l.name \in names}, kind)
           = Said(t, kind, names)
<1> DEFINE chosen == {l \in Elements(iter_namelists(t)) : l.name \in names}
<1>1. chosen = {Namelist(t, h) : h \in {g \in Heads(t) : t[g][2] \in names}}
  BY NamelistsAreThoseOfHeads, HeadHasName
<1>2. ASSUME NEW v \in Values(chosen, kind)
      PROVE  v \in Said(t, kind, names)
  <2>1. PICK l \in chosen : v \in ValuesIn(l.body, kind)
    BY <1>2 DEF Values, ValuesIn
  <2>2. PICK h \in Heads(t) : t[h][2] \in names /\ l = Namelist(t, h)
    BY <1>1
  <2>3. PICK d \in Extent(t, h) : t[d][1] = kind /\ v = t[d][2]
    <3>1. v \in ValuesIn(Namelist(t, h).body, kind)
      BY <2>1, <2>2
    <3>2. \A w : w \in ValuesIn(Namelist(t, h).body, kind)
                    <=> \E d \in Extent(t, h) : t[d][1] = kind /\ w = t[d][2]
      BY BodyOfNamelist
    <3> QED
      BY <3>1, <3>2, Zenon
  <2>4. d \in 1..Len(t) /\ Owner(t)[d] = t[h][2]
    BY ExtentIsInside, OwnerIs
  <2> QED
    BY <2>2, <2>3, <2>4 DEF Said
<1>3. ASSUME NEW v \in Said(t, kind, names)
      PROVE  v \in Values(chosen, kind)
  <2>1. PICK d \in 1..Len(t) : t[d][1] = kind /\ Owner(t)[d] \in names /\ v = t[d][2]
    BY DEF Said
  <2>2. Standing(t)[d] # "out"
    BY <2>1, OwnerIs
  <2>3. PICK h \in Heads(t) : d \in Extent(t, h)
    BY <2>2, InsideHasHead
  <2>4. Owner(t)[d] = t[h][2]
    BY <2>3, OwnerIs
  <2>5. Namelist(t, h) \in chosen
    BY <1>1, <2>1, <2>4
  <2>6. v \in ValuesIn(Namelist(t, h).body, kind)
    BY <2>1, <2>3, BodyOfNamelist
  <2> QED
    BY <2>5, <2>6 DEF Values, ValuesIn
<1>4. Values(chosen, kind) = Said(t, kind, names)
  BY <1>2, <1>3
<1> QED
  BY <1>4

LEMMA NamesAreOwners ==
  ASSUME NEW t \in Seq(Tokens)
  PROVE  {Owner(t)[i] : i \in DOMAIN t} \ {"none"} = {l.name : l \in Elements(iter_namelists(t))}
<1>1. DOMAIN t = 1..Len(t)
  OBVIOUS
<1>2. {l.name : l \in Elements(iter_namelists(t))} = {t[h][2] : h \in Heads(t)}
  BY NamelistsAreThoseOfHeads, HeadHasName
<1>3. ASSUME NEW h \in Heads(t)
      PROVE  h \in 1..Len(t) /\ Owner(t)[h] = t[h][2] /\ t[h][2] # "none"
  BY HeadHasName, ExtentIsInside, OwnerIs
<1>4. ASSUME NEW i \in 1..Len(t), Owner(t)[i] # "none"
      PROVE  \E h \in Heads(t) : Owner(t)[i] = t[h][2]
  BY <1>4, OwnerIs, InsideHasHead
<1>5. \A name : name \in {Owner(t)[i] : i \in DOMAIN t} \ {"none"}
                  <=> name # "none" /\ \E i \in 1..Len(t) : name = Owner(t)[i]
  BY <1>1
<1>6. \A name : name \in {t[h][2] : h \in Heads(t)} <=> \E h \in Heads(t) : name = t[h][2]
  OBVIOUS
<1>7. {Owner(t)[i] : i \in DOMAIN t} \ {"none"} = {t[h][2] : h \in Heads(t)}
  BY <1>3, <1>4, <1>5, <1>6
<1> QED
  BY <1>2, <1>7

LEMMA MeshesAreSaid ==
  ASSUME NEW t \in Seq(Tokens)
  PROVE  /\ parse_mesh_count(t) \in Nat
         /\ parse_mesh_count(t) = 0 <=> Said(t, "ijk", {"MESH"}) = {}
<1> DEFINE list == iter_namelists(t)
           chosen == {l \in Elements(list) : l.name \in {"MESH"}}
<1>1. list \in Seq(Namelists(t))
  BY NamelistsAreThoseOfHeads
<1>2. DOMAIN list = 1..Len(list) /\ Len(list) \in Nat
  BY <1>1
<1>3. IsFiniteSet(meshes(list)) /\ Cardinality(meshes(list)) \in Nat
  <2>1. IsFiniteSet(1..Len(list)) /\ meshes(list) \subseteq 1..Len(list)
    BY <1>2, FS_Interval DEF meshes
  <2> QED
    BY <2>1, FS_Subset, FS_CardinalityType
<1>4. parse_mesh_count(t) = 0 <=> meshes(list) = {}
  BY <1>3, FS_EmptySet DEF parse_mesh_count
<1>5. Values(chosen, "ijk") = Said(t, "ijk", {"MESH"})
  BY ValuesAreSaid
<1>6. Values(chosen, "ijk") = {} <=> \A l \in chosen : Assigned(l.body, "ijk") = {}
  <2> HIDE DEF chosen
  <2>1. ASSUME NEW l \in chosen, NEW i \in Assigned(l.body, "ijk")
        PROVE  l.body[i][2] \in Values(chosen, "ijk")
    BY DEF Values
  <2>2. ASSUME NEW v \in Values(chosen, "ijk")
        PROVE  \E l \in chosen : Assigned(l.body, "ijk") # {}
    BY DEF Values
  <2> QED
    BY <2>1, <2>2
<1>7. meshes(list) = {} <=> \A l \in chosen : Assigned(l.body, "ijk") = {}
  BY DEF meshes, Elements
<1> QED
  BY <1>3, <1>4, <1>5, <1>6, <1>7 DEF parse_mesh_count

LEMMA FindingsOfText ==
  ASSUME text \in Seq(Tokens)
  PROVE  FindingsAreReal
<1> DEFINE owner == Owner(text)
           names == {owner[i] : i \in DOMAIN text} \ {"none"}
           used == Said(text, "surf_id", names \ {"SURF"})
           list == iter_namelists(text)
           namelists == Elements(list)
           Named(name) == {l \in namelists : l.name = name}
           missing == Values(namelists \ Named("SURF"), "surf_id")
                        \ (Values(Named("SURF"), "id") \union Builtin)
           noMesh == parse_mesh_count(text) = 0
           noReac == Values(Named("SURF"), "hrrpua") # {} /\ Named("REAC") = {}
           errors == {<<"missing_surf", s>> : s \in missing}
                       \union (IF noMesh THEN {<<"no_mesh", "">>} ELSE {})
                       \union (IF noReac THEN {<<"hrrpua_without_reac", "">>} ELSE {})
<1>1. inspect_fds_file(text).findings = errors
  BY DEF inspect_fds_file, check_case_text, Elements
<1>2. names = {l.name : l \in namelists}
  BY NamesAreOwners
<1>3. Named("SURF") = {l \in namelists : l.name \in {"SURF"}}
  OBVIOUS
<1>4. namelists \ Named("SURF") = {l \in namelists : l.name \in names \ {"SURF"}}
  BY <1>2
<1>5. Values(namelists \ Named("SURF"), "surf_id") = used
  BY <1>4, ValuesAreSaid
<1>6. /\ Values(Named("SURF"), "id") = Said(text, "id", {"SURF"})
      /\ Values(Named("SURF"), "hrrpua") = Said(text, "hrrpua", {"SURF"})
  BY <1>3, ValuesAreSaid
<1>7. Named("REAC") = {} <=> "REAC" \notin names
  BY <1>2
<1>8. noMesh <=> Said(text, "ijk", {"MESH"}) = {}
  BY MeshesAreSaid
<1> HIDE DEF missing, noMesh, noReac
<1>9. {e[2] : e \in {f \in errors : f[1] = "missing_surf"}} = missing
  <2>1. ASSUME NEW f \in errors, f[1] = "missing_surf"
        PROVE  f[2] \in missing
    <3>1. \/ \E s \in missing : f = <<"missing_surf", s>>
          \/ f = <<"no_mesh", "">> \/ f = <<"hrrpua_without_reac", "">>
      OBVIOUS
    <3>2. f # <<"no_mesh", "">> /\ f # <<"hrrpua_without_reac", "">>
      <4>1. <<"no_mesh", "">>[1] = "no_mesh"
        OBVIOUS
      <4>2. <<"hrrpua_without_reac", "">>[1] = "hrrpua_without_reac"
        OBVIOUS
      <4>3. "no_mesh" # "missing_surf" /\ "hrrpua_without_reac" # "missing_surf"
        OBVIOUS
      <4> HIDE DEF errors
      <4> QED
        BY <2>1, <4>1, <4>2, <4>3
    <3> HIDE DEF errors
    <3>3. PICK s \in missing : f = <<"missing_surf", s>>
      BY <3>1, <3>2
    <3>4. <<"missing_surf", s>>[2] = s
      OBVIOUS
    <3> QED
      BY <3>3, <3>4
  <2>2. \A s \in missing : LET f == <<"missing_surf", s>> IN
          f \in errors /\ f[1] = "missing_surf" /\ f[2] = s
    OBVIOUS
  <2> HIDE DEF errors
  <2> QED
    BY <2>1, <2>2
<1>10. /\ <<"no_mesh", "">> \in errors <=> noMesh
       /\ <<"hrrpua_without_reac", "">> \in errors <=> noReac
  OBVIOUS
<1>11. missing = used \ (Said(text, "id", {"SURF"}) \union Builtin)
  BY <1>5, <1>6 DEF missing
<1>12. noReac <=> Said(text, "hrrpua", {"SURF"}) # {} /\ "REAC" \notin names
  BY <1>6, <1>7 DEF noReac
<1> HIDE DEF errors, used, names, owner
<1> QED
  BY <1>1, <1>8, <1>9, <1>10, <1>11, <1>12 DEF FindingsAreReal, used, names, owner

LEMMA PreviewOfText ==
  ASSUME text \in Seq(Tokens)
  PROVE  PreviewIsAccepted
<1> DEFINE count == parse_mesh_count(text)
           proposed == inspect_fds_file(text).processes
<1>1. count \in Nat /\ default_mpi_processes \in Nat \ {0}
  BY MeshesAreSaid, CasesAssumption
<1>2. proposed = IF count # 0 THEN count ELSE default_mpi_processes
  BY DEF inspect_fds_file
<1>3. proposed # 0 /\ resolved_processes(text, proposed) = proposed
  BY <1>1, <1>2 DEF resolved_processes
<1>4. resolved_processes(text, 0) = proposed
  BY <1>2 DEF resolved_processes
<1>5. Accepts(text, proposed)
  BY <1>1, <1>2, <1>3 DEF Accepts
<1> QED
  BY <1>4, <1>5 DEF PreviewIsAccepted

LEMMA BodiesAreTokens ==
  ASSUME NEW t \in Seq(Tokens), NEW l \in Namelists(t)
  PROVE  l.body \in Seq(Tokens)
<1>1. PICK h \in 1..Len(t) : l = Namelist(t, h)
  BY DEF Namelists
<1>2. h + 1 \in 1..Len(t) + 1 /\ EndOf(t, h) - 1 \in 0..Len(t)
  BY EndOfIs
<1>3. l.body = SubSeq(t, h + 1, EndOf(t, h) - 1)
  BY <1>1 DEF Namelist
<1> QED
  BY <1>2, <1>3

LEMMA CellsOfMesh ==
  ASSUME NEW body \in Seq(Tokens), Assigned(body, "ijk") # {}
  PROVE  body[Least(Assigned(body, "ijk"))][2] \in Nat
<1>1. Assigned(body, "ijk") \in SUBSET Nat
  BY DEF Assigned
<1>2. Least(Assigned(body, "ijk")) \in Assigned(body, "ijk")
  BY <1>1, LeastIsLeast
<1>3. \A i \in Assigned(body, "ijk") : body[i] \in Tokens /\ body[i][1] = "ijk"
  BY DEF Assigned
<1> QED
  BY <1>2, <1>3, CasesAssumption

LEMMA CellsOfText ==
  ASSUME NEW t \in Seq(Tokens)
  PROVE  parse_mesh_cell_count(t) \in Nat
<1> DEFINE list == iter_namelists(t)
           n == Len(list)
           cells(body) == body[Least(Assigned(body, "ijk"))][2]
           of(m) == IF m \in meshes(list) THEN cells(list[m].body) ELSE 0
           step == [m \in 1..n |-> [before \in Nat |-> before + of(m)]]
           Body(sum) == [m \in 0..n |-> IF m = 0 THEN 0 ELSE sum[m - 1] + of(m)]
<1>0. n \in Nat /\ 0 \in Nat /\ list \in Seq(Namelists(t)) /\ DOMAIN list = 1..n
  BY NamelistsAreThoseOfHeads
<1>1. ASSUME NEW m \in 1..n
      PROVE  of(m) \in Nat
  <2>1. CASE m \in meshes(list)
    <3>1. list[m].body \in Seq(Tokens) /\ Assigned(list[m].body, "ijk") # {}
      BY <1>0, <2>1, BodiesAreTokens DEF meshes
    <3> QED
      BY <2>1, <3>1, CellsOfMesh
  <2>2. CASE m \notin meshes(list)
    BY <2>2
  <2> QED
    BY <2>1, <2>2
<1> HIDE DEF list, n, of
<1>2. StepsWithin(step, 0, n, Nat)
  BY <1>1 DEF StepsWithin
<1>3. PICK f : Unfolds(f, 0, step, 0, n, Nat)
  <2> HIDE DEF step
  <2> QED
    BY <1>0, <1>2, RecursionOnInterval
<1>4. f = Body(f)
  <2>1. f \in [0..n -> Nat] /\ f[0] = 0
    BY <1>0, <1>3 DEF Unfolds
  <2>2. ASSUME NEW m \in 1..n
        PROVE  f[m] = f[m - 1] + of(m)
    <3>1. m - 1 \in 0..n /\ m \in 0 + 1..n
      BY <1>0
    <3>2. f[m - 1] \in Nat
      BY <2>1, <3>1
    <3>3. f[m] = step[m][f[m - 1]]
      BY <1>3, <3>1 DEF Unfolds
    <3> QED
      BY <3>2, <3>3
  <2> QED
    BY <2>1, <2>2
<1> DEFINE sum == CHOOSE g : g = Body(g)
<1>5. sum = Body(sum)
  <2> HIDE DEF Body
  <2> QED
    BY <1>4
<1>6. sum[0] = 0 /\ \A m \in 1..n : sum[m] = sum[m - 1] + of(m)
  <2> HIDE DEF sum
  <2> QED
    BY <1>0, <1>5
<1>7. \A m \in 0..n : sum[m] \in Nat
  <2>1. ASSUME NEW m \in 0 + 1..n, sum[m - 1] \in Nat
        PROVE  sum[m] = step[m][sum[m - 1]]
    <3> HIDE DEF sum
    <3> QED
      BY <1>6, <2>1
  <2>2. 0 \in Nat /\ (0 <= n => sum[0] = 0)
    <3> HIDE DEF sum
    <3> QED
      BY <1>6
  <2> HIDE DEF step, sum
  <2>3. \A m \in 0 + 1..n : sum[m - 1] \in Nat => sum[m] = step[m][sum[m - 1]]
    BY <2>1
  <2> DEFINE S == Nat
  <2>4. /\ n \in Nat /\ 0 \in S /\ StepsWithin(step, 0, n, S)
        /\ \A m \in 0 + 1..n : sum[m - 1] \in S => sum[m] = step[m][sum[m - 1]]
    BY <1>0, <1>2, <2>3
  <2> HIDE DEF S
  <2>5. \A m \in 0..n : sum[m] \in S
    BY <2>2, <2>4, UnfoldingStays
  <2> QED
    BY <2>5 DEF S
<1>8. parse_mesh_cell_count(t) = sum[n]
  BY DEF parse_mesh_cell_count, list, n, of
<1> QED
  BY <1>0, <1>7, <1>8

-----------------------------------------------------------------------------
(* Estimates *)

Fractions == {x \in Nat \X Nat : x[2] # 0}

LEMMA LeqOrders ==
  ASSUME NEW x \in Fractions, NEW y \in Fractions, NEW z \in Fractions
  PROVE  /\ Leq(x, x)
         /\ Leq(x, y) \/ Leq(y, x)
         /\ Leq(x, y) /\ Leq(y, z) => Leq(x, z)
<1>1. /\ x[1] \in Nat /\ y[1] \in Nat /\ z[1] \in Nat
      /\ x[2] \in Nat \ {0} /\ y[2] \in Nat \ {0} /\ z[2] \in Nat \ {0}
  BY DEF Fractions
<1>3. ASSUME Leq(x, y), Leq(y, z)
      PROVE  Leq(x, z)
  <2> DEFINE a == x[1]  b == y[1]  c == z[1]
             i == x[2]  j == y[2]  k == z[2]
  <2>1. a * j <= b * i /\ b * k <= c * j
    BY <1>3 DEF Leq
  <2> HIDE DEF a, b, c, i, j, k
  <2>2. /\ a \in Nat /\ b \in Nat /\ c \in Nat
        /\ i \in Nat \ {0} /\ j \in Nat \ {0} /\ k \in Nat \ {0}
    BY <1>1 DEF a, b, c, i, j, k
  <2>3. a * j * k <= b * i * k
    BY <2>1, <2>2
  <2>4. b * k * i <= c * j * i
    BY <2>1, <2>2
  <2>5. (a * k) * j <= (c * i) * j
    BY <2>2, <2>3, <2>4
  <2>6. a * k <= c * i
    BY <2>2, <2>5
  <2> QED
    BY <2>6 DEF Leq, a, c, i, k
<1>4. Leq(x, y) \/ Leq(y, x)
  <2>1. x[1] * y[2] \in Nat /\ y[1] * x[2] \in Nat
    BY <1>1
  <2> QED
    BY <2>1 DEF Leq
<1>5. Leq(x, x)
  <2>1. x[1] * x[2] \in Nat
    BY <1>1
  <2> QED
    BY <2>1 DEF Leq
<1> QED
  BY <1>3, <1>4, <1>5

\* Samples that are at most, or less than, x
AtMost(s, x) == {i \in DOMAIN s : Leq(s[i], x)}
Below(s, x) == {i \in DOMAIN s : ~Leq(x, s[i])}

Rated(s) == IsFiniteSet(DOMAIN s) /\ \A i \in DOMAIN s : s[i] \in Fractions

LEMMA CountsAreNaturals ==
  ASSUME NEW s, Rated(s), NEW x
  PROVE  /\ IsFiniteSet(AtMost(s, x)) /\ Cardinality(AtMost(s, x)) \in Nat
         /\ Cardinality(AtMost(s, x)) <= Cardinality(DOMAIN s)
         /\ IsFiniteSet(Below(s, x)) /\ Cardinality(Below(s, x)) \in Nat
         /\ Cardinality(DOMAIN s) \in Nat
<1>1. IsFiniteSet(DOMAIN s) /\ AtMost(s, x) \in SUBSET DOMAIN s /\ Below(s, x) \in SUBSET DOMAIN s
  BY DEF Rated, AtMost, Below
<1> QED
  BY <1>1, FS_Subset, FS_CardinalityType

\* What is more has more samples below it.
LEMMA MoreIsMore ==
  ASSUME NEW s, Rated(s), NEW i \in DOMAIN s, NEW j \in DOMAIN s, ~Leq(s[i], s[j])
  PROVE  Cardinality(AtMost(s, s[j])) < Cardinality(AtMost(s, s[i]))
<1>1. \A k \in DOMAIN s : s[k] \in Fractions
  BY DEF Rated
<1>2. Leq(s[j], s[i])
  BY <1>1, LeqOrders
<1>3. AtMost(s, s[j]) \subseteq AtMost(s, s[i])
  BY <1>1, <1>2, LeqOrders DEF AtMost
<1>4. i \in AtMost(s, s[i]) /\ i \notin AtMost(s, s[j])
  BY <1>1, LeqOrders DEF AtMost
<1>5. Cardinality(AtMost(s, s[j])) # Cardinality(AtMost(s, s[i]))
  BY <1>3, <1>4, CountsAreNaturals, FS_Subset
<1>6. Cardinality(AtMost(s, s[j])) <= Cardinality(AtMost(s, s[i]))
  BY <1>3, CountsAreNaturals, FS_Subset
<1> QED
  BY <1>5, <1>6, CountsAreNaturals

LEMMA GreatestSample ==
  ASSUME NEW s, Rated(s), NEW I \in SUBSET DOMAIN s, I # {}
  PROVE  \E g \in I : \A i \in I : Leq(s[i], s[g])
<1> DEFINE count(i) == Cardinality(AtMost(s, s[i]))
           n == Cardinality(DOMAIN s)
           gaps == {n - count(i) : i \in I}
<1>1. n \in Nat /\ \A i \in I : count(i) \in Nat /\ count(i) <= n
  BY CountsAreNaturals
<1>2. PICK least \in gaps : \A x \in gaps : least <= x
  <2>1. gaps \in SUBSET Nat /\ gaps # {}
    <3> HIDE DEF count, n
    <3> QED
      BY <1>1
  <2> HIDE DEF gaps
  <2> QED
    BY <2>1, LeastOfNaturals
<1>3. PICK g \in I : least = n - count(g)
  OBVIOUS
<1>4. ASSUME NEW i \in I
      PROVE  ~(count(g) < count(i))
  <2>1. n - count(g) <= n - count(i)
    BY <1>2, <1>3
  <2> HIDE DEF count, n
  <2> QED
    BY <1>1, <2>1
<1>5. ASSUME NEW i \in I
      PROVE  Leq(s[i], s[g])
  BY <1>4, MoreIsMore
<1> QED
  BY <1>5

LEMMA OrderStatisticIsSample ==
  ASSUME NEW s, Rated(s), NEW k \in 1..Cardinality(DOMAIN s)
  PROVE  \E i \in DOMAIN s : OrderStatistic(s, k) = s[i]
<1> DEFINE count(i) == Cardinality(AtMost(s, s[i]))
           n == Cardinality(DOMAIN s)
           enough == {count(i) : i \in {j \in DOMAIN s : count(j) >= k}}
<1>1. n \in Nat /\ k \in Nat /\ \A i \in DOMAIN s : count(i) \in Nat
  BY CountsAreNaturals
<1>2. enough # {}
  <2>1. DOMAIN s # {}
    BY FS_EmptySet
  <2>2. PICK g \in DOMAIN s : \A i \in DOMAIN s : Leq(s[i], s[g])
    BY <2>1, GreatestSample
  <2>3. AtMost(s, s[g]) = DOMAIN s
    BY <2>2 DEF AtMost
  <2>4. count(g) >= k
    BY <2>3
  <2> QED
    BY <2>4
<1>3. PICK least \in enough : \A x \in enough : least <= x
  <2>1. enough \in SUBSET Nat
    <3> HIDE DEF count
    <3> QED
      BY <1>1
  <2> HIDE DEF enough
  <2> QED
    BY <1>2, <2>1, LeastOfNaturals
<1>4. PICK m \in DOMAIN s : count(m) >= k /\ least = count(m)
  OBVIOUS
<1>5. Cardinality(Below(s, s[m])) < k
  <2>1. CASE Below(s, s[m]) = {}
    BY <2>1, FS_EmptySet
  <2>2. CASE Below(s, s[m]) # {}
    <3>1. PICK g \in Below(s, s[m]) : \A i \in Below(s, s[m]) : Leq(s[i], s[g])
      <4>1. Below(s, s[m]) \in SUBSET DOMAIN s
        BY DEF Below
      <4> QED
        BY <2>2, <4>1, GreatestSample
    <3>2. g \in DOMAIN s /\ ~Leq(s[m], s[g])
      BY DEF Below
    <3>3. count(g) < count(m)
      BY <3>2, MoreIsMore
    <3>4. ~(count(g) >= k)
      <4>1. count(g) >= k => count(m) <= count(g)
        BY <1>3, <1>4, <3>2
      <4> HIDE DEF count
      <4> QED
        BY <1>1, <3>2, <3>3, <4>1
    <3>5. Below(s, s[m]) \subseteq AtMost(s, s[g])
      BY <3>1 DEF AtMost, Below
    <3>6. Cardinality(Below(s, s[m])) <= count(g)
      BY <3>5, CountsAreNaturals, FS_Subset
    <3>7. Cardinality(Below(s, s[m])) \in Nat /\ count(g) \in Nat
      BY CountsAreNaturals
    <3> HIDE DEF count
    <3> QED
      BY <1>1, <3>4, <3>6, <3>7
  <2> QED
    BY <2>1, <2>2
<1>6. /\ s[m] \in {s[i] : i \in DOMAIN s}
      /\ Cardinality({i \in DOMAIN s : ~Leq(s[m], s[i])}) < k
      /\ Cardinality({i \in DOMAIN s : Leq(s[i], s[m])}) >= k
  BY <1>4, <1>5 DEF AtMost, Below
<1>7. OrderStatistic(s, k) \in {s[i] : i \in DOMAIN s}
  BY <1>6 DEF OrderStatistic
<1> QED
  BY <1>7

Middle(x, y) == <<x[1] * y[2] + y[1] * x[2], 2 * x[2] * y[2]>>

\* The half of a sum lies between its parts ...
LEMMA MiddleIsBetween ==
  ASSUME NEW x \in Fractions, NEW y \in Fractions
  PROVE  /\ Leq(x, y) => Leq(x, Middle(x, y)) /\ Leq(Middle(x, y), y)
         /\ Leq(y, x) => Leq(y, Middle(x, y)) /\ Leq(Middle(x, y), x)
<1> DEFINE a == x[1]  i == x[2]  b == y[1]  j == y[2]
           p == a * j  q == b * i
<1>1. a \in Nat /\ b \in Nat /\ i \in Nat \ {0} /\ j \in Nat \ {0}
  BY DEF Fractions
<1>2. /\ Leq(x, y) <=> p <= q
      /\ Leq(y, x) <=> q <= p
      /\ Leq(x, Middle(x, y)) <=> a * (2 * i * j) <= (p + q) * i
      /\ Leq(y, Middle(x, y)) <=> b * (2 * i * j) <= (p + q) * j
      /\ Leq(Middle(x, y), x) <=> (p + q) * i <= a * (2 * i * j)
      /\ Leq(Middle(x, y), y) <=> (p + q) * j <= b * (2 * i * j)
  BY DEF Leq, Middle
<1> HIDE DEF a, b, i, j
<1>3. a * (2 * i * j) = (p + p) * i /\ b * (2 * i * j) = (q + q) * j
  BY <1>1
<1>4. p \in Nat /\ q \in Nat
  BY <1>1
<1> HIDE DEF p, q
<1>5. p <= q => (p + p) * i <= (p + q) * i /\ (p + q) * j <= (q + q) * j
  BY <1>1, <1>4
<1>6. q <= p => (q + q) * j <= (p + q) * j /\ (p + q) * i <= (p + p) * i
  BY <1>1, <1>4
<1> QED
  BY <1>2, <1>3, <1>5, <1>6

\* ... and so does the median of samples.
LEMMA MedianIsBetween ==
  ASSUME NEW s, Rated(s), DOMAIN s # {}
  PROVE  /\ median(s) \in Fractions
         /\ \E i \in DOMAIN s : Leq(s[i], median(s))
         /\ \E i \in DOMAIN s : Leq(median(s), s[i])
<1> DEFINE number == Cardinality(DOMAIN s)
           x == OrderStatistic(s, number \div 2)
           y == OrderStatistic(s, number \div 2 + 1)
<1>1. number \in Nat \ {0}
  BY FS_EmptySet, FS_CardinalityType DEF Rated
<1>2. \A i \in DOMAIN s : s[i] \in Fractions
  BY DEF Rated
<1>3. number \div 2 + 1 \in 1..number
  <2> HIDE DEF number
  <2> QED
    BY <1>1
<1>4. PICK j \in DOMAIN s : y = s[j]
  BY <1>3, OrderStatisticIsSample
<1>5. CASE number % 2 = 1
  <2>1. median(s) = y
    BY <1>5 DEF median
  <2> QED
    BY <1>2, <1>4, <2>1, LeqOrders
<1>6. CASE number % 2 # 1
  <2>1. number \div 2 \in 1..number
    <3> HIDE DEF number
    <3> QED
      BY <1>1, <1>6
  <2>2. PICK i \in DOMAIN s : x = s[i]
    BY <2>1, OrderStatisticIsSample
  <2>3. median(s) = Middle(x, y)
    BY <1>6 DEF median, Middle
  <2>4. x \in Fractions /\ y \in Fractions
    BY <1>2, <1>4, <2>2
  <2>5. Leq(x, y) \/ Leq(y, x)
    BY <2>4, LeqOrders
  <2> HIDE DEF x, y
  <2>6. Middle(x, y) \in Fractions
    <3> DEFINE a == x[1]  i2 == x[2]  b == y[1]  j2 == y[2]
    <3>1. a \in Nat /\ b \in Nat /\ i2 \in Nat \ {0} /\ j2 \in Nat \ {0}
      BY <2>4 DEF Fractions
    <3> HIDE DEF a, b, i2, j2
    <3>2. a * j2 + b * i2 \in Nat /\ 2 * i2 * j2 \in Nat \ {0}
      BY <3>1
    <3>3. Middle(x, y) = <<a * j2 + b * i2, 2 * i2 * j2>>
      BY DEF Middle, a, b, i2, j2
    <3> QED
      BY <3>2, <3>3 DEF Fractions
  <2> QED
    BY <1>4, <2>2, <2>3, <2>4, <2>5, <2>6, MiddleIsBetween
<1> QED
  BY <1>5, <1>6

\* What is at the same rate for the same job keeps its order.
LEMMA ScalingKeepsOrder ==
  ASSUME NEW x, NEW y, x[1] \in Nat, x[2] \in Nat, y[1] \in Nat, y[2] \in Nat,
         NEW c \in Nat, NEW p \in Nat, Leq(x, y)
  PROVE  Leq(<<x[1] * c, x[2] * p>>, <<y[1] * c, y[2] * p>>)
<1> DEFINE a == x[1]  i == x[2]  b == y[1]  j == y[2]
<1>1. a * j <= b * i
  BY DEF Leq
<1>2. a \in Nat /\ b \in Nat /\ i \in Nat /\ j \in Nat
  OBVIOUS
<1>3. Leq(<<a * c, i * p>>, <<b * c, j * p>>) <=> (a * c) * (j * p) <= (b * c) * (i * p)
  BY DEF Leq
<1> HIDE DEF a, b, i, j
<1>4. a * j \in Nat /\ b * i \in Nat /\ c * p \in Nat
  BY <1>2
<1>5. \A u, v, w \in Nat : u <= v => u * w <= v * w
  OBVIOUS
<1>6. (a * j) * (c * p) <= (b * i) * (c * p)
  BY <1>1, <1>4, <1>5
<1>7. (a * c) * (j * p) = (a * j) * (c * p) /\ (b * c) * (i * p) = (b * i) * (c * p)
  BY <1>2
<1> QED
  BY <1>3, <1>6, <1>7 DEF a, b, i, j

Runs == [cells : Nat \ {0}, processes : Nat \ {0}, duration : Nat]

LEMMA SamplesAreRated ==
  ASSUME NEW cells \in Nat, NEW runs \in Seq(Runs)
  PROVE  Rated(Samples(cells, runs))
<1> DEFINE s == Samples(cells, runs)
           counted == {i \in DOMAIN runs : runs[i].duration # 0 /\ Similar(cells, runs[i])}
<1>1. /\ DOMAIN s = counted
      /\ \A i \in counted : s[i] = <<runs[i].duration * runs[i].processes, runs[i].cells>>
  BY DEF Samples, Rates
<1>2. IsFiniteSet(DOMAIN s)
  <2>1. IsFiniteSet(1..Len(runs))
    BY FS_Interval
  <2>2. counted \in SUBSET (1..Len(runs))
    OBVIOUS
  <2> QED
    BY <1>1, <2>1, <2>2, FS_Subset
<1>3. ASSUME NEW i \in counted
      PROVE  s[i] \in Fractions
  <2>1. runs[i] \in Runs
    OBVIOUS
  <2>2. /\ runs[i].duration \in Nat /\ runs[i].processes \in Nat
        /\ runs[i].cells \in Nat \ {0}
    BY <2>1 DEF Runs
  <2>3. runs[i].duration * runs[i].processes \in Nat
    BY <2>2
  <2>4. s[i] = <<runs[i].duration * runs[i].processes, runs[i].cells>>
    BY <1>1
  <2>5. \A a \in Nat, b \in Nat \ {0} : <<a, b>> \in Fractions
    BY DEF Fractions
  <2> QED
    BY <2>2, <2>3, <2>4, <2>5
<1> QED
  BY <1>1, <1>2, <1>3 DEF Rated

\* The estimate lies between the needs of two runs alike.
LEMMA EstimateIsBetween ==
  ASSUME NEW cells \in Nat, NEW processes \in Nat \ {0}, NEW runs \in Seq(Runs),
         estimate_duration_s(cells, processes, runs).basis = "history"
  PROVE  LET estimate == estimate_duration_s(cells, processes, runs).seconds
             like == {i \in DOMAIN runs : runs[i].duration # 0 /\
                        5 * runs[i].cells >= cells /\ runs[i].cells <= 5 * cells}
             needs(i) == <<runs[i].duration * runs[i].processes * cells,
                           runs[i].cells * processes>>
         IN  /\ \E i \in like : Leq(needs(i), estimate)
             /\ \E i \in like : Leq(estimate, needs(i))
<1> DEFINE s == Samples(cells, runs)
           rate == median(s)
           estimate == estimate_duration_s(cells, processes, runs).seconds
           like == {i \in DOMAIN runs : runs[i].duration # 0 /\
                      5 * runs[i].cells >= cells /\ runs[i].cells <= 5 * cells}
           needs(i) == <<runs[i].duration * runs[i].processes * cells,
                         runs[i].cells * processes>>
<1>1. cells # 0 /\ DOMAIN s # {}
  BY DEF estimate_duration_s
<1>2. estimate = <<rate[1] * cells, rate[2] * processes>>
  BY <1>1 DEF estimate_duration_s
<1>3. /\ DOMAIN s \subseteq like
      /\ \A i \in DOMAIN s : s[i] = <<runs[i].duration * runs[i].processes, runs[i].cells>>
  <2>1. \A i \in DOMAIN runs : runs[i] \in Runs
    OBVIOUS
  <2>2. \A i \in DOMAIN runs : runs[i].cells \in Nat
    BY <2>1 DEF Runs
  <2> QED
    BY <2>2 DEF Samples, Rates, Similar
<1>4. Rated(s)
  BY SamplesAreRated
<1>5. /\ rate \in Fractions
      /\ \E i \in DOMAIN s : Leq(s[i], rate)
      /\ \E i \in DOMAIN s : Leq(rate, s[i])
  BY <1>1, <1>4, MedianIsBetween
<1>6. rate[1] \in Nat /\ rate[2] \in Nat
  BY <1>5 DEF Fractions
<1>7. ASSUME NEW i \in DOMAIN s
      PROVE  /\ s[i][1] \in Nat /\ s[i][2] \in Nat
             /\ needs(i) = <<s[i][1] * cells, s[i][2] * processes>>
  BY <1>3, <1>4, <1>7 DEF Rated, Fractions
<1> HIDE DEF s, rate, estimate, needs, like
<1>8. ASSUME NEW i \in DOMAIN s, Leq(s[i], rate)
      PROVE  Leq(needs(i), estimate)
  BY <1>2, <1>6, <1>7, <1>8, ScalingKeepsOrder
<1>9. ASSUME NEW i \in DOMAIN s, Leq(rate, s[i])
      PROVE  Leq(estimate, needs(i))
  BY <1>2, <1>6, <1>7, <1>9, ScalingKeepsOrder
<1>10. /\ \E i \in like : Leq(needs(i), estimate)
       /\ \E i \in like : Leq(estimate, needs(i))
  BY <1>3, <1>5, <1>8, <1>9
<1> QED
  BY <1>10 DEF needs, like, estimate

-----------------------------------------------------------------------------
(* The file, the jobs made of it and their history *)

\* What the properties rest on: the file is a sequence of tokens, every run of
\* the history had cells and processes, and an estimate was made from the
\* history there is as long as its job is there.
CasesInv ==
  /\ text \in Seq(Tokens)
  /\ history \in Seq(Runs)
  /\ job # NoJob =>
       /\ job.cells \in Nat
       /\ job.processes \in Nat \ {0}
       /\ job.estimate = estimate_duration_s(job.cells, job.processes, history)

LEMMA ProcessesAreResolved ==
  ASSUME NEW t \in Seq(Tokens), NEW mpi \in Nat
  PROVE  resolved_processes(t, mpi) \in Nat \ {0}
<1>1. parse_mesh_count(t) \in Nat
  BY MeshesAreSaid
<1> QED
  BY <1>1, CasesAssumption DEF resolved_processes

LEMMA CasesInvInit ==
  CaseInit => CasesInv
<1> SUFFICES ASSUME CaseInit
             PROVE  CasesInv
  OBVIOUS
<1>1. text \in Seq(Tokens) /\ history \in Seq(Runs)
  BY DEF CaseInit
<1>2. job = NoJob
  BY DEF CaseInit
<1> QED
  BY <1>1, <1>2 DEF CasesInv

LEMMA CasesInvNext ==
  CasesInv /\ [CaseNext]_caseVars => CasesInv'
<1> SUFFICES ASSUME CasesInv, [CaseNext]_caseVars
             PROVE  CasesInv'
  OBVIOUS
<1>1. text \in Seq(Tokens) /\ history \in Seq(Runs)
  BY DEF CasesInv
<1>2. CASE Writes
  <2>1. PICK line \in Lines : text' = text \o line \o <<Newline>>
    BY <1>2 DEF Writes
  <2>2. line \in Seq(Tokens) /\ <<Newline>> \in Seq(Tokens)
    BY CasesAssumption DEF Tokens
  <2>3. text' \in Seq(Tokens)
    BY <1>1, <2>1, <2>2
  <2> QED
    BY <1>2, <2>3 DEF Writes, CasesInv
<1>3. CASE StartsOver
  <2>1. text' \in Seq(Tokens)
    BY <1>3 DEF StartsOver
  <2> QED
    BY <1>3, <2>1 DEF StartsOver, CasesInv
<1>4. ASSUME NEW mpi \in 0..MaxProcesses, Enqueue(mpi)
      PROVE  CasesInv'
  <2>1. mpi \in Nat
    BY CasesAssumption
  <2>2. /\ parse_mesh_cell_count(text) \in Nat
        /\ resolved_processes(text, mpi) \in Nat \ {0}
    BY <1>1, <2>1, CellsOfText, ProcessesAreResolved
  <2>3. /\ job'.cells = parse_mesh_cell_count(text)
        /\ job'.processes = resolved_processes(text, mpi)
        /\ job'.estimate = estimate_duration_s(job'.cells, job'.processes, history)
    BY <1>4 DEF Enqueue, JobOf
  <2>4. history' = history /\ text' = text
    BY <1>4 DEF Enqueue
  <2> QED
    BY <1>1, <2>2, <2>3, <2>4 DEF CasesInv
<1>5. ASSUME NEW duration \in Durations, Completes(duration)
      PROVE  CasesInv'
  <2>1. job # NoJob /\ job' = NoJob /\ text' = text
    BY <1>5 DEF Completes
  <2>2. history' \in Seq(Runs)
    <3>1. CASE job.cells = 0
      BY <1>1, <1>5, <3>1 DEF Completes
    <3>2. CASE job.cells # 0
      <4> DEFINE run == [cells |-> job.cells, processes |-> job.processes,
                         duration |-> duration]
      <4>1. run \in Runs
        BY <2>1, <3>2, CasesAssumption DEF CasesInv, Runs
      <4>2. history' = <<run>> \o history
        BY <1>5, <3>2 DEF Completes
      <4> HIDE DEF run
      <4>3. <<run>> \in Seq(Runs)
        BY <4>1
      <4> QED
        BY <1>1, <4>2, <4>3
    <3> QED
      BY <3>1, <3>2
  <2> QED
    BY <1>1, <2>1, <2>2 DEF CasesInv
<1>6. CASE EndsOtherwise
  BY <1>1, <1>6 DEF EndsOtherwise, CasesInv
<1>7. CASE UNCHANGED caseVars
  BY <1>7 DEF caseVars, CasesInv
<1> QED
  BY <1>2, <1>3, <1>4, <1>5, <1>6, <1>7 DEF CaseNext

\* In every state of the file and of the jobs made of it, the file is made of
\* tokens, what is kept of a job makes sense, and its estimate is the one that
\* enqueue makes from the history there is.
THEOREM CasesCorrect ==
  CaseSpec => []CasesInv
BY CasesInvInit, CasesInvNext, PTL DEF CaseSpec

\* Whatever lines a file is made of, in whatever order: the errors that
\* check_case_text finds in the namelists of iter_namelists are those of a
\* reader that goes through the file once.
THEOREM FindingsAreRealHolds ==
  CaseSpec => []FindingsAreReal
<1>1. CasesInv => FindingsAreReal
  BY FindingsOfText DEF CasesInv
<1> QED
  BY <1>1, CasesCorrect, PTL

\* What inspect_fds_file proposes is accepted, and taken by default, by the
\* handler that enqueues.
THEOREM PreviewIsAcceptedHolds ==
  CaseSpec => []PreviewIsAccepted
<1>1. CasesInv => PreviewIsAccepted
  BY PreviewOfText DEF CasesInv
<1> QED
  BY <1>1, CasesCorrect, PTL

\* An estimate of estimate_duration_s from any history lies between the needs
\* of two runs of that history of about as many cells.
THEOREM EstimateIsInRangeHolds ==
  CaseSpec => []EstimateIsInRange
<1>1. ASSUME CasesInv
      PROVE  EstimateIsInRange
  <2>1. SUFFICES ASSUME job # NoJob, job.estimate.basis = "history"
                 PROVE  EstimateIsInRange
    BY DEF EstimateIsInRange
  <2>2. /\ job.cells \in Nat /\ job.processes \in Nat \ {0} /\ history \in Seq(Runs)
        /\ job.estimate = estimate_duration_s(job.cells, job.processes, history)
    BY <1>1, <2>1 DEF CasesInv
  <2> QED
    BY <2>1, <2>2, EstimateIsBetween DEF EstimateIsInRange
<1> QED
  BY <1>1, CasesCorrect, PTL
=============================================================================
