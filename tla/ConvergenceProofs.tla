------------------------- MODULE ConvergenceProofs -------------------------
(***************************************************************************)
(* Beats is a strict total order on candidates, for every value of what it *)
(* compares.  So the loop of best ends at the first of those none beats,   *)
(* whatever the length of the list and the order of its elements, and the  *)
(* reason is that of the rule that told the best from the runner-up.       *)
(*                                                                         *)
(* The loop is a recursive function; what it has come to after each round  *)
(* is shown by the smallest counterexample: a set of numbers that is not   *)
(* empty has a least element (Smallest).                                   *)
(***************************************************************************)
EXTENDS MCConvergence, FiniteSetTheorems, SequenceTheorems, TLAPS

\* The columns the rules compare are numbers.
LEMMA Numbers ==
  ASSUME NEW c \in Candidate
  PROVE  /\ c.claimed \in Int /\ c.updated \in Int /\ c.fidelity \in Int
         /\ c.attachments \in Int /\ c.hash \in Int
BY DEF Candidate

\* No candidate replaces itself: a second reading of the same version, from
\* any source, never takes the place of the first.
THEOREM BeatsIrreflexive ==
  \A a \in Candidate : ~Beats(a, a)
BY Numbers DEF Beats

\* Two candidates never beat each other, so a pair of readings cannot make the
\* item flip back and forth.
THEOREM BeatsAsymmetric ==
  \A a, b \in Candidate : Beats(a, b) => ~Beats(b, a)
BY Numbers DEF Beats

\* What loses to a loser loses: comparing with the best so far is enough, which
\* is all the loop of best does.
THEOREM BeatsTransitive ==
  \A a, b, c \in Candidate : Beats(a, b) /\ Beats(b, c) => Beats(a, c)
<1> SUFFICES ASSUME NEW a \in Candidate, NEW b \in Candidate, NEW c \in Candidate,
                    Beats(a, b), Beats(b, c)
             PROVE  Beats(a, c)
  OBVIOUS
<1>1. /\ a.claimed \in Int /\ b.claimed \in Int /\ c.claimed \in Int
      /\ a.updated \in Int /\ b.updated \in Int /\ c.updated \in Int
      /\ a.fidelity \in Int /\ b.fidelity \in Int /\ c.fidelity \in Int
      /\ a.attachments \in Int /\ b.attachments \in Int /\ c.attachments \in Int
      /\ a.hash \in Int /\ b.hash \in Int /\ c.hash \in Int
  BY Numbers
<1> QED BY <1>1 DEF Beats

\* The order is total: of two different candidates one beats the other, so no
\* outcome is left to the order the rows come in.
THEOREM BeatsTotal ==
  \A a, b \in Candidate : a # b => Beats(a, b) \/ Beats(b, a)
<1> SUFFICES ASSUME NEW a \in Candidate, NEW b \in Candidate,
                    ~Beats(a, b), ~Beats(b, a)
             PROVE  a = b
  OBVIOUS
<1>1. /\ a.claimed = b.claimed /\ a.updated = b.updated /\ a.fidelity = b.fidelity
      /\ a.attachments = b.attachments /\ a.hash = b.hash
  BY Numbers DEF Beats
<1> QED BY <1>1 DEF Candidate

-----------------------------------------------------------------------------
(* Induction, as the existence of a smallest counterexample *)

LEMMA Smallest ==
  ASSUME NEW T \in SUBSET Nat, T # {}
  PROVE  \E m \in T : \A n \in T : m <= n
<1> DEFINE Upto == {0..n : n \in T}
<1>1. \A n \in T : 0..n \in FiniteSubsetsOf(Nat)
  BY FS_Interval DEF FiniteSubsetsOf
<1>2. Upto \in SUBSET FiniteSubsetsOf(Nat) /\ Upto # {}
  BY <1>1
<1>3. PICK x \in Upto : \A y \in Upto : ~(<<y, x>> \in StrictSubsetOrdering(Nat))
  BY <1>2, WFMin, FS_StrictSubsetOrderingWellFounded
<1>4. PICK m \in T : x = 0..m
  OBVIOUS
<1>5. ASSUME NEW n \in T, n < m PROVE FALSE
  <2>1. 0..n \in Upto /\ 0..n \subseteq Nat /\ 0..m \subseteq Nat
    OBVIOUS
  <2>2. 0..n \subseteq 0..m /\ m \in 0..m /\ m \notin 0..n
    BY <1>5
  <2>3. <<0..n, 0..m>> \in StrictSubsetOrdering(Nat)
    BY <2>1, <2>2 DEF StrictSubsetOrdering
  <2> QED
    BY <1>3, <1>4, <2>1, <2>3
<1> QED
  BY <1>5

-----------------------------------------------------------------------------
(* The loop of best *)

\* One round of the loop, and what the loop has come to after each round.
Round(cs, f, n) == IF n = 1 THEN 1 ELSE IF Beats(cs[n], cs[f[n - 1]]) THEN n ELSE f[n - 1]
Scans(cs, f, n) == f = [m \in 1..n |-> Round(cs, f, m)]

LEMMA ScanExists == \A cs, n : n \in Nat => \E f : Scans(cs, f, n)
<1> SUFFICES ASSUME NEW cs PROVE \A n \in Nat : \E f : Scans(cs, f, n)
  OBVIOUS
<1> DEFINE T == {n \in Nat : ~\E f : Scans(cs, f, n)}
<1>1. SUFFICES ASSUME T # {} PROVE FALSE
  OBVIOUS
<1>a. T \in SUBSET Nat
  OBVIOUS
<1>2. PICK n \in T : \A m \in T : n <= m
  <2> HIDE DEF T
  <2> QED
    BY <1>1, <1>a, Smallest
<1>3. CASE n = 0
  <2> DEFINE f == [m \in 1..0 |-> 1]
  <2>1. f = [m \in 1..0 |-> Round(cs, f, m)]
    OBVIOUS
  <2>2. Scans(cs, f, 0)
    BY <2>1 DEF Scans
  <2> QED
    BY <1>3, <2>2
<1>4. CASE n # 0
  <2>1. n - 1 \in Nat /\ n - 1 \notin T /\ n \in Nat
    BY <1>2, <1>4
  <2>2. PICK f : Scans(cs, f, n - 1)
    BY <2>1
  <2> DEFINE g == [k \in 1..n |-> Round(cs, f, k)]
  <2>3. \A k \in 1..(n - 1) : g[k] = f[k]
    BY <2>1, <2>2 DEF Scans
  <2>4. \A k \in 1..n : Round(cs, f, k) = Round(cs, g, k)
    <3> SUFFICES ASSUME NEW k \in 1..n, k # 1 PROVE Round(cs, f, k) = Round(cs, g, k)
      BY DEF Round
    <3>1. g[k - 1] = f[k - 1]
      BY <2>1, <2>3
    <3> QED
      BY <3>1 DEF Round
  <2>5. g = [k \in 1..n |-> Round(cs, g, k)]
    BY <2>4
  <2>6. Scans(cs, g, n)
    BY <2>5 DEF Scans
  <2> QED
    BY <2>6
<1> QED
  BY <1>3, <1>4

LEMMA BestScans ==
  ASSUME NEW cs, Len(cs) \in Nat
  PROVE  \E f : Scans(cs, f, Len(cs)) /\ Best(cs) = f[Len(cs)]
<1> DEFINE at[n \in 1..Len(cs)] ==
             IF n = 1 THEN 1
             ELSE IF Beats(cs[n], cs[at[n - 1]]) THEN n ELSE at[n - 1]
<1>1. Best(cs) = at[Len(cs)]
  BY DEF Best
<1>2. at = CHOOSE f : f = [n \in 1..Len(cs) |-> IF n = 1 THEN 1 ELSE IF Beats(cs[n], cs[f[n - 1]]) THEN n ELSE f[n - 1]]
  OBVIOUS
<1> HIDE DEF at
<1>3. at = CHOOSE f : Scans(cs, f, Len(cs))
  BY <1>2 DEF Scans, Round
<1>4. \E f : Scans(cs, f, Len(cs))
  BY ScanExists
<1>5. Scans(cs, at, Len(cs))
  BY <1>3, <1>4
<1> QED
  BY <1>1, <1>5

\* After n rounds the loop is at the first of the best n.
Leads(cs, b, n) ==
  /\ b \in 1..n
  /\ \A m \in 1..n : ~Beats(cs[m], cs[b]) /\ (m < b => Beats(cs[b], cs[m]))

LEMMA ScanLeads ==
  ASSUME NEW cs, NEW N \in Nat, NEW f, Scans(cs, f, N), \A n \in 1..N : cs[n] \in Candidate
  PROVE  \A n \in 1..N : Leads(cs, f[n], n)
<1> DEFINE T == {n \in 1..N : ~Leads(cs, f[n], n)}
<1>1. SUFFICES ASSUME T # {} PROVE FALSE
  OBVIOUS
<1>a. T \in SUBSET Nat
  OBVIOUS
<1>2. PICK n \in T : \A m \in T : n <= m
  <2> HIDE DEF T
  <2> QED
    BY <1>1, <1>a, Smallest
<1>3. n \in 1..N /\ f[n] = Round(cs, f, n)
  BY DEF Scans
<1>4. CASE n = 1
  <2>1. f[1] = 1 /\ cs[1] \in Candidate
    BY <1>3, <1>4 DEF Round
  <2>2. ~Beats(cs[1], cs[1])
    BY <2>1, BeatsIrreflexive
  <2>3. Leads(cs, f[1], 1)
    BY <2>1, <2>2 DEF Leads
  <2> QED
    BY <1>4, <2>3
<1>5. CASE n # 1
  <2> DEFINE b == f[n - 1]
  <2>1. n - 1 \in 1..N /\ n - 1 \notin T
    BY <1>2, <1>3, <1>5
  <2>2. Leads(cs, b, n - 1)
    BY <2>1
  <2>3. f[n] = IF Beats(cs[n], cs[b]) THEN n ELSE b
    BY <1>3, <1>5 DEF Round
  <2> HIDE DEF b
  <2>4. b \in 1..(n - 1) /\ b \in 1..N /\ cs[b] \in Candidate /\ cs[n] \in Candidate
    BY <1>3, <2>1, <2>2 DEF Leads
  <2>5. \A m \in 1..n : m = n \/ m \in 1..(n - 1)
    BY <1>3
  <2>6. CASE Beats(cs[n], cs[b])
    <3>1. ASSUME NEW m \in 1..(n - 1) PROVE Beats(cs[n], cs[m])
      <4>1. cs[m] \in Candidate /\ ~Beats(cs[m], cs[b])
        BY <1>3, <2>2 DEF Leads
      <4>2. cs[m] = cs[b] \/ Beats(cs[b], cs[m])
        BY <2>4, <4>1, BeatsTotal
      <4> QED
        BY <2>4, <2>6, <4>1, <4>2, BeatsTransitive
    <3>2. \A m \in 1..n : ~Beats(cs[m], cs[n]) /\ (m < n => Beats(cs[n], cs[m]))
      BY <1>3, <2>4, <2>5, <3>1, BeatsIrreflexive, BeatsAsymmetric
    <3>3. Leads(cs, n, n)
      BY <1>3, <3>2 DEF Leads
    <3> QED
      BY <2>3, <2>6, <3>3
  <2>7. CASE ~Beats(cs[n], cs[b])
    <3>1. Leads(cs, b, n)
      BY <1>3, <2>2, <2>4, <2>5, <2>7 DEF Leads
    <3> QED
      BY <2>3, <2>7, <3>1
  <2> QED
    BY <2>6, <2>7
<1> QED
  BY <1>4, <1>5

\* The loop of best ends, for every list of candidates, at one that none beats
\* and, of those, at the first (internal/convergence, best).
THEOREM BestLeads ==
  \A cs \in Seq(Candidate) : cs # <<>> => Leads(cs, Best(cs), Len(cs))
<1> SUFFICES ASSUME NEW cs \in Seq(Candidate), cs # <<>> PROVE Leads(cs, Best(cs), Len(cs))
  OBVIOUS
<1>1. Len(cs) \in Nat /\ Len(cs) \in 1..Len(cs) /\ \A n \in 1..Len(cs) : cs[n] \in Candidate
  OBVIOUS
<1>2. PICK f : Scans(cs, f, Len(cs)) /\ Best(cs) = f[Len(cs)]
  BY <1>1, BestScans
<1> QED
  BY <1>1, <1>2, ScanLeads

-----------------------------------------------------------------------------
(* The reason *)

\* What is left without the candidate at a position: the others, and all of
\* them.
LEMMA Others ==
  ASSUME NEW cs \in Seq(Candidate), NEW at \in 1..Len(cs)
  PROVE  LET rest == Without(cs, at) IN
         /\ rest \in Seq(Candidate) /\ Len(rest) = Len(cs) - 1
         /\ \A k \in 1..Len(rest) : \E n \in 1..Len(cs) : n # at /\ rest[k] = cs[n]
         /\ \A n \in 1..Len(cs) : n # at => \E k \in 1..Len(rest) : rest[k] = cs[n]
<1> DEFINE L == Len(cs)
           s == SubSeq(cs, 1, at - 1)
           t == SubSeq(cs, at + 1, L)
<1>1. L \in Nat /\ at \in 1..L
  OBVIOUS
<1>2. /\ s \in Seq(Candidate) /\ Len(s) = at - 1
      /\ \A k \in 1..(at - 1) : s[k] = cs[k]
  OBVIOUS
<1>3. /\ t \in Seq(Candidate) /\ Len(t) = L - at
      /\ \A k \in 1..(L - at) : t[k] = cs[at + k]
  OBVIOUS
<1>4. Without(cs, at) = s \o t
  BY DEF Without
<1> HIDE DEF s, t, L
<1>5. /\ s \o t \in Seq(Candidate) /\ Len(s \o t) = L - 1
      /\ \A k \in 1..(L - 1) : (s \o t)[k] = IF k < at THEN s[k] ELSE t[k - (at - 1)]
  <2>1. /\ s \o t \in Seq(Candidate) /\ Len(s \o t) = Len(s) + Len(t)
        /\ \A k \in 1..(Len(s) + Len(t)) : (s \o t)[k] = IF k <= Len(s) THEN s[k] ELSE t[k - Len(s)]
    BY <1>2, <1>3, ConcatProperties
  <2>2. Len(s) + Len(t) = L - 1 /\ \A k \in 1..(L - 1) : k <= Len(s) <=> k < at
    BY <1>1, <1>2, <1>3
  <2> QED
    BY <1>2, <2>1, <2>2
<1>6. \A k \in 1..(L - 1) : (s \o t)[k] = IF k < at THEN cs[k] ELSE cs[k + 1]
  <2> SUFFICES ASSUME NEW k \in 1..(L - 1)
               PROVE  (s \o t)[k] = IF k < at THEN cs[k] ELSE cs[k + 1]
    OBVIOUS
  <2>1. CASE k < at
    BY <1>1, <1>2, <1>5, <2>1
  <2>2. CASE ~(k < at)
    <3>1. k - (at - 1) \in 1..(L - at) /\ at + (k - (at - 1)) = k + 1
      BY <1>1, <2>2
    <3> QED
      BY <1>3, <1>5, <2>2, <3>1
  <2> QED
    BY <2>1, <2>2
<1>7. \A k \in 1..(L - 1) : \E n \in 1..L : n # at /\ (s \o t)[k] = cs[n]
  <2> SUFFICES ASSUME NEW k \in 1..(L - 1)
               PROVE  \E n \in 1..L : n # at /\ (s \o t)[k] = cs[n]
    OBVIOUS
  <2>1. k \in 1..L /\ k + 1 \in 1..L
    BY <1>1
  <2>2. CASE k < at
    <3>1. k # at
      BY <1>1, <2>2
    <3>2. (s \o t)[k] = cs[k]
      BY <1>6, <2>2
    <3> QED
      BY <2>1, <3>1, <3>2
  <2>3. CASE ~(k < at)
    <3>1. k + 1 # at
      BY <1>1, <2>3
    <3>2. (s \o t)[k] = cs[k + 1]
      BY <1>6, <2>3
    <3> QED
      BY <2>1, <3>1, <3>2
  <2> QED
    BY <2>2, <2>3
<1>8. \A n \in 1..L : n # at => \E k \in 1..(L - 1) : (s \o t)[k] = cs[n]
  <2> SUFFICES ASSUME NEW n \in 1..L, n # at
               PROVE  \E k \in 1..(L - 1) : (s \o t)[k] = cs[n]
    OBVIOUS
  <2>1. CASE n < at
    <3>1. n \in 1..(L - 1)
      BY <1>1, <2>1
    <3> QED
      BY <1>6, <2>1, <3>1
  <2>2. CASE ~(n < at)
    <3>1. n - 1 \in 1..(L - 1) /\ ~(n - 1 < at) /\ (n - 1) + 1 = n
      BY <1>1, <2>2
    <3> QED
      BY <1>6, <3>1
  <2> QED
    BY <2>1, <2>2
<1> QED
  BY <1>4, <1>5, <1>7, <1>8 DEF L

\* c is the best of the candidates at the other positions than the best one's.
RunnerUp(cs, c) ==
  /\ \E n \in 1..Len(cs) : n # Best(cs) /\ c = cs[n]
  /\ \A n \in 1..Len(cs) : n # Best(cs) => ~Beats(cs[n], c)

\* The reason is given against the runner-up.
LEMMA ReasonAgainst ==
  ASSUME NEW cs \in Seq(Candidate), Len(cs) > 1
  PROVE  \E c \in Candidate : RunnerUp(cs, c) /\ Resolve(cs).reason = Reason(cs[Best(cs)], c)
<1> DEFINE b == Best(cs)
           rest == Without(cs, b)
           k == Best(rest)
<1>1. b \in 1..Len(cs)
  BY BestLeads DEF Leads
<1> HIDE DEF b
<1>2. /\ rest \in Seq(Candidate) /\ Len(rest) = Len(cs) - 1
      /\ \A j \in 1..Len(rest) : \E n \in 1..Len(cs) : n # b /\ rest[j] = cs[n]
      /\ \A n \in 1..Len(cs) : n # b => \E j \in 1..Len(rest) : rest[j] = cs[n]
  BY <1>1, Others
<1> HIDE DEF rest
<1>3. Leads(rest, k, Len(rest))
  <2>1. rest # <<>>
    BY <1>2
  <2> QED
    BY <1>2, <2>1, BestLeads
<1>4. Resolve(cs).reason = Reason(cs[b], rest[k])
  <2>1. Len(cs) \in Nat
    OBVIOUS
  <2>2. Len(cs) # 1
    <3>1. \A x \in Nat : x > 1 => x # 1
      OBVIOUS
    <3> QED
      BY <2>1, <3>1
  <2> QED
    BY <2>2 DEF Resolve, b, rest
<1> HIDE DEF k
<1>5. k \in 1..Len(rest) /\ rest[k] \in Candidate /\ \A j \in 1..Len(rest) : ~Beats(rest[j], rest[k])
  <2>1. k \in 1..Len(rest) /\ \A j \in 1..Len(rest) : ~Beats(rest[j], rest[k])
    BY <1>3 DEF Leads
  <2>2. rest[k] \in Candidate
    BY <1>2, <2>1, ElementOfSeq
  <2> QED
    BY <2>1, <2>2
<1>6. RunnerUp(cs, rest[k])
  BY <1>2, <1>5 DEF RunnerUp, b
<1> QED
  BY <1>4, <1>5, <1>6 DEF b

\* Rearranged, a list has the same best and the same runner-up.
LEMMA SameDecision ==
  ASSUME NEW cs \in Seq(Candidate), NEW ds \in Seq(Candidate), cs # <<>>, Len(ds) = Len(cs),
         NEW p \in Bijection(1..Len(cs), 1..Len(cs)), \A n \in 1..Len(cs) : ds[n] = cs[p[n]]
  PROVE  /\ ds[Best(ds)] = cs[Best(cs)]
         /\ \A c, d \in Candidate : RunnerUp(cs, c) /\ RunnerUp(ds, d) => c = d
<1> DEFINE P == 1..Len(cs)
           b == Best(cs)
           e == Best(ds)
<1>1. Len(cs) \in Nat /\ ds # <<>>
  OBVIOUS
<1>2. b \in P /\ (\A m \in P : ~Beats(cs[m], cs[b])) /\ e \in P /\ \A m \in P : ~Beats(ds[m], ds[e])
  BY <1>1, BestLeads DEF Leads
<1>3. \A n \in P : cs[n] \in Candidate /\ ds[n] \in Candidate
  BY <1>1
<1>4. p \in [P -> P] /\ \A w \in P : \E v \in P : p[v] = w
  BY DEF Bijection, Surjection
<1>5. \A v, w \in P : p[v] = p[w] => v = w
  BY <1>4 DEF Bijection, Injection, IsInjective
<1> HIDE DEF P, b, e
<1>6. \A n \in P : ds[n] = cs[p[n]] /\ p[n] \in P
  BY <1>4 DEF P
<1>7. ds[e] = cs[b]
  <2>1. ~Beats(ds[e], cs[b])
    BY <1>2, <1>6
  <2>2. ~Beats(cs[b], ds[e])
    BY <1>2, <1>4, <1>6
  <2> QED
    BY <1>2, <1>3, <2>1, <2>2, BeatsTotal
<1>8. ASSUME NEW c \in Candidate, NEW d \in Candidate, RunnerUp(cs, c), RunnerUp(ds, d)
      PROVE  c = d
  <2>1. /\ \E n \in P : n # b /\ c = cs[n]
        /\ \A n \in P : n # b => ~Beats(cs[n], c)
        /\ \E n \in P : n # e /\ d = ds[n]
        /\ \A n \in P : n # e => ~Beats(ds[n], d)
    BY <1>8 DEF RunnerUp, P, b, e
  <2>2. ~Beats(d, c)
    <3>1. PICK n \in P : n # e /\ d = ds[n]
      BY <2>1
    <3>2. CASE p[n] # b
      BY <1>6, <2>1, <3>1, <3>2
    <3>3. CASE p[n] = b
      <4>1. p[e] # b /\ p[e] \in P /\ cs[p[e]] = d
        BY <1>2, <1>5, <1>6, <1>7, <3>1, <3>3
      <4> QED
        BY <2>1, <4>1
    <3> QED
      BY <3>2, <3>3
  <2>3. ~Beats(c, d)
    <3>1. PICK n \in P : n # b /\ c = cs[n]
      BY <2>1
    <3>2. PICK v \in P : p[v] = n
      BY <1>4
    <3>3. CASE v # e
      BY <1>6, <2>1, <3>1, <3>2, <3>3
    <3>4. CASE v = e
      <4>1. PICK u \in P : p[u] = b
        BY <1>2, <1>4
      <4>2. u # e /\ ds[u] = c
        BY <1>6, <1>7, <3>1, <3>2, <3>4, <4>1
      <4> QED
        BY <2>1, <4>2
    <3> QED
      BY <3>3, <3>4
  <2> QED
    BY <2>2, <2>3, BeatsTotal
<1> QED
  BY <1>7, <1>8 DEF b, e

-----------------------------------------------------------------------------
(* The five rules as one number *)

\* A digit counts less than what is before it.
LEMMA Digit ==
  ASSUME NEW n \in Nat, NEW x \in Int, NEW y \in Int, NEW a \in 0..(n - 1), NEW b \in 0..(n - 1),
         x < y \/ (x = y /\ a < b)
  PROVE  x * n + a < y * n + b
<1>1. CASE x = y
  BY <1>1
<1>2. CASE x < y
  <2>1. PICK d \in Nat : y = x + 1 + d
    BY <1>2
  <2>2. d * n >= 0 /\ d * n \in Int /\ x * n \in Int
    OBVIOUS
  <2>3. y * n = x * n + n + d * n
    BY <2>1
  <2> QED
    BY <2>2, <2>3
<1> QED
  BY <1>1, <1>2

LEMMA ScoreIsNumber ==
  ASSUME NEW c \in Compared
  PROVE  Score(c) \in Int
<1>1. /\ c.claimed \in Int /\ c.updated \in Int /\ c.fidelity \in Int
      /\ c.attachments \in Int /\ Top - c.hash \in Int /\ Top + 1 \in Int
  BY TopAssumption DEF Compared
<1>2. \A x, y, n \in Int : x * n + y \in Int
  OBVIOUS
<1> QED
  BY <1>1, <1>2 DEF Score

\* Whoever beats another has the higher score.
LEMMA BeatsScores ==
  ASSUME NEW a \in Compared, NEW b \in Compared, Beats(a, b)
  PROVE  Score(b) < Score(a)
<1> DEFINE n == Top + 1
           One(c) == c.claimed * n + c.updated
           Two(c) == One(c) * n + c.fidelity
           Three(c) == Two(c) * n + c.attachments
           Four(c) == Three(c) * n + (Top - c.hash)
<1>1. n \in Nat
  BY TopAssumption
<1>2. \A c \in {a, b} : /\ c.claimed \in Int /\ c.updated \in 0..(n - 1) /\ c.fidelity \in 0..(n - 1)
                        /\ c.attachments \in 0..(n - 1) /\ Top - c.hash \in 0..(n - 1)
  BY TopAssumption DEF Compared
<1>3. \A c \in {a, b} : One(c) \in Int /\ Two(c) \in Int /\ Three(c) \in Int
  BY <1>1, <1>2
<1>4. Score(a) = Four(a) /\ Score(b) = Four(b)
  BY DEF Score
<1>5. /\ b.claimed < a.claimed => One(b) < One(a)
      /\ b.claimed = a.claimed /\ b.updated < a.updated => One(b) < One(a)
      /\ b.claimed = a.claimed /\ b.updated = a.updated => One(b) = One(a)
  BY <1>1, <1>2, Digit
<1> HIDE DEF One
<1>6. /\ One(b) < One(a) => Two(b) < Two(a)
      /\ One(b) = One(a) /\ b.fidelity < a.fidelity => Two(b) < Two(a)
      /\ One(b) = One(a) /\ b.fidelity = a.fidelity => Two(b) = Two(a)
  BY <1>1, <1>2, <1>3, Digit
<1> HIDE DEF Two
<1>7. /\ Two(b) < Two(a) => Three(b) < Three(a)
      /\ Two(b) = Two(a) /\ b.attachments < a.attachments => Three(b) < Three(a)
      /\ Two(b) = Two(a) /\ b.attachments = a.attachments => Three(b) = Three(a)
  BY <1>1, <1>2, <1>3, Digit
<1> HIDE DEF Three
<1>8. /\ Three(b) < Three(a) => Four(b) < Four(a)
      /\ Three(b) = Three(a) /\ Top - b.hash < Top - a.hash => Four(b) < Four(a)
  BY <1>1, <1>2, <1>3, Digit
<1> HIDE DEF Four, n
<1>9. a.hash < b.hash => Top - b.hash < Top - a.hash
  BY TopAssumption DEF Compared
<1>10. /\ a.claimed \in Int /\ b.claimed \in Int /\ a.updated \in Int /\ b.updated \in Int
       /\ a.fidelity \in Int /\ b.fidelity \in Int /\ a.attachments \in Int /\ b.attachments \in Int
  BY TopAssumption DEF Compared
<1> QED
  BY <1>4, <1>5, <1>6, <1>7, <1>8, <1>9, <1>10 DEF Beats

-----------------------------------------------------------------------------
(* What the instance decides, whatever arrives *)

Readings == candidates \in Seq(Compared)

LEMMA ReadingsAlways == Spec => []Readings
<1>1. Init => Readings
  BY DEF Init, Readings
<1>2. Readings /\ [Next]_candidates => Readings'
  BY DEF Readings, Next, Arrive
<1> QED
  BY <1>1, <1>2, PTL DEF Spec

LEMMA ComparedAreCandidates ==
  ASSUME NEW cs \in Seq(Compared)
  PROVE  cs \in Seq(Candidate)
<1>1. Compared \subseteq Candidate
  BY TopAssumption DEF Compared, Candidate
<1> QED
  BY <1>1

LEMMA BestScores ==
  ASSUME Readings
  PROVE  WinnerIsBest
<1> DEFINE w == Best(candidates)
<1> SUFFICES ASSUME candidates # <<>>, NEW n \in Positions
             PROVE  /\ Score(candidates[n]) <= Score(candidates[w])
                    /\ n < w => Score(candidates[n]) < Score(candidates[w])
  BY DEF WinnerIsBest, Resolve
<1>1. candidates \in Seq(Candidate) /\ \A m \in Positions : candidates[m] \in Compared /\ candidates[m] \in Candidate
  BY ComparedAreCandidates DEF Readings, Positions
<1>2. /\ w \in Positions /\ ~Beats(candidates[n], candidates[w])
      /\ n < w => Beats(candidates[w], candidates[n])
  BY <1>1, BestLeads DEF Leads, Positions
<1> HIDE DEF w
<1>3. candidates[n] = candidates[w] \/ Beats(candidates[w], candidates[n])
  BY <1>1, <1>2, BeatsTotal
<1>4. Beats(candidates[w], candidates[n]) => Score(candidates[n]) < Score(candidates[w])
  BY <1>1, <1>2, BeatsScores
<1>5. Score(candidates[n]) \in Int /\ Score(candidates[w]) \in Int
  BY <1>1, <1>2, ScoreIsNumber
<1> QED
  BY <1>2, <1>3, <1>4, <1>5

LEMMA OrderDoesNotMatter ==
  ASSUME Readings
  PROVE  OrderIrrelevant
<1> SUFFICES ASSUME candidates # <<>>, NEW p \in Bijection(Positions, Positions)
             PROVE  LET mixed == [n \in Positions |-> candidates[p[n]]] IN
                    /\ Winner(mixed) = Winner(candidates)
                    /\ Resolve(mixed).reason = Resolve(candidates).reason
  BY BestScores DEF OrderIrrelevant
<1> DEFINE mixed == [n \in Positions |-> candidates[p[n]]]
<1>1. candidates \in Seq(Candidate) /\ Len(candidates) \in Nat /\ Len(candidates) # 0
  BY ComparedAreCandidates DEF Readings
<1>2. p \in [Positions -> Positions]
  BY DEF Bijection, Injection
<1>3. /\ mixed \in Seq(Candidate) /\ Len(mixed) = Len(candidates)
      /\ \A n \in 1..Len(candidates) : mixed[n] = candidates[p[n]]
  BY <1>1, <1>2 DEF Positions
<1> HIDE DEF mixed
<1>4. /\ mixed[Best(mixed)] = candidates[Best(candidates)]
      /\ \A c, d \in Candidate : RunnerUp(candidates, c) /\ RunnerUp(mixed, d) => c = d
  <2>1. p \in Bijection(1..Len(candidates), 1..Len(candidates))
    BY DEF Positions
  <2> QED
    BY <1>1, <1>3, <2>1, SameDecision
<1>5. Winner(mixed) = Winner(candidates)
  BY <1>4 DEF Winner, Resolve
<1>6. Resolve(mixed).reason = Resolve(candidates).reason
  <2>1. CASE Len(candidates) = 1
    <3>1. Resolve(candidates).reason = "only candidate" /\ Resolve(mixed).reason = "only candidate"
      BY <1>3, <2>1 DEF Resolve
    <3> QED
      BY <3>1
  <2>2. CASE Len(candidates) > 1
    <3>1. PICK c \in Candidate :
            RunnerUp(candidates, c) /\ Resolve(candidates).reason = Reason(candidates[Best(candidates)], c)
      BY <1>1, <2>2, ReasonAgainst
    <3>2. PICK d \in Candidate :
            RunnerUp(mixed, d) /\ Resolve(mixed).reason = Reason(mixed[Best(mixed)], d)
      BY <1>3, <2>2, ReasonAgainst
    <3> QED
      BY <1>4, <3>1, <3>2
  <2>3. Len(candidates) = 1 \/ Len(candidates) > 1
    BY <1>1
  <2> QED
    BY <2>1, <2>2, <2>3
<1> QED
  BY <1>5, <1>6 DEF mixed

\* Whatever arrives and in whatever order, the version shown is the one with the
\* highest score, at the lowest id, and with the same reason
\* (internal/convergence, Resolve).
THEOREM OrderNeverMatters == Spec => []OrderIrrelevant
BY ReadingsAlways, OrderDoesNotMatter, PTL

LEMMA ReasonIsRule ==
  ASSUME Readings
  PROVE  ReasonDecides
<1> SUFFICES ASSUME Len(candidates) > 1 PROVE ReasonDecides
  BY DEF ReasonDecides
<1> DEFINE cs == candidates
           w == Best(cs)
           Survives(n, rule) == \A r \in 1..rule : Ties(cs[n], cs[w], r)
           reason == Resolve(cs).reason
           rule == CHOOSE r \in 1..5 : Rules[r] = reason
<1>1. cs \in Seq(Candidate) /\ cs # <<>> /\ \A n \in Positions : cs[n] \in Candidate
  BY ComparedAreCandidates DEF Readings, Positions
<1>2. w \in Positions /\ \A n \in Positions : ~Beats(cs[n], cs[w])
  BY <1>1, BestLeads DEF Leads, Positions
<1>3. PICK c \in Candidate : RunnerUp(cs, c) /\ reason = Reason(cs[w], c)
  BY <1>1, ReasonAgainst
<1>4. PICK m \in Positions \ {w} : c = cs[m]
  BY <1>3 DEF RunnerUp, Positions
<1>5. \A n \in Positions \ {w} : ~Beats(cs[n], c)
  BY <1>3 DEF RunnerUp, Positions
<1>6. ReasonDecides <=> /\ \E n \in Positions \ {w} : Survives(n, rule - 1)
                        /\ \A n \in Positions \ {w} : ~Survives(n, rule)
  BY DEF ReasonDecides, Resolve
<1> HIDE DEF w, reason, cs
<1>7. \E k \in 1..5 : /\ Rules[k] = reason
                      /\ \A r \in 1..(k - 1) : Ties(c, cs[w], r)
                      /\ ~Ties(c, cs[w], k)
  <2> DEFINE a == cs[w]
  <2> HIDE DEF a
  <2>a. /\ Rules[1] = "author origin" /\ Rules[2] = "newer" /\ Rules[3] = "fidelity"
        /\ Rules[4] = "attachments" /\ Rules[5] = "hash"
    BY DEF Rules
  <2>b. /\ Ties(c, a, 1) <=> c.claimed = a.claimed
        /\ Ties(c, a, 2) <=> c.updated = a.updated
        /\ Ties(c, a, 3) <=> c.fidelity = a.fidelity
        /\ Ties(c, a, 4) <=> c.attachments = a.attachments
        /\ ~Ties(c, a, 5)
    BY DEF Ties
  <2>0. reason = Reason(a, c)
    BY <1>3 DEF a
  <2>1. CASE a.claimed # c.claimed
    <3>1. Rules[1] = reason /\ ~Ties(c, a, 1)
      BY <2>0, <2>a, <2>b, <2>1 DEF Reason
    <3> QED
      BY <3>1 DEF a
  <2>2. CASE a.claimed = c.claimed /\ a.updated # c.updated
    <3>1. Rules[2] = reason /\ Ties(c, a, 1) /\ ~Ties(c, a, 2)
      BY <2>0, <2>a, <2>b, <2>2 DEF Reason
    <3> QED
      BY <3>1 DEF a
  <2>3. CASE a.claimed = c.claimed /\ a.updated = c.updated /\ a.fidelity # c.fidelity
    <3>1. Rules[3] = reason /\ Ties(c, a, 1) /\ Ties(c, a, 2) /\ ~Ties(c, a, 3)
      BY <2>0, <2>a, <2>b, <2>3 DEF Reason
    <3> QED
      BY <3>1 DEF a
  <2>4. CASE /\ a.claimed = c.claimed /\ a.updated = c.updated
             /\ a.fidelity = c.fidelity /\ a.attachments # c.attachments
    <3>1. Rules[4] = reason /\ Ties(c, a, 1) /\ Ties(c, a, 2) /\ Ties(c, a, 3) /\ ~Ties(c, a, 4)
      BY <2>0, <2>a, <2>b, <2>4 DEF Reason
    <3> QED
      BY <3>1 DEF a
  <2>5. CASE /\ a.claimed = c.claimed /\ a.updated = c.updated
             /\ a.fidelity = c.fidelity /\ a.attachments = c.attachments
    <3>1. /\ Rules[5] = reason /\ Ties(c, a, 1) /\ Ties(c, a, 2) /\ Ties(c, a, 3) /\ Ties(c, a, 4)
          /\ ~Ties(c, a, 5)
      BY <2>0, <2>a, <2>b, <2>5 DEF Reason
    <3> QED
      BY <3>1 DEF a
  <2> QED
    BY <2>1, <2>2, <2>3, <2>4, <2>5
<1>8. PICK k \in 1..5 : /\ Rules[k] = reason
                        /\ \A r \in 1..(k - 1) : Ties(c, cs[w], r)
                        /\ ~Ties(c, cs[w], k)
  BY <1>7
<1>9. rule = k
  <2>1. \A i, j \in 1..5 : Rules[i] = Rules[j] => i = j
    <3>1. /\ Rules[1] = "author origin" /\ Rules[2] = "newer" /\ Rules[3] = "fidelity"
          /\ Rules[4] = "attachments" /\ Rules[5] = "hash"
      BY DEF Rules
    <3>2. \A i \in 1..5 : i = 1 \/ i = 2 \/ i = 3 \/ i = 4 \/ i = 5
      OBVIOUS
    <3> QED
      BY <3>1, <3>2
  <2> QED
    BY <1>8, <2>1
<1> HIDE DEF rule
<1>10. Survives(m, k - 1)
  BY <1>4, <1>8
<1>11. ASSUME NEW n \in Positions \ {w}, Survives(n, k) PROVE FALSE
  <2> DEFINE a == cs[w]
             d == cs[n]
  <2>1. a \in Candidate /\ d \in Candidate /\ c \in Candidate /\ ~Beats(c, a) /\ ~Beats(d, c)
    BY <1>1, <1>2, <1>4, <1>5
  <2>2. \A r \in 1..k : Ties(d, a, r)
    BY <1>11
  <2>3. (\A r \in 1..(k - 1) : Ties(c, a, r)) /\ ~Ties(c, a, k)
    BY <1>8
  <2> HIDE DEF a, d
  <2>4. c # a => Beats(a, c)
    BY <2>1, BeatsTotal
  <2>5. CASE k = 1
    <3>1. d.claimed = a.claimed /\ c.claimed # a.claimed
      BY <2>2, <2>3, <2>5 DEF Ties
    <3> QED
      BY <2>1, <2>4, <3>1, Numbers DEF Beats
  <2>6. CASE k = 2
    <3>1. Ties(d, a, 1) /\ Ties(d, a, 2) /\ Ties(c, a, 1) /\ ~Ties(c, a, 2)
      BY <2>2, <2>3, <2>6
    <3> QED
      BY <2>1, <2>4, <3>1, Numbers DEF Beats, Ties
  <2>7. CASE k = 3
    <3>1. Ties(d, a, 1) /\ Ties(d, a, 2) /\ Ties(d, a, 3) /\ Ties(c, a, 1) /\ Ties(c, a, 2) /\ ~Ties(c, a, 3)
      BY <2>2, <2>3, <2>7
    <3> QED
      BY <2>1, <2>4, <3>1, Numbers DEF Beats, Ties
  <2>8. CASE k = 4
    <3>1. /\ Ties(d, a, 1) /\ Ties(d, a, 2) /\ Ties(d, a, 3) /\ Ties(d, a, 4)
          /\ Ties(c, a, 1) /\ Ties(c, a, 2) /\ Ties(c, a, 3) /\ ~Ties(c, a, 4)
      BY <2>2, <2>3, <2>8
    <3> QED
      BY <2>1, <2>4, <3>1, Numbers DEF Beats, Ties
  <2>9. CASE k = 5
    BY <2>2, <2>9 DEF Ties
  <2> QED
    BY <1>8, <2>5, <2>6, <2>7, <2>8, <2>9
<1> QED
  BY <1>4, <1>6, <1>9, <1>10, <1>11

\* The reason stored with an item is the rule that decided: another candidate
\* got as far as that rule, and none got past it (internal/convergence, reason).
THEOREM ReasonNamesTheRule == Spec => []ReasonDecides
BY ReadingsAlways, ReasonIsRule, PTL

=============================================================================
