---------------------------- MODULE JournalProofs ----------------------------
(***************************************************************************)
(* What the operators of JournaledInstance say of a journal that grows by  *)
(* one fact: the fold, and the questions asked of the facts about commands. *)
(***************************************************************************)
EXTENDS JournaledInstance, TLAPS, WellFoundedInduction, SequenceTheorems, FiniteSetTheorems

-----------------------------------------------------------------------------
(* Induction over the naturals, for sets: the theorems of the library on   *)
(* well-founded orders that speak of relations can be cited as they are.   *)

NatLess == {p \in Nat \X Nat : p[1] < p[2]}

\* The order of the naturals, as a relation, is well-founded.
LEMMA NatLessIsWellFounded == IsWellFoundedOn(NatLess, Nat)
BY NatLessThanWellFounded DEF OpToRel, NatLess

\* A set of naturals that holds 0 and every successor holds them all.
LEMMA SetInduction ==
  ASSUME NEW S \in SUBSET Nat, 0 \in S, \A n \in S : n + 1 \in S
  PROVE  S = Nat
<1> DEFINE T == Nat \ S
<1> SUFFICES ASSUME T # {} PROVE FALSE
  OBVIOUS
<1>1. T \subseteq Nat
  OBVIOUS
<1>2. PICK x \in T : \A y \in T : <<y, x>> \notin NatLess
  <2> HIDE DEF T
  <2> QED BY <1>1, NatLessIsWellFounded, WFMin
<1>3. x \in Nat /\ x # 0
  OBVIOUS
<1>4. x - 1 \in Nat /\ <<x - 1, x>> \in NatLess
  BY <1>3 DEF NatLess
<1>5. x - 1 \in S
  BY <1>2, <1>4
<1> QED BY <1>3, <1>5

-----------------------------------------------------------------------------
(* The fold of a journal (foldOnto). *)

\* g is the recursive function that FoldLeft takes apart the places 1..n of s with.
Unfolds(g, c, s, n) ==
  g = [t \in SUBSET (1 .. n) |-> IF t = {} THEN c ELSE ApplyOcc(g[t \ {Max(t)}], s[Max(t)])]

\* FoldLeft is that function at the whole domain.
LEMMA FoldUnfolded ==
  ASSUME NEW c, NEW s, NEW n \in Nat, DOMAIN s = 1 .. n
  PROVE  FoldOnto(c, s) = (CHOOSE g : Unfolds(g, c, s, n))[1 .. n]
BY DEF FoldOnto, FoldLeft, MapThenFoldSet, Unfolds

\* The greatest of some places that hold the last one is the last one.
LEMMA MaxOfTop ==
  ASSUME NEW n \in Nat, NEW t \in SUBSET (1 .. n + 1), n + 1 \in t
  PROVE  Max(t) = n + 1
<1>1. \A y \in t : n + 1 >= y
  OBVIOUS
<1>2. ASSUME NEW x \in t, \A y \in t : x >= y PROVE x = n + 1
  BY <1>2
<1> QED BY <1>1, <1>2 DEF Max

\* The first n + 1 places are the last of them and the first n.
LEMMA TopOfInterval ==
  ASSUME NEW n \in Nat
  PROVE  /\ Max(1 .. n + 1) = n + 1
         /\ 1 .. n + 1 # {}
         /\ (1 .. n + 1) \ {n + 1} = 1 .. n
<1>1. 1 .. n + 1 \in SUBSET (1 .. n + 1) /\ n + 1 \in 1 .. n + 1
  OBVIOUS
<1>2. Max(1 .. n + 1) = n + 1
  BY <1>1, MaxOfTop
<1>3. (1 .. n + 1) \ {n + 1} = 1 .. n
  OBVIOUS
<1> QED BY <1>1, <1>2, <1>3

\* There is such a function for every prefix.
LEMMA UnfoldingExists ==
  ASSUME NEW c, NEW s
  PROVE  \A n \in Nat : \E g : Unfolds(g, c, s, n)
<1> DEFINE S == {n \in Nat : \E g : Unfolds(g, c, s, n)}
<1>1. 0 \in S
  <2>1. 1 .. 0 = {}
    OBVIOUS
  <2>2. Unfolds([t \in SUBSET (1 .. 0) |-> c], c, s, 0)
    BY <2>1 DEF Unfolds
  <2> QED BY <2>2
<1>2. ASSUME NEW n \in S PROVE n + 1 \in S
  <2>1. PICK g : Unfolds(g, c, s, n)
    BY <1>2
  <2> DEFINE h == [t \in SUBSET (1 .. n + 1) |->
                     IF n + 1 \in t THEN ApplyOcc(g[t \ {n + 1}], s[n + 1]) ELSE g[t]]
             k == [t \in SUBSET (1 .. n + 1) |->
                     IF t = {} THEN c ELSE ApplyOcc(h[t \ {Max(t)}], s[Max(t)])]
  <2>2. ASSUME NEW t \in SUBSET (1 .. n + 1) PROVE h[t] = k[t]
    <3>1. CASE n + 1 \in t
      <4>1. Max(t) = n + 1
        BY <3>1, MaxOfTop
      <4>2. t \ {n + 1} \in SUBSET (1 .. n + 1) /\ n + 1 \notin t \ {n + 1}
        OBVIOUS
      <4>3. h[t \ {n + 1}] = g[t \ {n + 1}]
        BY <4>2
      <4>4. h[t] = ApplyOcc(g[t \ {n + 1}], s[n + 1])
        BY <3>1
      <4> QED BY <3>1, <4>1, <4>3, <4>4
    <3>2. CASE n + 1 \notin t
      <4>1. t \in SUBSET (1 .. n)
        BY <3>2
      <4>2. g[t] = IF t = {} THEN c ELSE ApplyOcc(g[t \ {Max(t)}], s[Max(t)])
        BY <2>1, <4>1 DEF Unfolds
      <4>3. h[t] = g[t]
        BY <3>2
      <4>4. t \ {Max(t)} \in SUBSET (1 .. n + 1) /\ n + 1 \notin t \ {Max(t)}
        BY <3>2
      <4>5. h[t \ {Max(t)}] = g[t \ {Max(t)}]
        BY <4>4
      <4>6. k[t] = IF t = {} THEN c ELSE ApplyOcc(h[t \ {Max(t)}], s[Max(t)])
        OBVIOUS
      <4> HIDE DEF h, k
      <4> QED BY <4>2, <4>3, <4>5, <4>6
    <3> QED BY <3>1, <3>2
  <2>3. h = k
    <3>1. DOMAIN h = SUBSET (1 .. n + 1) /\ DOMAIN k = SUBSET (1 .. n + 1)
      OBVIOUS
    <3>2. h = [t \in DOMAIN h |-> h[t]] /\ k = [t \in DOMAIN k |-> k[t]]
      OBVIOUS
    <3> HIDE DEF h, k
    <3> QED BY <2>2, <3>1, <3>2
  <2>4. Unfolds(h, c, s, n + 1)
    BY <2>3 DEF Unfolds
  <2> HIDE DEF h
  <2> QED BY <2>4
<1>3. S = Nat
  <2>1. S \in SUBSET Nat
    OBVIOUS
  <2> HIDE DEF S
  <2> QED BY <1>1, <1>2, <2>1, SetInduction
<1> QED BY <1>3

\* What it is at the prefix one longer.
LEMMA UnfoldedOnce ==
  ASSUME NEW c, NEW s, NEW n \in Nat, NEW g, Unfolds(g, c, s, n),
         NEW k \in Nat, k + 1 <= n
  PROVE  g[1 .. k + 1] = ApplyOcc(g[1 .. k], s[k + 1])
<1>1. 1 .. k + 1 \in SUBSET (1 .. n)
  OBVIOUS
<1>2. g[1 .. k + 1] = IF 1 .. k + 1 = {} THEN c
        ELSE ApplyOcc(g[(1 .. k + 1) \ {Max(1 .. k + 1)}], s[Max(1 .. k + 1)])
  BY <1>1 DEF Unfolds
<1> QED BY <1>2, TopOfInterval

\* Two of them agree on the prefixes their sequences share.
LEMMA UnfoldingsAgree ==
  ASSUME NEW c, NEW s, NEW r, NEW n \in Nat, NEW m \in Nat, n <= m,
         \A i \in 1 .. n : s[i] = r[i],
         NEW g, NEW h, Unfolds(g, c, s, n), Unfolds(h, c, r, m)
  PROVE  g[1 .. n] = h[1 .. n]
<1>a. \A k \in Nat : k + 1 <= n => g[1 .. k + 1] = ApplyOcc(g[1 .. k], s[k + 1])
  BY UnfoldedOnce
<1>b. \A k \in Nat : k + 1 <= m => h[1 .. k + 1] = ApplyOcc(h[1 .. k], r[k + 1])
  BY UnfoldedOnce
<1> DEFINE S == {k \in Nat : k <= n => g[1 .. k] = h[1 .. k]}
<1>1. 0 \in S
  <2>1. 1 .. 0 = {} /\ {} \in SUBSET (1 .. n) /\ {} \in SUBSET (1 .. m)
    OBVIOUS
  <2> QED BY <2>1 DEF Unfolds
<1>2. ASSUME NEW k \in S PROVE k + 1 \in S
  <2> SUFFICES ASSUME k + 1 <= n PROVE g[1 .. k + 1] = h[1 .. k + 1]
    OBVIOUS
  <2>0. k \in Nat
    OBVIOUS
  <2>1. k + 1 <= n /\ k + 1 <= m
    BY <2>0
  <2>3. g[1 .. k + 1] = ApplyOcc(g[1 .. k], s[k + 1])
    BY <2>0, <2>1, <1>a
  <2>4. h[1 .. k + 1] = ApplyOcc(h[1 .. k], r[k + 1])
    BY <2>0, <2>1, <1>b
  <2>5. g[1 .. k] = h[1 .. k] /\ s[k + 1] = r[k + 1]
    OBVIOUS
  <2> QED BY <2>3, <2>4, <2>5
<1>3. S = Nat
  <2>1. S \in SUBSET Nat
    OBVIOUS
  <2> HIDE DEF S
  <2> QED BY <1>1, <1>2, <2>1, SetInduction
<1> QED BY <1>3

\* No fact leaves the context as it is.
LEMMA FoldOfNone ==
  ASSUME NEW c
  PROVE  FoldOnto(c, <<>>) = c
<1>1. DOMAIN <<>> = 1 .. 0 /\ 1 .. 0 = {}
  OBVIOUS
<1>2. PICK g : Unfolds(g, c, <<>>, 0)
  BY UnfoldingExists
<1>3. Unfolds(CHOOSE f : Unfolds(f, c, <<>>, 0), c, <<>>, 0)
  BY <1>2
<1>4. (CHOOSE f : Unfolds(f, c, <<>>, 0))[1 .. 0] = c
  BY <1>1, <1>3 DEF Unfolds
<1> QED BY <1>1, <1>4, FoldUnfolded

\* One more fact is applied to what the others fold to.
LEMMA FoldOfAppend ==
  ASSUME NEW c, NEW T, NEW s \in Seq(T), NEW f \in T
  PROVE  FoldOnto(c, Append(s, f)) = ApplyOcc(FoldOnto(c, s), f)
<1>1. PICK n \in Nat : n = Len(s)
  OBVIOUS
<1>2. /\ DOMAIN s = 1 .. n /\ DOMAIN Append(s, f) = 1 .. n + 1
      /\ \A i \in 1 .. n : s[i] = Append(s, f)[i]
      /\ Append(s, f)[n + 1] = f
  BY <1>1
<1> DEFINE g == CHOOSE u : Unfolds(u, c, s, n)
           h == CHOOSE u : Unfolds(u, c, Append(s, f), n + 1)
<1>3. Unfolds(g, c, s, n)
  BY UnfoldingExists
<1>4. Unfolds(h, c, Append(s, f), n + 1)
  <2>1. n + 1 \in Nat
    OBVIOUS
  <2> QED BY <2>1, UnfoldingExists
<1>5. FoldOnto(c, s) = g[1 .. n]
  BY <1>2, FoldUnfolded
<1>6. FoldOnto(c, Append(s, f)) = h[1 .. n + 1]
  <2>1. n + 1 \in Nat
    OBVIOUS
  <2> QED BY <1>2, <2>1, FoldUnfolded
<1> HIDE DEF g, h
<1> DEFINE r == Append(s, f)
<1>7. g[1 .. n] = h[1 .. n]
  <2>1. n + 1 \in Nat /\ n <= n + 1 /\ \A i \in 1 .. n : s[i] = r[i]
    BY <1>2
  <2>2. Unfolds(h, c, r, n + 1)
    BY <1>4
  <2> HIDE DEF r
  <2> QED BY <1>3, <2>1, <2>2, UnfoldingsAgree
<1>8. h[1 .. n + 1] = ApplyOcc(h[1 .. n], f)
  <2>1. n + 1 \in Nat /\ n + 1 <= n + 1 /\ r[n + 1] = f
    BY <1>2
  <2>2. Unfolds(h, c, r, n + 1)
    BY <1>4
  <2> HIDE DEF r
  <2>3. PICK m \in Nat : m = n + 1
    BY <2>1
  <2>4. Unfolds(h, c, r, m) /\ n + 1 <= m
    BY <2>1, <2>2, <2>3
  <2>5. h[1 .. n + 1] = ApplyOcc(h[1 .. n], r[n + 1])
    BY <2>4, UnfoldedOnce
  <2> QED BY <2>1, <2>5
<1> QED BY <1>5, <1>6, <1>7, <1>8

-----------------------------------------------------------------------------
(* The questions asked of a journal that grew by the fact f.               *)

\* Append keeps the facts at their places and puts the new one behind them.
LEMMA LogGrows ==
  ASSUME NEW T, log \in Seq(T), NEW f \in T, log' = Append(log, f)
  PROVE  /\ Len(log) \in Nat /\ DOMAIN log = 1 .. Len(log)
         /\ Len(log') = Len(log) + 1 /\ DOMAIN log' = 1 .. Len(log) + 1
         /\ log' \in Seq(T) /\ log' # <<>>
         /\ \A i \in DOMAIN log : log'[i] = log[i]
         /\ log'[Len(log) + 1] = f
BY AppendProperties

\* The facts of a kind grow by the new one, if it is of that kind.
LEMMA FactsGrow ==
  ASSUME NEW T, log \in Seq(T), NEW f \in T, log' = Append(log, f), NEW k
  PROVE  Facts(k)' = Facts(k) \cup {g \in {f} : g.kind = k}
<1>1. \A g : g \in Facts(k)' <=> g \in Facts(k) \/ (g = f /\ f.kind = k)
  <2> TAKE g
  <2>1. ASSUME g \in Facts(k)' PROVE g \in Facts(k) \/ (g = f /\ f.kind = k)
    <3>1. PICK i \in DOMAIN log' : log'[i] = g /\ log'[i].kind = k
      BY <2>1 DEF Facts
    <3>2. i \in DOMAIN log \/ i = Len(log) + 1
      BY <3>1, LogGrows
    <3> QED BY <3>1, <3>2, LogGrows DEF Facts
  <2>2. ASSUME g \in Facts(k) PROVE g \in Facts(k)'
    <3>1. PICK i \in DOMAIN log : log[i] = g /\ log[i].kind = k
      BY <2>2 DEF Facts
    <3>2. i \in DOMAIN log' /\ log'[i] = log[i]
      BY <3>1, LogGrows
    <3> QED BY <3>1, <3>2 DEF Facts
  <2>3. ASSUME g = f, f.kind = k PROVE g \in Facts(k)'
    <3>1. Len(log) + 1 \in DOMAIN log' /\ log'[Len(log) + 1] = f
      BY LogGrows
    <3> QED BY <2>3, <3>1 DEF Facts
  <2> QED BY <2>1, <2>2, <2>3
<1> QED BY <1>1

\* A fact about a command is the latest about it.
LEMMA LatestOfLogged ==
  ASSUME NEW T, log \in Seq(T), NEW f \in T, log' = Append(log, f),
         f.kind \in {"command_issued", "command_result"}
  PROVE  Latest(f.cmd)' = {f}
<1> DEFINE top == Len(log) + 1
<1>1. top \in About(f.cmd)'
  BY LogGrows DEF About
<1>2. \A k \in About(f.cmd)' : k \in Nat /\ k <= top
  BY LogGrows DEF About
<1>3. top \in Nat /\ log'[top] = f
  BY LogGrows
<1>4. \A j \in About(f.cmd)' : (\A k \in About(f.cmd)' : k <= j) <=> j = top
  <2> TAKE j \in About(f.cmd)'
  <2>1. j \in Nat /\ j <= top
    BY <1>2
  <2>2. ASSUME \A k \in About(f.cmd)' : k <= j PROVE j = top
    <3>1. top <= j
      BY <1>1, <2>2
    <3> HIDE DEF top
    <3> QED BY <1>3, <2>1, <3>1
  <2> HIDE DEF top
  <2> QED BY <1>2, <2>2
<1> HIDE DEF top
<1>5. Latest(f.cmd)' = {log'[j] : j \in {top}}
  BY <1>1, <1>4 DEF Latest
<1> QED BY <1>3, <1>5

\* Any other fact leaves the latest fact about a command as it was.
LEMMA LatestOfOthers ==
  ASSUME NEW T, log \in Seq(T), NEW f \in T, log' = Append(log, f), NEW c,
         ~(f.kind \in {"command_issued", "command_result"} /\ f.cmd = c)
  PROVE  Latest(c)' = Latest(c)
<1>1. About(c)' = About(c)
  <2>1. \A i \in DOMAIN log' : i \in DOMAIN log \/ i = Len(log) + 1
    BY LogGrows
  <2>2. \A i \in DOMAIN log : i \in DOMAIN log' /\ log'[i] = log[i]
    BY LogGrows
  <2>3. log'[Len(log) + 1] = f
    BY LogGrows
  <2> QED BY <2>1, <2>2, <2>3 DEF About
<1>2. \A j \in About(c) : log'[j] = log[j]
  BY LogGrows DEF About
<1> QED BY <1>1, <1>2 DEF Latest

\* A command is issued by the fact that says so (command_issued).
LEMMA IssuedGrows ==
  ASSUME NEW T, log \in Seq(T), NEW f \in T, log' = Append(log, f)
  PROVE  Issued' = IF f.kind = "command_issued" THEN Issued \cup {f.cmd} ELSE Issued
<1>1. Facts("command_issued")' = Facts("command_issued") \cup {g \in {f} : g.kind = "command_issued"}
  BY FactsGrow
<1> QED BY <1>1 DEF Issued

\* A command is answered by a result of the kind asked for (command_result).
LEMMA AnsweredGrows ==
  ASSUME NEW T, log \in Seq(T), NEW f \in T, log' = Append(log, f), NEW A
  PROVE  Answered(A)' = IF f.kind = "command_result" /\ f.answer \in A
                        THEN Answered(A) \cup {f.cmd} ELSE Answered(A)
<1>1. Facts("command_result")' = Facts("command_result") \cup {g \in {f} : g.kind = "command_result"}
  BY FactsGrow
<1> QED BY <1>1 DEF Answered

\* A fact that is neither an issue nor a result changes no answer.
LEMMA QuietFact ==
  ASSUME NEW T, log \in Seq(T), NEW f \in T, log' = Append(log, f),
         f.kind \notin {"command_issued", "command_result"}
  PROVE  /\ Issued' = Issued /\ PendingCommands' = PendingCommands
         /\ FailedCommands' = FailedCommands
         /\ \A A : Answered(A)' = Answered(A)
         /\ \A c : Latest(c)' = Latest(c)
<1>1. Issued' = Issued
  BY IssuedGrows
<1>2. ASSUME NEW A PROVE Answered(A)' = Answered(A)
  BY AnsweredGrows
<1>3. \A c : Latest(c)' = Latest(c)
  BY LatestOfOthers
<1>4. PendingCommands' = PendingCommands
  BY <1>1, <1>3 DEF PendingCommands
<1>5. FailedCommands' = FailedCommands
  BY <1>1, <1>3 DEF FailedCommands
<1> QED BY <1>1, <1>2, <1>3, <1>4, <1>5

\* A command put on record is pending, whatever became of it before.
LEMMA IssueFact ==
  ASSUME NEW T, log \in Seq(T), NEW c, [kind |-> "command_issued", cmd |-> c] \in T,
         log' = Append(log, [kind |-> "command_issued", cmd |-> c])
  PROVE  /\ Issued' = Issued \cup {c}
         /\ PendingCommands' = PendingCommands \cup {c}
         /\ FailedCommands' = FailedCommands \ {c}
         /\ \A A : Answered(A)' = Answered(A)
         /\ \A d : d # c => Latest(d)' = Latest(d)
         /\ Latest(c)' # {}
<1> DEFINE f == [kind |-> "command_issued", cmd |-> c]
<1>0. f \in T /\ log' = Append(log, f) /\ f.kind = "command_issued" /\ f.cmd = c
  OBVIOUS
<1> HIDE DEF f
<1>1. Issued' = Issued \cup {c}
  BY <1>0, IssuedGrows
<1>2. ASSUME NEW A PROVE Answered(A)' = Answered(A)
  BY <1>0, AnsweredGrows
<1>3. \A d : d # c => Latest(d)' = Latest(d)
  BY <1>0, LatestOfOthers
<1>4. Latest(c)' = {f}
  BY <1>0, LatestOfLogged
<1>5. PendingCommands' = PendingCommands \cup {c}
  BY <1>0, <1>1, <1>3, <1>4 DEF PendingCommands
<1>6. FailedCommands' = FailedCommands \ {c}
  BY <1>0, <1>1, <1>3, <1>4 DEF FailedCommands
<1> QED BY <1>1, <1>2, <1>3, <1>4, <1>5, <1>6

\* The result of a command on record resolves it; a failure makes it a dead letter.
LEMMA ResultFact ==
  ASSUME NEW T, log \in Seq(T), NEW c \in Issued, NEW a,
         [kind |-> "command_result", cmd |-> c, answer |-> a] \in T,
         log' = Append(log, [kind |-> "command_result", cmd |-> c, answer |-> a])
  PROVE  /\ Issued' = Issued
         /\ PendingCommands' = PendingCommands \ {c}
         /\ FailedCommands' = IF a = "failed" THEN FailedCommands \cup {c} ELSE FailedCommands \ {c}
         /\ \A A : Answered(A)' = IF a \in A THEN Answered(A) \cup {c} ELSE Answered(A)
         /\ \A d : d # c => Latest(d)' = Latest(d)
         /\ Latest(c)' # {}
<1> DEFINE f == [kind |-> "command_result", cmd |-> c, answer |-> a]
<1>0. /\ f \in T /\ log' = Append(log, f)
      /\ f.kind = "command_result" /\ f.cmd = c /\ f.answer = a
  OBVIOUS
<1> HIDE DEF f
<1>1. Issued' = Issued
  BY <1>0, IssuedGrows
<1>2. ASSUME NEW A PROVE Answered(A)' = IF a \in A THEN Answered(A) \cup {c} ELSE Answered(A)
  BY <1>0, AnsweredGrows
<1>3. \A d : d # c => Latest(d)' = Latest(d)
  BY <1>0, LatestOfOthers
<1>4. Latest(c)' = {f}
  BY <1>0, LatestOfLogged
<1>5. PendingCommands' = PendingCommands \ {c}
  BY <1>0, <1>1, <1>3, <1>4 DEF PendingCommands
<1>6. FailedCommands' = IF a = "failed" THEN FailedCommands \cup {c} ELSE FailedCommands \ {c}
  BY <1>0, <1>1, <1>3, <1>4 DEF FailedCommands
<1> QED BY <1>1, <1>2, <1>3, <1>4, <1>5, <1>6

-----------------------------------------------------------------------------
(* The facts a snapshot does not hold yet.                                 *)

\* A fact that is appended is one that a snapshot does not hold yet.
LEMMA AfterGrows ==
  ASSUME NEW T, NEW s \in Seq(T), NEW f \in T, NEW n \in 0 .. Len(s)
  PROVE  /\ occurrencesAfter(s, n) \in Seq(T)
         /\ occurrencesAfter(Append(s, f), n) = Append(occurrencesAfter(s, n), f)
<1> DEFINE r == Append(s, f)
           p == SubSeq(s, n + 1, Len(s))
           q == SubSeq(r, n + 1, Len(r))
<1>1. /\ Len(s) \in Nat /\ r \in Seq(T) /\ Len(r) = Len(s) + 1
      /\ \A i \in 1 .. Len(s) : r[i] = s[i]
      /\ r[Len(s) + 1] = f
  BY AppendProperties
<1>2. /\ p \in Seq(T) /\ Len(p) = Len(s) - n
      /\ \A i \in 1 .. Len(s) - n : p[i] = s[n + i]
  <2>1. \A i \in n + 1 .. Len(s) : s[i] \in T
    BY <1>1
  <2> QED BY <2>1, <1>1, SubSeqProperties
<1>3. /\ q \in Seq(T) /\ Len(q) = Len(s) + 1 - n
      /\ \A i \in 1 .. Len(s) + 1 - n : q[i] = r[n + i]
  <2>1. \A i \in n + 1 .. Len(r) : r[i] \in T
    BY <1>1
  <2> HIDE DEF r
  <2> QED BY <2>1, <1>1, SubSeqProperties
<1> HIDE DEF p, q, r
<1> DEFINE a == Append(p, f)
<1>4. /\ a \in Seq(T) /\ Len(a) = Len(s) + 1 - n
      /\ \A i \in 1 .. Len(s) - n : a[i] = p[i]
      /\ a[Len(s) + 1 - n] = f
  BY <1>1, <1>2, AppendProperties
<1> HIDE DEF a
<1>5. ASSUME NEW i \in 1 .. Len(q) PROVE q[i] = a[i]
  <2>1. CASE i \in 1 .. Len(s) - n
    <3>1. n + i \in 1 .. Len(s)
      BY <1>1, <2>1
    <3> QED BY <1>1, <1>2, <1>3, <1>4, <2>1, <3>1
  <2>2. CASE i = Len(s) + 1 - n
    <3>1. n + i = Len(s) + 1 /\ i \in 1 .. Len(s) + 1 - n
      BY <1>1, <2>2
    <3>2. q[i] = r[n + i]
      BY <1>3, <3>1
    <3>3. r[n + i] = f
      BY <1>1, <3>1
    <3>4. a[i] = f
      BY <1>4, <2>2
    <3> QED BY <3>2, <3>3, <3>4
  <2> QED BY <1>1, <1>3, <2>1, <2>2
<1>6. q = a
  BY <1>3, <1>4, <1>5, SeqEqual
<1> QED BY <1>2, <1>6 DEF occurrencesAfter, a, p, q, r

\* A snapshot of the whole journal lacks no fact.
LEMMA AfterAll ==
  ASSUME NEW T, NEW s \in Seq(T)
  PROVE  occurrencesAfter(s, Len(s)) = <<>>
BY SubSeqEmpty, LenProperties DEF occurrencesAfter
=============================================================================
