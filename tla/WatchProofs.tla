------------------------------ MODULE WatchProofs ------------------------------
(***************************************************************************)
(* File watching, for every set of names and inodes, every size of the     *)
(* queue, of the caller's buffer and of the kernel's, and either arm: the  *)
(* seven invariants of Watch.                                              *)
(*                                                                         *)
(* Each step of this code is a fold: over the records it emits, the names  *)
(* of a directory, the notifications of a completion, the watches that are *)
(* gone. What a fold keeps is what its step keeps (EmitAllKeeps,           *)
(* TranslatedKeeps, EndsKeeps), so most of what is said of a call is said  *)
(* of emit_masked, which either queues the record, or announces that it is *)
(* lost, or drops it, or is not asked for it (EmitMaskedCases).            *)
(*                                                                         *)
(* What is inductive comes in five parts, of which the later ones rest on  *)
(* the first. TypeInv adds to TypeOK what each phase of the caller's       *)
(* thread leaves empty, and that a run of losses was announced or could    *)
(* not be. PlaceInv says where the records of a watch are: none of one     *)
(* there never was, none after its end. LookInv speaks of a look at the    *)
(* directory that is under way, while others change it: a name already     *)
(* looked at is as it was found, or a note is there to say so. ListingInv  *)
(* carries a listing along: what is queued for a watch makes of its        *)
(* caller's listing what the arm last saw, and what the kernel holds makes *)
(* of that what is there. PairInv says where the halves of a rename are:   *)
(* in the queue next to each other, and in the kernel's hands next to each *)
(* other too, or the first is the last record queued and its cookie still  *)
(* open.                                                                   *)
(*                                                                         *)
(* What is left to TLC is GoneIsTold, which is about fairness.             *)
(***************************************************************************)
EXTENDS Watch, SharedLemmas

-----------------------------------------------------------------------------
(***************************************************************************)
(* Folds.  No installed prover takes an operator for the parameter of a    *)
(* lemma, so the facts about folds are proved of Folded, whose step is a   *)
(* function, and each fold of Watch is shown to be one of its instances.   *)
(***************************************************************************)
Folded(G, base, seq) == Along(LAMBDA t, r : G[<<t, r>>], base, seq)

LEMMA Climb ==
  ASSUME NEW n \in Nat, NEW T, 0 \in T, \A i \in 1..n : i - 1 \in T => i \in T
  PROVE  n \in T
<1> DEFINE Out == {i \in 0..n : i \notin T}
<1>1. SUFFICES Out = {}
  OBVIOUS
<1>2. SUFFICES ASSUME Out # {} PROVE FALSE
  OBVIOUS
<1>3. PICK m \in Out : \A k \in Out : m <= k
  <2>1. Out \subseteq Nat
    OBVIOUS
  <2>2. QED
    BY <1>2, <2>1, LeastIn
<1>4. m # 0 /\ m \in 1..n /\ m - 1 \in 0..n /\ ~(m <= m - 1)
  BY <1>3
<1>5. m - 1 \in T
  BY <1>3, <1>4
<1>6. QED
  BY <1>3, <1>4, <1>5

LEMMA SeqInduction ==
  ASSUME NEW D, NEW T, <<>> \in T,
         \A s \in Seq(D), r \in D : s \in T => Append(s, r) \in T
  PROVE  \A s \in Seq(D) : s \in T
<1> SUFFICES ASSUME NEW s \in Seq(D) PROVE s \in T
  OBVIOUS
<1> DEFINE n == Len(s)
           Pre(i) == SubSeq(s, 1, i)
<1>1. n \in Nat /\ Pre(n) = s /\ Pre(0) = <<>>
  OBVIOUS
<1>2. ASSUME NEW i \in 1..n
      PROVE  Pre(i - 1) \in Seq(D) /\ s[i] \in D /\ Pre(i) = Append(Pre(i - 1), s[i])
  OBVIOUS
<1> HIDE DEF n, Pre
<1> DEFINE N == {i \in Int : Pre(i) \in T}
<1>3. 0 \in N
  BY <1>1
<1>4. ASSUME NEW i \in 1..n, i - 1 \in N PROVE i \in N
  <2>1. Pre(i - 1) \in T /\ i \in Int
    BY <1>1, <1>4
  <2>2. Append(Pre(i - 1), s[i]) \in T
    BY <1>2, <2>1
  <2>3. Pre(i) \in T
    BY <1>2, <2>2
  <2>4. QED
    BY <2>1, <2>3
<1> HIDE DEF N
<1>5. n \in N
  BY <1>1, <1>3, <1>4, Climb
<1>6. QED
  BY <1>1, <1>5 DEF N

\* G takes S to itself along elements of D; f goes along s from base.
Steps(G, S, D) == \A t \in S, r \in D : G[<<t, r>>] \in S

Goes(f, G, base, s, n) == f = [i \in 0..n |-> IF i = 0 THEN base ELSE G[<<f[i - 1], s[i]>>]]

LEMMA Recursion ==
  ASSUME NEW n \in Nat, NEW base, NEW G, NEW s
  PROVE  \E f : Goes(f, G, base, s, n)
<1> DEFINE T == {m \in Int : \E f : Goes(f, G, base, s, m)}
<1>1. 0 \in T
  <2>1. Goes([i \in 0..0 |-> base], G, base, s, 0)
    BY DEF Goes
  <2>2. QED
    BY <2>1
<1>2. ASSUME NEW m \in 1..n, m - 1 \in T PROVE m \in T
  <2>1. PICK f : Goes(f, G, base, s, m - 1)
    BY <1>2
  <2> DEFINE g == [i \in 0..m |-> IF i = m THEN G[<<f[m - 1], s[m]>>] ELSE f[i]]
  <2>2. \A i \in 0..m : g[i] = IF i = 0 THEN base ELSE G[<<g[i - 1], s[i]>>]
    <3>1. ASSUME NEW i \in 0..m PROVE g[i] = IF i = 0 THEN base ELSE G[<<g[i - 1], s[i]>>]
      <4>1. CASE i = m
        BY <4>1
      <4>2. CASE i # m
        <5>1. i \in 0..(m - 1) /\ (i # 0 => i - 1 \in 0..m /\ i - 1 # m)
          BY <4>2
        <5>2. f[i] = IF i = 0 THEN base ELSE G[<<f[i - 1], s[i]>>]
          BY <2>1, <5>1 DEF Goes
        <5>3. QED
          BY <4>2, <5>1, <5>2
      <4>3. QED
        BY <4>1, <4>2
    <3>2. QED
      BY <3>1
  <2>3. g = [i \in 0..m |-> g[i]]
    OBVIOUS
  <2>4. Goes(g, G, base, s, m)
    <3> HIDE DEF g
    <3>1. [i \in 0..m |-> g[i]] = [i \in 0..m |-> IF i = 0 THEN base ELSE G[<<g[i - 1], s[i]>>]]
      BY <2>2
    <3>2. QED
      BY <2>3, <3>1 DEF Goes
  <2>5. m \in Int
    OBVIOUS
  <2> HIDE DEF g
  <2>6. QED
    BY <2>4, <2>5
<1> HIDE DEF T
<1>3. n \in T
  BY <1>1, <1>2, Climb
<1>4. QED
  BY <1>3 DEF T

LEMMA FoldedBy ==
  ASSUME NEW S, NEW D, NEW G, Steps(G, S, D), NEW base \in S, NEW s \in Seq(D)
  PROVE  \E f : /\ \A i \in 0..Len(s) : f[i] \in S
                /\ f[0] = base /\ \A i \in 1..Len(s) : f[i] = G[<<f[i - 1], s[i]>>]
                /\ Goes(f, G, base, s, Len(s))
                /\ Folded(G, base, s) = f[Len(s)]
<1> DEFINE f == CHOOSE f : Goes(f, G, base, s, Len(s))
<1>1. Len(s) \in Nat
  OBVIOUS
<1>2. Goes(f, G, base, s, Len(s))
  <2>1. \E g : Goes(g, G, base, s, Len(s))
    BY <1>1, Recursion
  <2>2. QED
    BY <2>1, Zenon
<1>3. Folded(G, base, s) = f[Len(s)]
  BY DEF Folded, Along, Goes
<1> HIDE DEF f
<1>4. f[0] = base /\ \A i \in 1..Len(s) : f[i] = G[<<f[i - 1], s[i]>>]
  BY <1>1, <1>2 DEF Goes
<1>5. \A i \in 0..Len(s) : f[i] \in S
  <2> SUFFICES ASSUME NEW n \in 0..Len(s) PROVE f[n] \in S
    OBVIOUS
  <2> DEFINE T == {i \in Int : f[i] \in S}
  <2>1. 0 \in T
    BY <1>4
  <2>2. ASSUME NEW i \in 1..n, i - 1 \in T PROVE i \in T
    <3>1. i \in 1..Len(s) /\ i \in Int /\ s[i] \in D /\ f[i - 1] \in S
      BY <1>1, <2>2
    <3>2. f[i] = G[<<f[i - 1], s[i]>>]
      BY <1>4, <3>1
    <3>3. f[i] \in S
      BY <3>1, <3>2 DEF Steps
    <3>4. QED
      BY <3>1, <3>3
  <2> HIDE DEF T
  <2>3. n \in T
    BY <2>1, <2>2, Climb
  <2>4. QED
    BY <2>3 DEF T
<1>6. QED
  BY <1>2, <1>3, <1>4, <1>5

LEMMA FoldedEmpty ==
  ASSUME NEW S, NEW D, NEW G, Steps(G, S, D), NEW base \in S
  PROVE  Folded(G, base, <<>>) = base
<1>1. ASSUME NEW e \in Seq(D), e = <<>> PROVE Folded(G, base, e) = base
  <2>1. PICK f : /\ f[0] = base /\ \A i \in 1..Len(e) : f[i] = G[<<f[i - 1], e[i]>>]
                 /\ Folded(G, base, e) = f[Len(e)]
    <3>1. e \in Seq(D)
      OBVIOUS
    <3>2. QED
      BY ONLY <3>1, Steps(G, S, D), base \in S, FoldedBy
  <2>2. Len(e) = 0
    BY <1>1
  <2>3. QED
    BY <2>1, <2>2
<1>2. <<>> \in Seq(D)
  OBVIOUS
<1>3. QED
  BY <1>1, <1>2

LEMMA FoldedIn ==
  ASSUME NEW S, NEW D, NEW G, Steps(G, S, D), NEW base \in S, NEW s \in Seq(D)
  PROVE  Folded(G, base, s) \in S
<1>1. Len(s) \in 0..Len(s)
  OBVIOUS
<1>2. QED
  BY <1>1, FoldedBy

LEMMA FoldedAppend ==
  ASSUME NEW S, NEW D, NEW G, Steps(G, S, D), NEW base \in S, NEW s \in Seq(D), NEW r \in D
  PROVE  Folded(G, base, Append(s, r)) = G[<<Folded(G, base, s), r>>]
<1> DEFINE n == Len(s)
           t == Append(s, r)
<1>1. n \in Nat /\ t \in Seq(D) /\ Len(t) = n + 1 /\ t[n + 1] = r /\ \A i \in 1..n : t[i] = s[i]
  OBVIOUS
<1>2. PICK f : /\ f[0] = base /\ \A i \in 1..n : f[i] = G[<<f[i - 1], s[i]>>]
               /\ Folded(G, base, s) = f[n]
  BY FoldedBy
<1> HIDE DEF n, t
<1>3. PICK g : /\ g[0] = base /\ \A i \in 1..Len(t) : g[i] = G[<<g[i - 1], t[i]>>]
               /\ Folded(G, base, t) = g[Len(t)]
  BY <1>1, FoldedBy, SMTT(30)
<1> DEFINE T == {i \in Int : f[i] = g[i]}
<1>4. 0 \in T
  BY <1>2, <1>3
<1>5. ASSUME NEW i \in 1..n, i - 1 \in T PROVE i \in T
  <2>1. i \in 1..Len(t) /\ i \in Int /\ f[i - 1] = g[i - 1] /\ t[i] = s[i]
    BY <1>1, <1>5
  <2>2. f[i] = G[<<f[i - 1], s[i]>>]
    BY <1>2
  <2>3. g[i] = G[<<g[i - 1], t[i]>>]
    BY <1>3, <2>1
  <2>4. f[i] = g[i]
    BY <2>1, <2>2, <2>3
  <2>5. QED
    BY <2>1, <2>4
<1>6. f[n] = g[n]
  <2> HIDE DEF T
  <2>1. n \in T
    BY <1>1, <1>4, <1>5, Climb
  <2>2. QED
    BY <2>1 DEF T
<1>7. ASSUME NEW m, m = n + 1 PROVE g[m] = G[<<g[n], t[m]>>]
  <2>1. m \in 1..Len(t) /\ m - 1 = n
    BY <1>1, <1>7
  <2>2. g[m] = G[<<g[m - 1], t[m]>>]
    BY <1>3, <2>1
  <2>3. QED
    BY <2>1, <2>2
<1>8. QED
  BY <1>1, <1>2, <1>3, <1>6, <1>7 DEF t

LEMMA FoldedConcat ==
  ASSUME NEW S, NEW D, NEW G, Steps(G, S, D), NEW base \in S, NEW s \in Seq(D), NEW t \in Seq(D)
  PROVE  Folded(G, base, s \o t) = Folded(G, Folded(G, base, s), t)
<1> DEFINE T == {u \in Seq(D) : Folded(G, base, s \o u) = Folded(G, Folded(G, base, s), u)}
<1>1. Folded(G, base, s) \in S
  BY FoldedIn
<1>2. <<>> \in T
  <2>1. s \o <<>> = s /\ <<>> \in Seq(D)
    OBVIOUS
  <2>2. QED
    BY <1>1, <2>1, FoldedEmpty
<1>3. ASSUME NEW u \in Seq(D), NEW r \in D, u \in T PROVE Append(u, r) \in T
  <2>1. s \o Append(u, r) = Append(s \o u, r) /\ s \o u \in Seq(D) /\ Append(u, r) \in Seq(D)
    OBVIOUS
  <2>2. Folded(G, base, Append(s \o u, r)) = G[<<Folded(G, base, s \o u), r>>]
    <3> DEFINE w == s \o u
    <3>1. w \in Seq(D)
      BY <2>1
    <3> HIDE DEF w
    <3>2. Folded(G, base, Append(w, r)) = G[<<Folded(G, base, w), r>>]
      BY <3>1, FoldedAppend
    <3>3. QED
      BY <3>2 DEF w
  <2>3. Folded(G, Folded(G, base, s), Append(u, r)) = G[<<Folded(G, Folded(G, base, s), u), r>>]
    BY <1>1, FoldedAppend
  <2>4. Folded(G, base, s \o u) = Folded(G, Folded(G, base, s), u)
    BY <1>3
  <2>5. QED
    BY <2>1, <2>2, <2>3, <2>4, Zenon
<1>4. QED
  <2> HIDE DEF T
  <2>1. t \in T
    BY <1>2, <1>3, SeqInduction
  <2>2. QED
    BY <2>1 DEF T

\* What goes like Folded is Folded.
LEMMA FoldedIs ==
  ASSUME NEW S, NEW D, NEW G, Steps(G, S, D), NEW base \in S, NEW s \in Seq(D), NEW F,
         F[0] = base, \A i \in 1..Len(s) : F[i - 1] \in S => F[i] = G[<<F[i - 1], s[i]>>]
  PROVE  Folded(G, base, s) = F[Len(s)]
<1> DEFINE n == Len(s)
<1>1. n \in Nat
  OBVIOUS
<1>2. PICK f : /\ \A i \in 0..Len(s) : f[i] \in S
               /\ f[0] = base /\ \A i \in 1..Len(s) : f[i] = G[<<f[i - 1], s[i]>>]
               /\ Goes(f, G, base, s, Len(s))
               /\ Folded(G, base, s) = f[Len(s)]
  BY FoldedBy
<1> DEFINE T == {i \in Int : f[i] = F[i]}
<1>3. 0 \in T
  BY <1>2
<1> HIDE DEF n
<1>4. ASSUME NEW i \in 1..n, i - 1 \in T PROVE i \in T
  <2>1. f[i - 1] = F[i - 1] /\ i - 1 \in 0..n /\ i \in Int
    BY <1>1, <1>4
  <2>2. F[i - 1] \in S
    BY <1>2, <2>1 DEF n
  <2>3. F[i] = G[<<F[i - 1], s[i]>>] /\ f[i] = G[<<f[i - 1], s[i]>>]
    BY <1>2, <1>4, <2>2 DEF n
  <2>4. QED
    BY <2>1, <2>3
<1> HIDE DEF T
<1>5. n \in T
  BY <1>1, <1>3, <1>4, Climb
<1>6. QED
  BY <1>2, <1>5 DEF T, n

-----------------------------------------------------------------------------
(***************************************************************************)
(* What the state is made of.                                              *)
(***************************************************************************)
AllKinds == Kinds \cup {"IGNORED", "Q_OVERFLOW"}
Cookie == 0..(CookieWrap - 1)
Said == [kind : AllKinds, name : Name \cup {None}, cookie : Cookie]
Entry == {e \in [wd : Wd \cup {-1}, kind : AllKinds, name : Name \cup {None}, cookie : Cookie] :
            e.wd = -1 => e.kind = "Q_OVERFLOW"}

LEMMA SizeAtLeastOne ==
  ASSUME NEW r, r.name \in Name \cup {None}
  PROVE  Size(r) \in Nat /\ Size(r) >= 1
<1>1. CASE r.name = None
  BY <1>1 DEF Size
<1>2. CASE r.name # None
  <2>1. NameLen[r.name] \in Nat \ {0}
    BY <1>2, WatchAssumption
  <2>2. QED
    BY <1>2, <2>1 DEF Size
<1>3. QED
  BY <1>1, <1>2

UsedStep == [p \in Nat \X Entry |-> p[1] + Size(p[2])]

LEMMA UsedSteps == Steps(UsedStep, Nat, Entry) /\ \A n \in Nat, r \in Entry : UsedStep[<<n, r>>] = n + Size(r)
<1> SUFFICES ASSUME NEW n \in Nat, NEW r \in Entry
             PROVE  UsedStep[<<n, r>>] = n + Size(r) /\ UsedStep[<<n, r>>] \in Nat
  BY DEF Steps
<1>1. Size(r) \in Nat
  BY SizeAtLeastOne DEF Entry
<1>2. UsedStep[<<n, r>>] = n + Size(r)
  BY DEF UsedStep
<1>3. QED
  BY <1>1, <1>2

LEMMA UsedFolds ==
  ASSUME NEW s \in Seq(Entry)
  PROVE  Used(s) = Folded(UsedStep, 0, s)
<1> DEFINE F == CHOOSE g : g = [i \in 0..Len(s) |-> IF i = 0 THEN 0 ELSE g[i - 1] + Size(s[i])]
<1>1. Len(s) \in Nat /\ \A i \in 1..Len(s) : s[i] \in Entry
  OBVIOUS
<1>2. PICK f : /\ \A i \in 0..Len(s) : f[i] \in Nat
               /\ Goes(f, UsedStep, 0, s, Len(s))
  BY UsedSteps, FoldedBy
<1>3. f = [i \in 0..Len(s) |-> IF i = 0 THEN 0 ELSE f[i - 1] + Size(s[i])]
  BY <1>1, <1>2, UsedSteps, SMTT(30) DEF Goes
<1>4. F = [i \in 0..Len(s) |-> IF i = 0 THEN 0 ELSE F[i - 1] + Size(s[i])]
  <2>1. \E g : g = [i \in 0..Len(s) |-> IF i = 0 THEN 0 ELSE g[i - 1] + Size(s[i])]
    BY <1>3, Zenon
  <2>2. QED
    BY <2>1, Zenon
<1>5. Used(s) = F[Len(s)]
  BY DEF Used, Along
<1> HIDE DEF F
<1>6. F[0] = 0 /\ \A i \in 1..Len(s) : F[i - 1] \in Nat => F[i] = UsedStep[<<F[i - 1], s[i]>>]
  BY <1>1, <1>4, UsedSteps
<1>7. 0 \in Nat /\ Steps(UsedStep, Nat, Entry)
  BY UsedSteps
<1>8. ASSUME NEW b \in Nat, b = 0 PROVE Folded(UsedStep, b, s) = F[Len(s)]
  <2>1. F[0] = b /\ \A i \in 1..Len(s) : F[i - 1] \in Nat => F[i] = UsedStep[<<F[i - 1], s[i]>>]
    BY <1>6, <1>8
  <2>2. QED
    BY ONLY s \in Seq(Entry), b \in Nat, <1>7, <2>1, FoldedIs
<1>9. QED
  BY <1>5, <1>8

LEMMA UsedShape ==
  /\ Used(<<>>) = 0
  /\ \A s \in Seq(Entry) : Used(s) \in Nat
  /\ \A s \in Seq(Entry), r \in Entry : Used(Append(s, r)) = Used(s) + Size(r)
<1>1. ASSUME NEW b \in Nat, b = 0, NEW s \in Seq(Entry)
      PROVE  /\ Folded(UsedStep, b, <<>>) = b /\ Folded(UsedStep, b, s) \in Nat
             /\ \A r \in Entry : Folded(UsedStep, b, Append(s, r)) = UsedStep[<<Folded(UsedStep, b, s), r>>]
  <2>1. Steps(UsedStep, Nat, Entry)
    BY UsedSteps
  <2>2. Folded(UsedStep, b, <<>>) = b /\ Folded(UsedStep, b, s) \in Nat
    BY <2>1, FoldedEmpty, FoldedIn
  <2>3. ASSUME NEW r \in Entry
        PROVE  Folded(UsedStep, b, Append(s, r)) = UsedStep[<<Folded(UsedStep, b, s), r>>]
    BY ONLY <2>1, b \in Nat, s \in Seq(Entry), r \in Entry, FoldedAppend
  <2>4. QED
    BY <2>2, <2>3
<1>2. ASSUME NEW s \in Seq(Entry)
      PROVE  /\ Folded(UsedStep, 0, <<>>) = 0 /\ Folded(UsedStep, 0, s) \in Nat
             /\ \A r \in Entry : Folded(UsedStep, 0, Append(s, r)) = UsedStep[<<Folded(UsedStep, 0, s), r>>]
  BY <1>1
<1>3. <<>> \in Seq(Entry)
  OBVIOUS
<1>4. ASSUME NEW s \in Seq(Entry)
      PROVE  Used(s) \in Nat /\ \A r \in Entry : Used(Append(s, r)) = Used(s) + Size(r)
  <2>1. ASSUME NEW r \in Entry PROVE Used(Append(s, r)) = Used(s) + Size(r)
    <3>1. Append(s, r) \in Seq(Entry)
      OBVIOUS
    <3>2. QED
      BY <1>2, <3>1, UsedFolds, UsedSteps
  <2>2. QED
    BY <1>2, <2>1, UsedFolds
<1>5. QED
  BY <1>2, <1>3, <1>4, UsedFolds

LEMMA UsedConcat ==
  ASSUME NEW s \in Seq(Entry), NEW t \in Seq(Entry)
  PROVE  Used(s \o t) = Used(s) + Used(t)
<1> DEFINE T == {u \in Seq(Entry) : Used(s \o u) = Used(s) + Used(u)}
<1>1. <<>> \in T
  <2>1. s \o <<>> = s /\ <<>> \in Seq(Entry)
    OBVIOUS
  <2>2. QED
    BY <2>1, UsedShape
<1>2. ASSUME NEW u \in Seq(Entry), NEW r \in Entry, u \in T PROVE Append(u, r) \in T
  <2>1. s \o Append(u, r) = Append(s \o u, r) /\ s \o u \in Seq(Entry) /\ Append(u, r) \in Seq(Entry)
    OBVIOUS
  <2>2. Used(Append(s \o u, r)) = Used(s \o u) + Size(r) /\ Used(Append(u, r)) = Used(u) + Size(r)
    BY <2>1, UsedShape
  <2>3. Size(r) \in Nat /\ Used(s) \in Nat /\ Used(u) \in Nat
    BY UsedShape, SizeAtLeastOne DEF Entry
  <2>4. Used(s \o u) = Used(s) + Used(u)
    BY <1>2
  <2>5. Used(s \o Append(u, r)) = Used(s) + Used(Append(u, r))
    <3>1. Used(s \o Append(u, r)) = Used(s \o u) + Size(r)
      BY <2>1, <2>2, Zenon
    <3>2. (Used(s) + Used(u)) + Size(r) = Used(s) + (Used(u) + Size(r))
      BY <2>3
    <3>3. QED
      BY <2>2, <2>4, <3>1, <3>2, Zenon
  <2>6. QED
    BY <2>1, <2>5
<1> HIDE DEF T
<1>3. t \in T
  BY <1>1, <1>2, SeqInduction
<1>4. QED
  BY <1>3 DEF T

-----------------------------------------------------------------------------
(***************************************************************************)
(* emit, and the records of one watch one after the other.                 *)
(***************************************************************************)
Gaps == {"none", "told", "full", "untold"}
QSet == [queue : Seq(Entry), qlen : Nat, overflowed : BOOLEAN, gap : Gaps, lost : SUBSET Wd]

\* What becomes of a record: it is queued; the overflow record is, instead; nothing is.
Through(s, t, wd, r) ==
  /\ t.queue = Append(s.queue, Queued(wd, r)) /\ t.qlen = s.qlen + Size(r) /\ t.qlen <= QueueMax
  /\ t.overflowed = FALSE /\ t.gap = "none" /\ t.lost = s.lost
Warned(s, t, wd) ==
  /\ t.queue = Append(s.queue, Overflow) /\ t.qlen = s.qlen + Size(Overflow) /\ t.qlen <= QueueMax
  /\ t.overflowed = TRUE /\ t.gap = "told" /\ t.lost = s.lost \cup {wd}
Dropped(s, t, wd) ==
  /\ t.queue = s.queue /\ t.qlen = s.qlen /\ t.overflowed = s.overflowed
  /\ t.gap = IF s.gap # "none" THEN s.gap ELSE IF s.overflowed THEN "untold" ELSE "full"
  /\ t.lost = s.lost \cup {wd}
Hidden(s, t, wd, r) ==
  /\ t.queue = s.queue /\ t.qlen = s.qlen /\ t.overflowed = s.overflowed /\ t.gap = s.gap
  /\ t.lost = IF r.kind \in NameKinds THEN s.lost \cup {wd} ELSE s.lost
  /\ r.kind # "IGNORED"

LEMMA QueuedEntry ==
  ASSUME NEW wd \in Wd, NEW r \in Said
  PROVE  Queued(wd, r) \in Entry /\ Overflow \in Entry /\ Size(r) \in Nat /\ Size(r) >= 1
         /\ Size(Queued(wd, r)) = Size(r) /\ Size(Overflow) \in Nat
<1>1. 0 \in Cookie
  BY WatchAssumption DEF Cookie
<1>2. Queued(wd, r) \in Entry /\ Overflow \in Entry
  <2>1. wd # -1
    BY DEF Wd
  <2>2. QED
    BY <1>1, <2>1 DEF Queued, Overflow, Self, Rec, Entry, Said, AllKinds
<1>3. r.name \in Name \cup {None} /\ Overflow.name \in Name \cup {None}
  BY <1>2 DEF Said, Entry
<1>4. Size(Queued(wd, r)) = Size(r)
  BY DEF Size, Queued
<1>5. QED
  BY <1>2, <1>3, <1>4, SizeAtLeastOne

LEMMA EmitCases ==
  ASSUME NEW s \in QSet, NEW wd \in Wd, NEW r \in Said
  PROVE  /\ Emit(s, wd, r) \in QSet
         /\ \/ Through(s, Emit(s, wd, r), wd, r) \/ Warned(s, Emit(s, wd, r), wd)
            \/ Dropped(s, Emit(s, wd, r), wd)
<1>1. Queued(wd, r) \in Entry /\ Overflow \in Entry /\ Size(r) \in Nat
      /\ Size(Queued(wd, r)) = Size(r) /\ Size(Overflow) \in Nat
  BY QueuedEntry
<1>2. s.queue \in Seq(Entry) /\ s.qlen \in Nat /\ QueueMax \in Nat
  BY WatchAssumption DEF QSet
<1>3. Append(s.queue, Queued(wd, r)) \in Seq(Entry) /\ Append(s.queue, Overflow) \in Seq(Entry)
  BY <1>1, <1>2
<1> HIDE DEF Overflow
<1>4. /\ s = [queue |-> s.queue, qlen |-> s.qlen, overflowed |-> s.overflowed, gap |-> s.gap, lost |-> s.lost]
      /\ s.lost \subseteq Wd /\ s.gap \in Gaps /\ s.overflowed \in BOOLEAN
  BY DEF QSet
<1>5. CASE s.qlen + Size(r) <= QueueMax
  <2>1. Emit(s, wd, r) = [queue |-> Append(s.queue, Queued(wd, r)), qlen |-> s.qlen + Size(r),
                          overflowed |-> FALSE, gap |-> "none", lost |-> s.lost]
    BY <1>1, <1>4, <1>5 DEF Emit, Put
  <2>2. Emit(s, wd, r) \in QSet
    <3>1. s.qlen + Size(r) \in Nat
      BY <1>1, <1>2
    <3>2. QED
      BY <1>3, <1>4, <2>1, <3>1 DEF QSet, Gaps
  <2>3. Through(s, Emit(s, wd, r), wd, r)
    BY <1>5, <2>1 DEF Through
  <2>4. QED
    BY <2>2, <2>3
<1>6. CASE ~(s.qlen + Size(r) <= QueueMax) /\ (s.overflowed \/ s.qlen + Size(Overflow) > QueueMax)
  <2> DEFINE gap == IF s.gap # "none" THEN s.gap ELSE IF s.overflowed THEN "untold" ELSE "full"
  <2>1. gap \in Gaps
    BY <1>4 DEF Gaps
  <2>2. Emit(s, wd, r) = [queue |-> s.queue, qlen |-> s.qlen, overflowed |-> s.overflowed, gap |-> gap,
                          lost |-> s.lost \cup {wd}]
    <3>1. CASE s.overflowed
      BY <1>4, <1>6, <3>1 DEF Emit
    <3>2. CASE ~s.overflowed
      BY <1>4, <1>6, <3>2 DEF Emit
    <3>3. QED
      BY <3>1, <3>2
  <2>3. Emit(s, wd, r) \in QSet
    BY <1>2, <1>4, <2>1, <2>2 DEF QSet
  <2>4. Dropped(s, Emit(s, wd, r), wd)
    BY <2>2 DEF Dropped
  <2>5. QED
    BY <2>3, <2>4
<1>7. CASE ~(s.qlen + Size(r) <= QueueMax) /\ ~(s.overflowed \/ s.qlen + Size(Overflow) > QueueMax)
  <2>1. Emit(s, wd, r) = [queue |-> Append(s.queue, Overflow), qlen |-> s.qlen + Size(Overflow),
                          overflowed |-> TRUE, gap |-> "told", lost |-> s.lost \cup {wd}]
    BY <1>1, <1>4, <1>7 DEF Emit, Put
  <2>2. Emit(s, wd, r) \in QSet
    <3>1. s.qlen + Size(Overflow) \in Nat
      BY <1>1, <1>2
    <3>2. QED
      BY <1>3, <1>4, <2>1, <3>1 DEF QSet, Gaps
  <2>3. s.qlen + Size(Overflow) <= QueueMax
    BY <1>1, <1>2, <1>7
  <2>4. Warned(s, Emit(s, wd, r), wd)
    BY <2>1, <2>3 DEF Warned
  <2>5. QED
    BY <2>2, <2>4
<1>8. QED
  BY <1>5, <1>6, <1>7

LEMMA EmitMaskedCases ==
  ASSUME NEW s \in QSet, NEW wd \in Wd, NEW r \in Said
  PROVE  /\ EmitMasked(s, wd, r) \in QSet
         /\ \/ Through(s, EmitMasked(s, wd, r), wd, r) \/ Warned(s, EmitMasked(s, wd, r), wd)
            \/ Dropped(s, EmitMasked(s, wd, r), wd) \/ Hidden(s, EmitMasked(s, wd, r), wd, r)
<1>1. CASE r.kind \in watches[wd].mask \cup {"IGNORED"}
  BY <1>1, EmitCases DEF EmitMasked
<1>2. CASE r.kind \notin watches[wd].mask \cup {"IGNORED"}
  BY <1>2 DEF EmitMasked, Hidden, QSet
<1>3. QED
  BY <1>1, <1>2

EmitStep(wd) == [p \in QSet \X Said |-> EmitMasked(p[1], wd, p[2])]

LEMMA EmitSteps ==
  ASSUME NEW wd \in Wd
  PROVE  /\ Steps(EmitStep(wd), QSet, Said)
         /\ \A s \in QSet, r \in Said : EmitStep(wd)[<<s, r>>] = EmitMasked(s, wd, r)
<1>1. \A s \in QSet, r \in Said : EmitStep(wd)[<<s, r>>] = EmitMasked(s, wd, r)
  BY DEF EmitStep
<1>2. QED
  BY <1>1, EmitMaskedCases DEF Steps

LEMMA EmitAllFolds ==
  ASSUME NEW wd \in Wd, NEW s \in QSet, NEW recs \in Seq(Said)
  PROVE  EmitAll(s, wd, recs) = Folded(EmitStep(wd), s, recs)
<1> DEFINE F == CHOOSE g : g = [i \in 0..Len(recs) |-> IF i = 0 THEN s ELSE EmitMasked(g[i - 1], wd, recs[i])]
<1>1. Len(recs) \in Nat /\ \A i \in 1..Len(recs) : recs[i] \in Said
  OBVIOUS
<1>2. PICK f : /\ \A i \in 0..Len(recs) : f[i] \in QSet
               /\ Goes(f, EmitStep(wd), s, recs, Len(recs))
  BY EmitSteps, FoldedBy
<1>3. f = [i \in 0..Len(recs) |-> IF i = 0 THEN s ELSE EmitMasked(f[i - 1], wd, recs[i])]
  <2> HIDE DEF QSet
  <2>1. ASSUME NEW i \in 1..Len(recs)
        PROVE  EmitStep(wd)[<<f[i - 1], recs[i]>>] = EmitMasked(f[i - 1], wd, recs[i])
    BY <1>1, <1>2, EmitSteps
  <2>2. \A i \in 0..Len(recs) : (IF i = 0 THEN s ELSE EmitStep(wd)[<<f[i - 1], recs[i]>>])
                                = IF i = 0 THEN s ELSE EmitMasked(f[i - 1], wd, recs[i])
    BY <1>1, <2>1
  <2>3. [i \in 0..Len(recs) |-> IF i = 0 THEN s ELSE EmitStep(wd)[<<f[i - 1], recs[i]>>]]
        = [i \in 0..Len(recs) |-> IF i = 0 THEN s ELSE EmitMasked(f[i - 1], wd, recs[i])]
    BY <2>2, Zenon
  <2>4. QED
    BY <1>2, <2>3, Zenon DEF Goes
<1>4. F = [i \in 0..Len(recs) |-> IF i = 0 THEN s ELSE EmitMasked(F[i - 1], wd, recs[i])]
  <2>1. \E g : g = [i \in 0..Len(recs) |-> IF i = 0 THEN s ELSE EmitMasked(g[i - 1], wd, recs[i])]
    BY <1>3, Zenon
  <2>2. QED
    BY <2>1, Zenon
<1>5. EmitAll(s, wd, recs) = F[Len(recs)]
  BY DEF EmitAll, Along
<1> HIDE DEF F
<1>6. F[0] = s /\ \A i \in 1..Len(recs) : F[i - 1] \in QSet => F[i] = EmitStep(wd)[<<F[i - 1], recs[i]>>]
  BY <1>1, <1>4, EmitSteps
<1>7. QED
  BY <1>5, <1>6, EmitSteps, FoldedIs

\* What a fold does with no record, and with one record more.
LEMMA EmitAllShape ==
  ASSUME NEW wd \in Wd, NEW s \in QSet
  PROVE  /\ EmitAll(s, wd, <<>>) = s
         /\ \A u \in Seq(Said) : EmitAll(s, wd, u) \in QSet
         /\ \A u \in Seq(Said), r \in Said :
              EmitAll(s, wd, Append(u, r)) = EmitMasked(EmitAll(s, wd, u), wd, r)
<1>1. Steps(EmitStep(wd), QSet, Said) /\ <<>> \in Seq(Said)
  BY EmitSteps
<1>2. Folded(EmitStep(wd), s, <<>>) = s
  BY <1>1, FoldedEmpty
<1>3. \A u \in Seq(Said) : Folded(EmitStep(wd), s, u) \in QSet
  BY <1>1, FoldedIn
<1>4. \A u \in Seq(Said) : EmitAll(s, wd, u) = Folded(EmitStep(wd), s, u)
  BY EmitAllFolds
<1>5. ASSUME NEW u \in Seq(Said), NEW r \in Said
      PROVE  EmitAll(s, wd, Append(u, r)) = EmitMasked(EmitAll(s, wd, u), wd, r)
  <2>1. Append(u, r) \in Seq(Said)
    OBVIOUS
  <2>2. Folded(EmitStep(wd), s, Append(u, r)) = EmitStep(wd)[<<Folded(EmitStep(wd), s, u), r>>]
    BY <1>1, FoldedAppend
  <2>3. EmitStep(wd)[<<Folded(EmitStep(wd), s, u), r>>] = EmitMasked(Folded(EmitStep(wd), s, u), wd, r)
    BY <1>3, EmitSteps
  <2>4. QED
    BY <1>4, <2>1, <2>2, <2>3
<1>6. QED
  BY <1>1, <1>2, <1>3, <1>4, <1>5

-----------------------------------------------------------------------------
(***************************************************************************)
(* The other folds: a listing replayed, notifications heard, notifications *)
(* translated, and the ends that check_gone tells of.                      *)
(***************************************************************************)
NameSets == SUBSET Name
ReplayStep(wd) == [p \in NameSets \X Entry |-> Replay(p[1], wd, p[2])]

LEMMA ReplayedSteps ==
  ASSUME NEW wd \in Wd
  PROVE  /\ Steps(ReplayStep(wd), NameSets, Entry)
         /\ \A s \in NameSets, r \in Entry : ReplayStep(wd)[<<s, r>>] = Replay(s, wd, r)
<1>1. \A s \in NameSets, r \in Entry : ReplayStep(wd)[<<s, r>>] = Replay(s, wd, r)
  BY DEF ReplayStep
<1>2. ASSUME NEW s \in NameSets, NEW r \in Entry PROVE Replay(s, wd, r) \in NameSets
  BY DEF Replay, Entry, NameSets
<1>3. QED
  BY <1>1, <1>2 DEF Steps

LEMMA ReplayedFolds ==
  ASSUME NEW wd \in Wd, NEW names \in NameSets, NEW s \in Seq(Entry)
  PROVE  Replayed(names, wd, s) = Folded(ReplayStep(wd), names, s)
<1> DEFINE F == CHOOSE g : g = [i \in 0..Len(s) |-> IF i = 0 THEN names ELSE Replay(g[i - 1], wd, s[i])]
<1>1. Len(s) \in Nat /\ \A i \in 1..Len(s) : s[i] \in Entry
  OBVIOUS
<1>2. PICK f : /\ \A i \in 0..Len(s) : f[i] \in NameSets
               /\ Goes(f, ReplayStep(wd), names, s, Len(s))
  BY ReplayedSteps, FoldedBy
<1>3. f = [i \in 0..Len(s) |-> IF i = 0 THEN names ELSE Replay(f[i - 1], wd, s[i])]
  <2>1. ASSUME NEW i \in 1..Len(s)
        PROVE  ReplayStep(wd)[<<f[i - 1], s[i]>>] = Replay(f[i - 1], wd, s[i])
    BY <1>1, <1>2, ReplayedSteps
  <2>2. \A i \in 0..Len(s) : (IF i = 0 THEN names ELSE ReplayStep(wd)[<<f[i - 1], s[i]>>])
                             = IF i = 0 THEN names ELSE Replay(f[i - 1], wd, s[i])
    BY <1>1, <2>1
  <2>3. [i \in 0..Len(s) |-> IF i = 0 THEN names ELSE ReplayStep(wd)[<<f[i - 1], s[i]>>]]
        = [i \in 0..Len(s) |-> IF i = 0 THEN names ELSE Replay(f[i - 1], wd, s[i])]
    BY <2>2, Zenon
  <2>4. QED
    BY <1>2, <2>3, Zenon DEF Goes
<1>4. F = [i \in 0..Len(s) |-> IF i = 0 THEN names ELSE Replay(F[i - 1], wd, s[i])]
  <2>1. \E g : g = [i \in 0..Len(s) |-> IF i = 0 THEN names ELSE Replay(g[i - 1], wd, s[i])]
    BY <1>3, Zenon
  <2>2. QED
    BY <2>1, Zenon
<1>5. Replayed(names, wd, s) = F[Len(s)]
  BY DEF Replayed, Along
<1> HIDE DEF F
<1>6. F[0] = names /\ \A i \in 1..Len(s) : F[i - 1] \in NameSets => F[i] = ReplayStep(wd)[<<F[i - 1], s[i]>>]
  BY <1>1, <1>4, ReplayedSteps
<1>7. QED
  BY <1>5, <1>6, ReplayedSteps, FoldedIs

LEMMA ReplayedShape ==
  ASSUME NEW wd \in Wd, NEW names \in NameSets
  PROVE  /\ Replayed(names, wd, <<>>) = names
         /\ \A u \in Seq(Entry) : Replayed(names, wd, u) \in NameSets
         /\ \A u \in Seq(Entry), r \in Entry :
              Replayed(names, wd, Append(u, r)) = Replay(Replayed(names, wd, u), wd, r)
<1>1. Steps(ReplayStep(wd), NameSets, Entry) /\ <<>> \in Seq(Entry)
  BY ReplayedSteps
<1>2. Folded(ReplayStep(wd), names, <<>>) = names
  BY <1>1, FoldedEmpty
<1>3. \A u \in Seq(Entry) : Folded(ReplayStep(wd), names, u) \in NameSets
  BY <1>1, FoldedIn
<1>4. \A u \in Seq(Entry) : Replayed(names, wd, u) = Folded(ReplayStep(wd), names, u)
  BY ReplayedFolds
<1>5. ASSUME NEW u \in Seq(Entry), NEW r \in Entry
      PROVE  Replayed(names, wd, Append(u, r)) = Replay(Replayed(names, wd, u), wd, r)
  <2>1. Append(u, r) \in Seq(Entry)
    OBVIOUS
  <2>2. Folded(ReplayStep(wd), names, Append(u, r)) = ReplayStep(wd)[<<Folded(ReplayStep(wd), names, u), r>>]
    BY <1>1, FoldedAppend
  <2>3. ReplayStep(wd)[<<Folded(ReplayStep(wd), names, u), r>>] = Replay(Folded(ReplayStep(wd), names, u), wd, r)
    BY <1>3, ReplayedSteps
  <2>4. QED
    BY <1>4, <2>1, <2>2, <2>3
<1>6. QED
  BY <1>1, <1>2, <1>3, <1>4, <1>5


LEMMA ReplayedConcat ==
  ASSUME NEW wd \in Wd, NEW names \in NameSets, NEW s \in Seq(Entry), NEW t \in Seq(Entry)
  PROVE  Replayed(names, wd, s \o t) = Replayed(Replayed(names, wd, s), wd, t)
<1> DEFINE half == Replayed(names, wd, s)
<1>1. Steps(ReplayStep(wd), NameSets, Entry) /\ s \o t \in Seq(Entry)
  BY ReplayedSteps
<1>2. half \in NameSets
  BY ReplayedShape
<1>3. Folded(ReplayStep(wd), names, s \o t)
      = Folded(ReplayStep(wd), Folded(ReplayStep(wd), names, s), t)
  BY <1>1, FoldedConcat
<1>4. Folded(ReplayStep(wd), names, s) = half
  BY ReplayedFolds
<1> HIDE DEF half
<1>5. Folded(ReplayStep(wd), half, t) = Replayed(half, wd, t)
  BY <1>2, ReplayedFolds
<1>6. Replayed(names, wd, s \o t) = Folded(ReplayStep(wd), names, s \o t)
  BY <1>1, ReplayedFolds
<1>7. QED
  BY <1>3, <1>4, <1>5, <1>6, Zenon DEF half

VWatch == [path : Path, mask : Masks, of : Ino \cup {"dir"}, kids : [Name -> Ino \cup {None}],
           note : SUBSET {"write", "rename", "delete"}, dead : BOOLEAN, missed : BOOLEAN]
CWatch == [path : Path, mask : Masks, of : {"dir"}, done : Seq(Notifications) \cup {None},
           held : Seq(Notifications) \cup {None}, up : BOOLEAN, dead : BOOLEAN]
HearStep == [p \in CWatch \X Notifications |-> Hears(p[1], p[2])]

LEMMA HeardSteps ==
  /\ Steps(HearStep, CWatch, Notifications)
  /\ \A s \in CWatch, r \in Notifications : HearStep[<<s, r>>] = Hears(s, r)
<1>1. \A s \in CWatch, r \in Notifications : HearStep[<<s, r>>] = Hears(s, r)
  BY DEF HearStep
<1>2. ASSUME NEW s \in CWatch, NEW r \in Notifications PROVE Hears(s, r) \in CWatch
  <2>1. <<r>> \in Seq(Notifications) /\ (s.held # None => Append(s.held, r) \in Seq(Notifications))
    BY DEF CWatch
  <2>2. QED
    BY <2>1 DEF Hears, CWatch
<1>3. QED
  BY <1>1, <1>2 DEF Steps

LEMMA HeardFolds ==
  ASSUME NEW w \in CWatch, NEW s \in Seq(Notifications)
  PROVE  Heard(w, s) = Folded(HearStep, w, s)
<1> DEFINE F == CHOOSE g : g = [i \in 0..Len(s) |-> IF i = 0 THEN w ELSE Hears(g[i - 1], s[i])]
<1>1. Len(s) \in Nat /\ \A i \in 1..Len(s) : s[i] \in Notifications
  OBVIOUS
<1>2. PICK f : /\ \A i \in 0..Len(s) : f[i] \in CWatch
               /\ Goes(f, HearStep, w, s, Len(s))
  BY HeardSteps, FoldedBy
<1>3. f = [i \in 0..Len(s) |-> IF i = 0 THEN w ELSE Hears(f[i - 1], s[i])]
  <2>1. ASSUME NEW i \in 1..Len(s)
        PROVE  HearStep[<<f[i - 1], s[i]>>] = Hears(f[i - 1], s[i])
    BY <1>1, <1>2, HeardSteps
  <2>2. \A i \in 0..Len(s) : (IF i = 0 THEN w ELSE HearStep[<<f[i - 1], s[i]>>])
                             = IF i = 0 THEN w ELSE Hears(f[i - 1], s[i])
    BY <1>1, <2>1
  <2>3. [i \in 0..Len(s) |-> IF i = 0 THEN w ELSE HearStep[<<f[i - 1], s[i]>>]]
        = [i \in 0..Len(s) |-> IF i = 0 THEN w ELSE Hears(f[i - 1], s[i])]
    BY <2>2, Zenon
  <2>4. QED
    BY <1>2, <2>3, Zenon DEF Goes
<1>4. F = [i \in 0..Len(s) |-> IF i = 0 THEN w ELSE Hears(F[i - 1], s[i])]
  <2>1. \E g : g = [i \in 0..Len(s) |-> IF i = 0 THEN w ELSE Hears(g[i - 1], s[i])]
    BY <1>3, Zenon
  <2>2. QED
    BY <2>1, Zenon
<1>5. Heard(w, s) = F[Len(s)]
  BY DEF Heard, Along
<1> HIDE DEF F
<1>6. F[0] = w /\ \A i \in 1..Len(s) : F[i - 1] \in CWatch => F[i] = HearStep[<<F[i - 1], s[i]>>]
  BY <1>1, <1>4, HeardSteps
<1>7. QED
  BY <1>5, <1>6, HeardSteps, FoldedIs

LEMMA HeardShape ==
  ASSUME NEW w \in CWatch
  PROVE  /\ Heard(w, <<>>) = w
         /\ \A u \in Seq(Notifications) : Heard(w, u) \in CWatch
         /\ \A u \in Seq(Notifications), r \in Notifications :
              Heard(w, Append(u, r)) = Hears(Heard(w, u), r)
<1>1. Steps(HearStep, CWatch, Notifications) /\ <<>> \in Seq(Notifications)
  BY HeardSteps
<1>2. Folded(HearStep, w, <<>>) = w
  BY <1>1, FoldedEmpty
<1>3. \A u \in Seq(Notifications) : Folded(HearStep, w, u) \in CWatch
  BY <1>1, FoldedIn
<1>4. \A u \in Seq(Notifications) : Heard(w, u) = Folded(HearStep, w, u)
  BY HeardFolds
<1>5. ASSUME NEW u \in Seq(Notifications), NEW r \in Notifications
      PROVE  Heard(w, Append(u, r)) = Hears(Heard(w, u), r)
  <2>1. Append(u, r) \in Seq(Notifications)
    OBVIOUS
  <2>2. Folded(HearStep, w, Append(u, r)) = HearStep[<<Folded(HearStep, w, u), r>>]
    BY <1>1, FoldedAppend
  <2>3. HearStep[<<Folded(HearStep, w, u), r>>] = Hears(Folded(HearStep, w, u), r)
    BY <1>3, HeardSteps
  <2>4. QED
    BY <1>4, <2>1, <2>2, <2>3
<1>6. QED
  BY <1>1, <1>2, <1>3, <1>4, <1>5


Emissions == [q : QSet, cookie : Cookie, open_cookie : Cookie]
TranslatedStep(wd) == [p \in Emissions \X Notifications |-> Translated(p[1], wd, p[2])]
TranslatedAll(wd, s, said) == Along(LAMBDA t, n : Translated(t, wd, n), s, said)

\* The cookie that a notification leaves open while it is translated, and its record.
Opened(s, n) == IF n[1] = "OLD_NAME" THEN Bumped(s.cookie) ELSE s.open_cookie
RecsOf(wd, s, n) ==
  IF ~IsDir(watches[wd])
  THEN CASE n[1] = "ADDED" -> <<Self("CREATE")>>
         [] n[1] = "REMOVED" -> Gone
         [] n[1] = "MODIFIED" -> <<Self("MODIFY")>>
         [] n[1] = "OLD_NAME" -> <<Self("MOVE_SELF")>>
         [] OTHER -> <<>>
  ELSE CASE n[1] = "ADDED" -> <<Plain("CREATE", n[2])>>
         [] n[1] = "REMOVED" -> <<Plain("DELETE", n[2])>>
         [] n[1] = "MODIFIED" -> <<Plain("MODIFY", n[2])>>
         [] n[1] = "OLD_NAME" -> <<Rec("MOVED_FROM", n[2], Opened(s, n))>>
         [] OTHER -> <<Rec("MOVED_TO", n[2], Opened(s, n))>>

LEMMA TranslatedIs ==
  ASSUME NEW wd, NEW s, NEW n
  PROVE  Translated(s, wd, n) =
           IF ~IsDir(watches[wd]) /\ n[2] # watches[wd].path THEN s
           ELSE [q |-> EmitAll(s.q, wd, RecsOf(wd, s, n)),
                 cookie |-> IF n[1] = "OLD_NAME" THEN Opened(s, n) ELSE s.cookie,
                 open_cookie |-> IF n[1] = "NEW_NAME" THEN 0 ELSE Opened(s, n)]
  BY DEF Translated, RecsOf, Opened

LEMMA SelfSaid ==
  /\ \A kind \in AllKinds : Self(kind) \in Said
  /\ \A kind \in AllKinds, n \in Name : Plain(kind, n) \in Said
  /\ \A kind \in AllKinds, n \in Name, c \in Cookie : Rec(kind, n, c) \in Said
  /\ Gone \in Seq(Said)
<1>1. 0 \in Cookie
  BY WatchAssumption DEF Cookie
<1>2. \A kind \in AllKinds : Self(kind) \in Said
  BY <1>1 DEF Self, Rec, Said
<1>3. \A kind \in AllKinds, n \in Name : Plain(kind, n) \in Said
  BY <1>1 DEF Plain, Rec, Said
<1>4. \A kind \in AllKinds, n \in Name, c \in Cookie : Rec(kind, n, c) \in Said
  BY DEF Rec, Said
<1>5. Gone \in Seq(Said)
  <2>1. "DELETE_SELF" \in AllKinds /\ "IGNORED" \in AllKinds
    BY DEF AllKinds, Kinds
  <2>2. Self("DELETE_SELF") \in Said /\ Self("IGNORED") \in Said
    BY <1>2, <2>1
  <2>3. QED
    BY <2>2 DEF Gone
<1>6. QED
  BY <1>2, <1>3, <1>4, <1>5

LEMMA BumpedCookie ==
  ASSUME NEW c \in Cookie
  PROVE  Bumped(c) \in Cookie
<1>1. c \in Nat /\ CookieWrap \in Nat \ {0}
  BY WatchAssumption DEF Cookie
<1>2. (c + 1) \in Nat
  BY <1>1
<1>3. (c + 1) % CookieWrap \in 0..(CookieWrap - 1)
  BY <1>1, <1>2, DivMod
<1>4. QED
  BY <1>3 DEF Bumped, Cookie

LEMMA RecsOfSaid ==
  ASSUME NEW wd, NEW s \in Emissions, NEW n \in Notifications
  PROVE  RecsOf(wd, s, n) \in Seq(Said) /\ Opened(s, n) \in Cookie
<1>1. n[2] \in Name /\ n[1] \in {"ADDED", "REMOVED", "MODIFIED", "OLD_NAME", "NEW_NAME"}
  BY DEF Notifications
<1>2. Opened(s, n) \in Cookie
  BY BumpedCookie DEF Opened, Emissions
<1>3. {"CREATE", "MODIFY", "MOVE_SELF", "DELETE", "MOVED_FROM", "MOVED_TO"} \subseteq AllKinds
  BY DEF AllKinds, Kinds, NameKinds
<1>4. \A r \in Said : <<r>> \in Seq(Said)
  OBVIOUS
<1>5. <<>> \in Seq(Said)
  OBVIOUS
<1> HIDE DEF Said
<1>6. CASE ~IsDir(watches[wd])
  <2>1. RecsOf(wd, s, n) \in {<<Self("CREATE")>>, Gone, <<Self("MODIFY")>>, <<Self("MOVE_SELF")>>, <<>>}
    BY <1>6 DEF RecsOf
  <2>2. QED
    BY <1>2, <1>3, <1>4, <1>5, <2>1, SelfSaid
<1>7. CASE IsDir(watches[wd])
  <2>1. RecsOf(wd, s, n) \in {<<Plain("CREATE", n[2])>>, <<Plain("DELETE", n[2])>>, <<Plain("MODIFY", n[2])>>,
                              <<Rec("MOVED_FROM", n[2], Opened(s, n))>>, <<Rec("MOVED_TO", n[2], Opened(s, n))>>}
    BY <1>7 DEF RecsOf
  <2>2. QED
    BY <1>1, <1>2, <1>3, <1>4, <2>1, SelfSaid
<1>8. QED
  BY <1>2, <1>6, <1>7

LEMMA TranslatedSteps ==
  ASSUME NEW wd \in Wd
  PROVE  /\ Steps(TranslatedStep(wd), Emissions, Notifications)
         /\ \A s \in Emissions, r \in Notifications : TranslatedStep(wd)[<<s, r>>] = Translated(s, wd, r)
<1>1. \A s \in Emissions, r \in Notifications : TranslatedStep(wd)[<<s, r>>] = Translated(s, wd, r)
  BY DEF TranslatedStep
<1>2. ASSUME NEW s \in Emissions, NEW n \in Notifications PROVE Translated(s, wd, n) \in Emissions
  <2>1. /\ s.q \in QSet /\ s.cookie \in Cookie /\ 0 \in Cookie
        /\ RecsOf(wd, s, n) \in Seq(Said) /\ Opened(s, n) \in Cookie
    BY RecsOfSaid, WatchAssumption DEF Emissions, Cookie
  <2>2. EmitAll(s.q, wd, RecsOf(wd, s, n)) \in QSet
    BY <2>1, EmitAllShape
  <2>3. QED
    BY <2>1, <2>2, TranslatedIs DEF Emissions
<1>3. QED
  BY <1>1, <1>2 DEF Steps

LEMMA TranslatedFolds ==
  ASSUME NEW wd \in Wd, NEW base \in Emissions, NEW s \in Seq(Notifications)
  PROVE  TranslatedAll(wd, base, s) = Folded(TranslatedStep(wd), base, s)
<1> DEFINE F == CHOOSE g : g = [i \in 0..Len(s) |-> IF i = 0 THEN base ELSE Translated(g[i - 1], wd, s[i])]
<1>1. Len(s) \in Nat /\ \A i \in 1..Len(s) : s[i] \in Notifications
  OBVIOUS
<1>2. PICK f : /\ \A i \in 0..Len(s) : f[i] \in Emissions
               /\ Goes(f, TranslatedStep(wd), base, s, Len(s))
  BY TranslatedSteps, FoldedBy
<1>3. f = [i \in 0..Len(s) |-> IF i = 0 THEN base ELSE Translated(f[i - 1], wd, s[i])]
  <2>1. ASSUME NEW i \in 1..Len(s)
        PROVE  TranslatedStep(wd)[<<f[i - 1], s[i]>>] = Translated(f[i - 1], wd, s[i])
    BY <1>1, <1>2, TranslatedSteps
  <2>2. \A i \in 0..Len(s) : (IF i = 0 THEN base ELSE TranslatedStep(wd)[<<f[i - 1], s[i]>>])
                             = IF i = 0 THEN base ELSE Translated(f[i - 1], wd, s[i])
    BY <1>1, <2>1
  <2>3. [i \in 0..Len(s) |-> IF i = 0 THEN base ELSE TranslatedStep(wd)[<<f[i - 1], s[i]>>]]
        = [i \in 0..Len(s) |-> IF i = 0 THEN base ELSE Translated(f[i - 1], wd, s[i])]
    BY <2>2, Zenon
  <2>4. QED
    BY <1>2, <2>3, Zenon DEF Goes
<1>4. F = [i \in 0..Len(s) |-> IF i = 0 THEN base ELSE Translated(F[i - 1], wd, s[i])]
  <2>1. \E g : g = [i \in 0..Len(s) |-> IF i = 0 THEN base ELSE Translated(g[i - 1], wd, s[i])]
    BY <1>3, Zenon
  <2>2. QED
    BY <2>1, Zenon
<1>5. TranslatedAll(wd, base, s) = F[Len(s)]
  BY DEF TranslatedAll, Along
<1> HIDE DEF F
<1>6. F[0] = base /\ \A i \in 1..Len(s) : F[i - 1] \in Emissions => F[i] = TranslatedStep(wd)[<<F[i - 1], s[i]>>]
  BY <1>1, <1>4, TranslatedSteps
<1>7. QED
  BY <1>5, <1>6, TranslatedSteps, FoldedIs

LEMMA TranslatedShape ==
  ASSUME NEW wd \in Wd, NEW base \in Emissions
  PROVE  /\ TranslatedAll(wd, base, <<>>) = base
         /\ \A u \in Seq(Notifications) : TranslatedAll(wd, base, u) \in Emissions
         /\ \A u \in Seq(Notifications), r \in Notifications :
              TranslatedAll(wd, base, Append(u, r)) = Translated(TranslatedAll(wd, base, u), wd, r)
<1>1. Steps(TranslatedStep(wd), Emissions, Notifications) /\ <<>> \in Seq(Notifications)
  BY TranslatedSteps
<1>2. Folded(TranslatedStep(wd), base, <<>>) = base
  BY <1>1, FoldedEmpty
<1>3. \A u \in Seq(Notifications) : Folded(TranslatedStep(wd), base, u) \in Emissions
  BY <1>1, FoldedIn
<1>4. \A u \in Seq(Notifications) : TranslatedAll(wd, base, u) = Folded(TranslatedStep(wd), base, u)
  BY TranslatedFolds
<1>5. ASSUME NEW u \in Seq(Notifications), NEW r \in Notifications
      PROVE  TranslatedAll(wd, base, Append(u, r)) = Translated(TranslatedAll(wd, base, u), wd, r)
  <2>1. Append(u, r) \in Seq(Notifications)
    OBVIOUS
  <2>2. Folded(TranslatedStep(wd), base, Append(u, r)) = TranslatedStep(wd)[<<Folded(TranslatedStep(wd), base, u), r>>]
    BY <1>1, FoldedAppend
  <2>3. TranslatedStep(wd)[<<Folded(TranslatedStep(wd), base, u), r>>] = Translated(Folded(TranslatedStep(wd), base, u), wd, r)
    BY <1>3, TranslatedSteps
  <2>4. QED
    BY <1>4, <2>1, <2>2, <2>3
<1>6. QED
  BY <1>1, <1>2, <1>3, <1>4, <1>5


EndOf(gone, s, wd) == IF wd \in gone THEN EmitAll(s, wd, Gone) ELSE s
EndsStep(gone) == [p \in QSet \X Wd |-> EndOf(gone, p[1], p[2])]
EndsAll(gone, s, wds) == Along(LAMBDA t, wd : EndOf(gone, t, wd), s, wds)

LEMMA EndsSteps ==
  ASSUME NEW gone
  PROVE  /\ Steps(EndsStep(gone), QSet, Wd)
         /\ \A s \in QSet, r \in Wd : EndsStep(gone)[<<s, r>>] = EndOf(gone, s, r)
<1>1. \A s \in QSet, r \in Wd : EndsStep(gone)[<<s, r>>] = EndOf(gone, s, r)
  BY DEF EndsStep
<1>2. ASSUME NEW s \in QSet, NEW wd \in Wd PROVE EndOf(gone, s, wd) \in QSet
  BY SelfSaid, EmitAllShape DEF EndOf
<1>3. QED
  BY <1>1, <1>2 DEF Steps

LEMMA EndsFolds ==
  ASSUME NEW gone, NEW base \in QSet, NEW s \in Seq(Wd)
  PROVE  EndsAll(gone, base, s) = Folded(EndsStep(gone), base, s)
<1> DEFINE F == CHOOSE g : g = [i \in 0..Len(s) |-> IF i = 0 THEN base ELSE EndOf(gone, g[i - 1], s[i])]
<1>1. Len(s) \in Nat /\ \A i \in 1..Len(s) : s[i] \in Wd
  OBVIOUS
<1>2. PICK f : /\ \A i \in 0..Len(s) : f[i] \in QSet
               /\ Goes(f, EndsStep(gone), base, s, Len(s))
  BY EndsSteps, FoldedBy
<1>3. f = [i \in 0..Len(s) |-> IF i = 0 THEN base ELSE EndOf(gone, f[i - 1], s[i])]
  <2>1. ASSUME NEW i \in 1..Len(s)
        PROVE  EndsStep(gone)[<<f[i - 1], s[i]>>] = EndOf(gone, f[i - 1], s[i])
    BY <1>1, <1>2, EndsSteps
  <2>2. \A i \in 0..Len(s) : (IF i = 0 THEN base ELSE EndsStep(gone)[<<f[i - 1], s[i]>>])
                             = IF i = 0 THEN base ELSE EndOf(gone, f[i - 1], s[i])
    BY <1>1, <2>1
  <2>3. [i \in 0..Len(s) |-> IF i = 0 THEN base ELSE EndsStep(gone)[<<f[i - 1], s[i]>>]]
        = [i \in 0..Len(s) |-> IF i = 0 THEN base ELSE EndOf(gone, f[i - 1], s[i])]
    BY <2>2, Zenon
  <2>4. QED
    BY <1>2, <2>3, Zenon DEF Goes
<1>4. F = [i \in 0..Len(s) |-> IF i = 0 THEN base ELSE EndOf(gone, F[i - 1], s[i])]
  <2>1. \E g : g = [i \in 0..Len(s) |-> IF i = 0 THEN base ELSE EndOf(gone, g[i - 1], s[i])]
    BY <1>3, Zenon
  <2>2. QED
    BY <2>1, Zenon
<1>5. EndsAll(gone, base, s) = F[Len(s)]
  BY DEF EndsAll, Along
<1> HIDE DEF F
<1>6. F[0] = base /\ \A i \in 1..Len(s) : F[i - 1] \in QSet => F[i] = EndsStep(gone)[<<F[i - 1], s[i]>>]
  BY <1>1, <1>4, EndsSteps
<1>7. QED
  BY <1>5, <1>6, EndsSteps, FoldedIs

LEMMA EndsShape ==
  ASSUME NEW gone, NEW base \in QSet
  PROVE  /\ EndsAll(gone, base, <<>>) = base
         /\ \A u \in Seq(Wd) : EndsAll(gone, base, u) \in QSet
         /\ \A u \in Seq(Wd), r \in Wd :
              EndsAll(gone, base, Append(u, r)) = EndOf(gone, EndsAll(gone, base, u), r)
<1>1. Steps(EndsStep(gone), QSet, Wd) /\ <<>> \in Seq(Wd)
  BY EndsSteps
<1>2. Folded(EndsStep(gone), base, <<>>) = base
  BY <1>1, FoldedEmpty
<1>3. \A u \in Seq(Wd) : Folded(EndsStep(gone), base, u) \in QSet
  BY <1>1, FoldedIn
<1>4. \A u \in Seq(Wd) : EndsAll(gone, base, u) = Folded(EndsStep(gone), base, u)
  BY EndsFolds
<1>5. ASSUME NEW u \in Seq(Wd), NEW r \in Wd
      PROVE  EndsAll(gone, base, Append(u, r)) = EndOf(gone, EndsAll(gone, base, u), r)
  <2>1. Append(u, r) \in Seq(Wd)
    OBVIOUS
  <2>2. Folded(EndsStep(gone), base, Append(u, r)) = EndsStep(gone)[<<Folded(EndsStep(gone), base, u), r>>]
    BY <1>1, FoldedAppend
  <2>3. EndsStep(gone)[<<Folded(EndsStep(gone), base, u), r>>] = EndOf(gone, Folded(EndsStep(gone), base, u), r)
    BY <1>3, EndsSteps
  <2>4. QED
    BY <1>4, <2>1, <2>2, <2>3
<1>6. QED
  BY <1>1, <1>2, <1>3, <1>4, <1>5

-----------------------------------------------------------------------------
(***************************************************************************)
(* What directory_changed finds: the names that stayed, those that left,   *)
(* and those that are new.                                                 *)
(***************************************************************************)
Listings == [Name -> Ino \cup {None}]
\* Records that are not of an end.
Quiet == {r \in Said : r.kind # "IGNORED"}
Quiets == Seq(Quiet)
Finds == [recs : Quiets, landed : NameSets, cookie : Cookie]

LEMMA QuietSaid ==
  /\ Quiet \subseteq Said /\ Quiets \subseteq Seq(Said)
  /\ \A kind \in Kinds : Self(kind) \in Quiet
  /\ \A kind \in Kinds, n \in Name : Plain(kind, n) \in Quiet
  /\ \A kind \in Kinds, n \in Name, c \in Cookie : Rec(kind, n, c) \in Quiet
<1>1. "IGNORED" \notin Kinds /\ Kinds \subseteq AllKinds
  BY DEF Kinds, NameKinds, AllKinds
<1>2. \A kind \in Kinds : Self(kind) \in Quiet
  BY <1>1, SelfSaid DEF Quiet, Self, Rec
<1>3. \A kind \in Kinds, n \in Name : Plain(kind, n) \in Quiet
  BY <1>1, SelfSaid DEF Quiet, Plain, Rec
<1>4. \A kind \in Kinds, n \in Name, c \in Cookie : Rec(kind, n, c) \in Quiet
  BY <1>1, SelfSaid DEF Quiet, Rec
<1>5. Quiet \subseteq Said /\ Quiets \subseteq Seq(Said)
  <2>1. Quiet \subseteq Said
    BY DEF Quiet
  <2>2. \A S, T : S \subseteq T => Seq(S) \subseteq Seq(T)
    OBVIOUS
  <2>3. QED
    BY <2>1, <2>2 DEF Quiets
<1>6. QED
  BY <1>2, <1>3, <1>4, <1>5

LEMMA MinIn ==
  ASSUME NEW T, T \subseteq Nat, T # {}
  PROVE  Min(T) \in T
<1>1. \E x \in T : \A y \in T : x <= y
  BY LeastIn
<1>2. QED
  BY <1>1 DEF Min

\* A name that left: deleted, or renamed to m.
Deleted(s, n) == [recs |-> Append(s.recs, Plain("DELETE", n)), landed |-> s.landed, cookie |-> s.cookie]
Renamed(s, n, m) == [recs |-> s.recs \o Moved(n, m, Bumped(s.cookie)),
                     landed |-> s.landed \cup {m}, cookie |-> Bumped(s.cookie)]

LEMMA DepartureCases ==
  ASSUME NEW had \in Listings, NEW fresh \in Listings, NEW s \in Finds, NEW n \in Name
  PROVE  \/ (had[n] = None \/ fresh[n] # None) /\ Departure(s, n, had, fresh) = s
         \/ had[n] # None /\ fresh[n] = None /\ Departure(s, n, had, fresh) = Deleted(s, n)
         \/ /\ had[n] # None /\ fresh[n] = None
            /\ \E m \in Name : /\ had[m] = None /\ fresh[m] # None
                              /\ Departure(s, n, had, fresh) = Renamed(s, n, m)
<1> DEFINE at == {i \in DOMAIN Names : /\ had[Names[i]] = None /\ fresh[Names[i]] = had[n]
                                       /\ Names[i] \notin s.landed}
           m == Names[Min(at)]
           t == Departure(s, n, had, fresh)
<1>1. t = IF had[n] = None \/ fresh[n] # None THEN s
          ELSE IF at = {} THEN [s EXCEPT !.recs = Append(@, Plain("DELETE", n))]
          ELSE Renamed(s, n, m)
  BY DEF Departure, Renamed
<1>2. CASE had[n] = None \/ fresh[n] # None
  BY <1>1, <1>2
<1>3. CASE ~(had[n] = None \/ fresh[n] # None) /\ at = {}
  <2>1. [s EXCEPT !.recs = Append(@, Plain("DELETE", n))] = Deleted(s, n)
    BY SMTT(30) DEF Finds, Deleted
  <2>2. QED
    BY <1>1, <1>3, <2>1
<1>4. CASE ~(had[n] = None \/ fresh[n] # None) /\ at # {}
  <2>1. at \subseteq Nat /\ \A i \in at : Names[i] \in Name
    <3>1. Names \in Seq(Name)
      BY WatchAssumption
    <3>2. QED
      BY <3>1
  <2>2. Min(at) \in at
    <3> HIDE DEF at
    <3>1. QED
      BY <1>4, <2>1, MinIn
  <2>3. m \in Name /\ had[m] = None /\ fresh[m] # None
    BY <1>4, <2>1, <2>2
  <2> HIDE DEF at, m
  <2>4. QED
    BY <1>1, <1>4, <2>3
<1>5. QED
  BY <1>2, <1>3, <1>4

LEMMA MovedSaid ==
  ASSUME NEW n \in Name, NEW m \in Name, NEW c \in Cookie
  PROVE  /\ Moved(n, m, c) = Append(Append(<<>>, Rec("MOVED_FROM", n, c)), Rec("MOVED_TO", m, c))
         /\ Rec("MOVED_FROM", n, c) \in Quiet /\ Rec("MOVED_TO", m, c) \in Quiet /\ Moved(n, m, c) \in Quiets
<1>1. "MOVED_FROM" \in Kinds /\ "MOVED_TO" \in Kinds
  BY DEF Kinds, NameKinds
<1>2. Rec("MOVED_FROM", n, c) \in Quiet /\ Rec("MOVED_TO", m, c) \in Quiet
  BY <1>1, QuietSaid
<1>3. QED
  BY <1>2 DEF Moved, Quiets

LEMMA InPlaceSaid ==
  ASSUME NEW had, NEW fresh, NEW written, NEW n \in Name
  PROVE  /\ InPlace(n, had, fresh, written)
              \in {<<>>, <<Plain("DELETE", n), Plain("CREATE", n)>>, <<Plain("MODIFY", n)>>}
         /\ Plain("DELETE", n) \in Quiet /\ Plain("CREATE", n) \in Quiet /\ Plain("MODIFY", n) \in Quiet
         /\ InPlace(n, had, fresh, written) \in Quiets
<1>1. {"DELETE", "CREATE", "MODIFY"} \subseteq Kinds
  BY DEF Kinds, NameKinds
<1>2. Plain("DELETE", n) \in Quiet /\ Plain("CREATE", n) \in Quiet /\ Plain("MODIFY", n) \in Quiet
  BY <1>1, QuietSaid
<1>3. InPlace(n, had, fresh, written)
      \in {<<>>, <<Plain("DELETE", n), Plain("CREATE", n)>>, <<Plain("MODIFY", n)>>}
  BY DEF InPlace
<1>4. /\ <<>> \in Quiets /\ <<Plain("MODIFY", n)>> \in Quiets
      /\ <<Plain("DELETE", n), Plain("CREATE", n)>> \in Quiets
  <2> DEFINE d == Plain("DELETE", n)
             c == Plain("CREATE", n)
             m == Plain("MODIFY", n)
  <2>1. d \in Quiet /\ c \in Quiet /\ m \in Quiet
    BY <1>2
  <2> HIDE DEF d, c, m
  <2>2. <<>> \in Seq(Quiet) /\ <<m>> \in Seq(Quiet) /\ <<d, c>> \in Seq(Quiet)
    BY <2>1
  <2>3. QED
    BY <2>2 DEF Quiets, d, c, m
<1>5. QED
  BY <1>2, <1>3, <1>4

\* What a name adds that stayed.
AfterStay(s, n, had, fresh, written) == s \o InPlace(n, had, fresh, written)
StayStep(had, fresh, written) == [p \in Quiets \X Name |-> AfterStay(p[1], p[2], had, fresh, written)]
Stays(had, fresh, written, s, names) == Along(LAMBDA t, n : AfterStay(t, n, had, fresh, written), s, names)

LEMMA StaySteps ==
  ASSUME NEW had, NEW fresh, NEW written
  PROVE  /\ Steps(StayStep(had, fresh, written), Quiets, Name)
         /\ \A s \in Quiets, r \in Name : StayStep(had, fresh, written)[<<s, r>>] = AfterStay(s, r, had, fresh, written)
<1>1. \A s \in Quiets, r \in Name : StayStep(had, fresh, written)[<<s, r>>] = AfterStay(s, r, had, fresh, written)
  BY DEF StayStep
<1>2. ASSUME NEW s \in Quiets, NEW n \in Name PROVE AfterStay(s, n, had, fresh, written) \in Quiets
  BY InPlaceSaid DEF Quiets, AfterStay
<1>3. QED
  BY <1>1, <1>2 DEF Steps

LEMMA StayFolds ==
  ASSUME NEW had, NEW fresh, NEW written, NEW base \in Quiets, NEW s \in Seq(Name)
  PROVE  Stays(had, fresh, written, base, s) = Folded(StayStep(had, fresh, written), base, s)
<1> DEFINE F == CHOOSE g : g = [i \in 0..Len(s) |-> IF i = 0 THEN base ELSE AfterStay(g[i - 1], s[i], had, fresh, written)]
<1>1. Len(s) \in Nat /\ \A i \in 1..Len(s) : s[i] \in Name
  OBVIOUS
<1>2. PICK f : /\ \A i \in 0..Len(s) : f[i] \in Quiets
               /\ Goes(f, StayStep(had, fresh, written), base, s, Len(s))
  BY StaySteps, FoldedBy
<1>3. f = [i \in 0..Len(s) |-> IF i = 0 THEN base ELSE AfterStay(f[i - 1], s[i], had, fresh, written)]
  <2>1. ASSUME NEW i \in 1..Len(s)
        PROVE  StayStep(had, fresh, written)[<<f[i - 1], s[i]>>] = AfterStay(f[i - 1], s[i], had, fresh, written)
    BY <1>1, <1>2, StaySteps
  <2>2. \A i \in 0..Len(s) : (IF i = 0 THEN base ELSE StayStep(had, fresh, written)[<<f[i - 1], s[i]>>])
                             = IF i = 0 THEN base ELSE AfterStay(f[i - 1], s[i], had, fresh, written)
    BY <1>1, <2>1
  <2>3. [i \in 0..Len(s) |-> IF i = 0 THEN base ELSE StayStep(had, fresh, written)[<<f[i - 1], s[i]>>]]
        = [i \in 0..Len(s) |-> IF i = 0 THEN base ELSE AfterStay(f[i - 1], s[i], had, fresh, written)]
    BY <2>2, Zenon
  <2>4. QED
    BY <1>2, <2>3, Zenon DEF Goes
<1>4. F = [i \in 0..Len(s) |-> IF i = 0 THEN base ELSE AfterStay(F[i - 1], s[i], had, fresh, written)]
  <2>1. \E g : g = [i \in 0..Len(s) |-> IF i = 0 THEN base ELSE AfterStay(g[i - 1], s[i], had, fresh, written)]
    BY <1>3, Zenon
  <2>2. QED
    BY <2>1, Zenon
<1>5. Stays(had, fresh, written, base, s) = F[Len(s)]
  BY DEF Stays, Along
<1> HIDE DEF F
<1>6. F[0] = base /\ \A i \in 1..Len(s) : F[i - 1] \in Quiets => F[i] = StayStep(had, fresh, written)[<<F[i - 1], s[i]>>]
  BY <1>1, <1>4, StaySteps
<1>7. QED
  BY <1>5, <1>6, StaySteps, FoldedIs

LEMMA StayShape ==
  ASSUME NEW had, NEW fresh, NEW written, NEW base \in Quiets
  PROVE  /\ Stays(had, fresh, written, base, <<>>) = base
         /\ \A u \in Seq(Name) : Stays(had, fresh, written, base, u) \in Quiets
         /\ \A u \in Seq(Name), r \in Name :
              Stays(had, fresh, written, base, Append(u, r)) = AfterStay(Stays(had, fresh, written, base, u), r, had, fresh, written)
<1>1. Steps(StayStep(had, fresh, written), Quiets, Name) /\ <<>> \in Seq(Name)
  BY StaySteps
<1>2. Folded(StayStep(had, fresh, written), base, <<>>) = base
  BY <1>1, FoldedEmpty
<1>3. \A u \in Seq(Name) : Folded(StayStep(had, fresh, written), base, u) \in Quiets
  BY <1>1, FoldedIn
<1>4. \A u \in Seq(Name) : Stays(had, fresh, written, base, u) = Folded(StayStep(had, fresh, written), base, u)
  BY StayFolds
<1>5. ASSUME NEW u \in Seq(Name), NEW r \in Name
      PROVE  Stays(had, fresh, written, base, Append(u, r)) = AfterStay(Stays(had, fresh, written, base, u), r, had, fresh, written)
  <2>1. Append(u, r) \in Seq(Name)
    OBVIOUS
  <2>2. Folded(StayStep(had, fresh, written), base, Append(u, r)) = StayStep(had, fresh, written)[<<Folded(StayStep(had, fresh, written), base, u), r>>]
    BY <1>1, FoldedAppend
  <2>3. StayStep(had, fresh, written)[<<Folded(StayStep(had, fresh, written), base, u), r>>] = AfterStay(Folded(StayStep(had, fresh, written), base, u), r, had, fresh, written)
    BY <1>3, StaySteps
  <2>4. QED
    BY <1>4, <2>1, <2>2, <2>3
<1>6. QED
  BY <1>1, <1>2, <1>3, <1>4, <1>5

LEMMA StayAppend ==
  ASSUME NEW had, NEW fresh, NEW written, NEW base \in Quiets, NEW u \in Seq(Name), NEW n \in Name
  PROVE  Stays(had, fresh, written, base, Append(u, n))
         = AfterStay(Stays(had, fresh, written, base, u), n, had, fresh, written)
<1>1. Stays(had, fresh, written, base, <<>>) = base
  BY StayShape
<1>2. QED
  BY <1>1, StayShape

LeftStep(had, fresh) == [p \in Finds \X Name |-> Departure(p[1], p[2], had, fresh)]
Leaves(had, fresh, s, names) == Along(LAMBDA t, n : Departure(t, n, had, fresh), s, names)

LEMMA LeftSteps ==
  ASSUME NEW had \in Listings, NEW fresh \in Listings
  PROVE  /\ Steps(LeftStep(had, fresh), Finds, Name)
         /\ \A s \in Finds, r \in Name : LeftStep(had, fresh)[<<s, r>>] = Departure(s, r, had, fresh)
<1>1. \A s \in Finds, r \in Name : LeftStep(had, fresh)[<<s, r>>] = Departure(s, r, had, fresh)
  BY DEF LeftStep
<1>2. ASSUME NEW s \in Finds, NEW n \in Name PROVE Departure(s, n, had, fresh) \in Finds
  <2>1. s.recs \in Quiets /\ s.landed \subseteq Name /\ s.cookie \in Cookie /\ Bumped(s.cookie) \in Cookie
    BY BumpedCookie DEF Finds, NameSets
  <2>2. Append(s.recs, Plain("DELETE", n)) \in Quiets
    BY <2>1, InPlaceSaid DEF Quiets
  <2>3. \A m \in Name : s.recs \o Moved(n, m, Bumped(s.cookie)) \in Quiets
    <3>1. ASSUME NEW m \in Name PROVE s.recs \o Moved(n, m, Bumped(s.cookie)) \in Quiets
      <4>1. Moved(n, m, Bumped(s.cookie)) \in Quiets
        BY <2>1, MovedSaid
      <4>2. QED
        BY <2>1, <4>1 DEF Quiets
    <3>2. QED
      BY <3>1
  <2> DEFINE t == Departure(s, n, had, fresh)
  <2>4. ASSUME t = s PROVE t \in Finds
    BY <2>4
  <2>5. ASSUME t = Deleted(s, n) PROVE t \in Finds
    BY <2>1, <2>2, <2>5 DEF Finds, NameSets, Deleted
  <2>6. ASSUME NEW m \in Name, t = Renamed(s, n, m) PROVE t \in Finds
    BY <2>1, <2>3, <2>6 DEF Finds, NameSets, Renamed
  <2>7. t = s \/ t = Deleted(s, n) \/ \E m \in Name : t = Renamed(s, n, m)
    BY DepartureCases
  <2> HIDE DEF t
  <2>8. t \in Finds
    BY <2>4, <2>5, <2>6, <2>7
  <2>9. QED
    BY <2>8 DEF t
<1>3. QED
  BY <1>1, <1>2 DEF Steps

LEMMA LeftFolds ==
  ASSUME NEW had \in Listings, NEW fresh \in Listings, NEW base \in Finds, NEW s \in Seq(Name)
  PROVE  Leaves(had, fresh, base, s) = Folded(LeftStep(had, fresh), base, s)
<1> DEFINE F == CHOOSE g : g = [i \in 0..Len(s) |-> IF i = 0 THEN base ELSE Departure(g[i - 1], s[i], had, fresh)]
<1>1. Len(s) \in Nat /\ \A i \in 1..Len(s) : s[i] \in Name
  OBVIOUS
<1>2. PICK f : /\ \A i \in 0..Len(s) : f[i] \in Finds
               /\ Goes(f, LeftStep(had, fresh), base, s, Len(s))
  BY LeftSteps, FoldedBy
<1>3. f = [i \in 0..Len(s) |-> IF i = 0 THEN base ELSE Departure(f[i - 1], s[i], had, fresh)]
  <2>1. ASSUME NEW i \in 1..Len(s)
        PROVE  LeftStep(had, fresh)[<<f[i - 1], s[i]>>] = Departure(f[i - 1], s[i], had, fresh)
    BY <1>1, <1>2, LeftSteps
  <2>2. \A i \in 0..Len(s) : (IF i = 0 THEN base ELSE LeftStep(had, fresh)[<<f[i - 1], s[i]>>])
                             = IF i = 0 THEN base ELSE Departure(f[i - 1], s[i], had, fresh)
    BY <1>1, <2>1
  <2>3. [i \in 0..Len(s) |-> IF i = 0 THEN base ELSE LeftStep(had, fresh)[<<f[i - 1], s[i]>>]]
        = [i \in 0..Len(s) |-> IF i = 0 THEN base ELSE Departure(f[i - 1], s[i], had, fresh)]
    BY <2>2, Zenon
  <2>4. QED
    BY <1>2, <2>3, Zenon DEF Goes
<1>4. F = [i \in 0..Len(s) |-> IF i = 0 THEN base ELSE Departure(F[i - 1], s[i], had, fresh)]
  <2>1. \E g : g = [i \in 0..Len(s) |-> IF i = 0 THEN base ELSE Departure(g[i - 1], s[i], had, fresh)]
    BY <1>3, Zenon
  <2>2. QED
    BY <2>1, Zenon
<1>5. Leaves(had, fresh, base, s) = F[Len(s)]
  BY DEF Leaves, Along
<1> HIDE DEF F
<1>6. F[0] = base /\ \A i \in 1..Len(s) : F[i - 1] \in Finds => F[i] = LeftStep(had, fresh)[<<F[i - 1], s[i]>>]
  BY <1>1, <1>4, LeftSteps
<1>7. QED
  BY <1>5, <1>6, LeftSteps, FoldedIs

LEMMA LeftShape ==
  ASSUME NEW had \in Listings, NEW fresh \in Listings, NEW base \in Finds
  PROVE  /\ Leaves(had, fresh, base, <<>>) = base
         /\ \A u \in Seq(Name) : Leaves(had, fresh, base, u) \in Finds
         /\ \A u \in Seq(Name), r \in Name :
              Leaves(had, fresh, base, Append(u, r)) = Departure(Leaves(had, fresh, base, u), r, had, fresh)
<1>1. Steps(LeftStep(had, fresh), Finds, Name) /\ <<>> \in Seq(Name)
  BY LeftSteps
<1>2. Folded(LeftStep(had, fresh), base, <<>>) = base
  BY <1>1, FoldedEmpty
<1>3. \A u \in Seq(Name) : Folded(LeftStep(had, fresh), base, u) \in Finds
  BY <1>1, FoldedIn
<1>4. \A u \in Seq(Name) : Leaves(had, fresh, base, u) = Folded(LeftStep(had, fresh), base, u)
  BY LeftFolds
<1>5. ASSUME NEW u \in Seq(Name), NEW r \in Name
      PROVE  Leaves(had, fresh, base, Append(u, r)) = Departure(Leaves(had, fresh, base, u), r, had, fresh)
  <2>1. Append(u, r) \in Seq(Name)
    OBVIOUS
  <2>2. Folded(LeftStep(had, fresh), base, Append(u, r)) = LeftStep(had, fresh)[<<Folded(LeftStep(had, fresh), base, u), r>>]
    BY <1>1, FoldedAppend
  <2>3. LeftStep(had, fresh)[<<Folded(LeftStep(had, fresh), base, u), r>>] = Departure(Folded(LeftStep(had, fresh), base, u), r, had, fresh)
    BY <1>3, LeftSteps
  <2>4. QED
    BY <1>4, <2>1, <2>2, <2>3
<1>6. QED
  BY <1>1, <1>2, <1>3, <1>4, <1>5


LEMMA ArrivalSaid ==
  ASSUME NEW had, NEW fresh, NEW landed, NEW n \in Name
  PROVE  Arrival(n, had, fresh, landed) \in Quiets
<1>1. Plain("CREATE", n) \in Quiet
  BY InPlaceSaid
<1>2. QED
  BY <1>1 DEF Arrival, Quiets

\* What a name adds that is new.
AfterArrival(s, n, had, fresh, landed) == s \o Arrival(n, had, fresh, landed)
ArriveStep(had, fresh, landed) == [p \in Quiets \X Name |-> AfterArrival(p[1], p[2], had, fresh, landed)]
Arrives(had, fresh, landed, s, names) == Along(LAMBDA t, n : AfterArrival(t, n, had, fresh, landed), s, names)

LEMMA ArriveSteps ==
  ASSUME NEW had, NEW fresh, NEW landed
  PROVE  /\ Steps(ArriveStep(had, fresh, landed), Quiets, Name)
         /\ \A s \in Quiets, r \in Name : ArriveStep(had, fresh, landed)[<<s, r>>] = AfterArrival(s, r, had, fresh, landed)
<1>1. \A s \in Quiets, r \in Name : ArriveStep(had, fresh, landed)[<<s, r>>] = AfterArrival(s, r, had, fresh, landed)
  BY DEF ArriveStep
<1>2. ASSUME NEW s \in Quiets, NEW n \in Name PROVE AfterArrival(s, n, had, fresh, landed) \in Quiets
  BY ArrivalSaid DEF Quiets, AfterArrival
<1>3. QED
  BY <1>1, <1>2 DEF Steps

LEMMA ArriveFolds ==
  ASSUME NEW had, NEW fresh, NEW landed, NEW base \in Quiets, NEW s \in Seq(Name)
  PROVE  Arrives(had, fresh, landed, base, s) = Folded(ArriveStep(had, fresh, landed), base, s)
<1> DEFINE F == CHOOSE g : g = [i \in 0..Len(s) |-> IF i = 0 THEN base ELSE AfterArrival(g[i - 1], s[i], had, fresh, landed)]
<1>1. Len(s) \in Nat /\ \A i \in 1..Len(s) : s[i] \in Name
  OBVIOUS
<1>2. PICK f : /\ \A i \in 0..Len(s) : f[i] \in Quiets
               /\ Goes(f, ArriveStep(had, fresh, landed), base, s, Len(s))
  BY ArriveSteps, FoldedBy
<1>3. f = [i \in 0..Len(s) |-> IF i = 0 THEN base ELSE AfterArrival(f[i - 1], s[i], had, fresh, landed)]
  <2>1. ASSUME NEW i \in 1..Len(s)
        PROVE  ArriveStep(had, fresh, landed)[<<f[i - 1], s[i]>>] = AfterArrival(f[i - 1], s[i], had, fresh, landed)
    BY <1>1, <1>2, ArriveSteps
  <2>2. \A i \in 0..Len(s) : (IF i = 0 THEN base ELSE ArriveStep(had, fresh, landed)[<<f[i - 1], s[i]>>])
                             = IF i = 0 THEN base ELSE AfterArrival(f[i - 1], s[i], had, fresh, landed)
    BY <1>1, <2>1
  <2>3. [i \in 0..Len(s) |-> IF i = 0 THEN base ELSE ArriveStep(had, fresh, landed)[<<f[i - 1], s[i]>>]]
        = [i \in 0..Len(s) |-> IF i = 0 THEN base ELSE AfterArrival(f[i - 1], s[i], had, fresh, landed)]
    BY <2>2, Zenon
  <2>4. QED
    BY <1>2, <2>3, Zenon DEF Goes
<1>4. F = [i \in 0..Len(s) |-> IF i = 0 THEN base ELSE AfterArrival(F[i - 1], s[i], had, fresh, landed)]
  <2>1. \E g : g = [i \in 0..Len(s) |-> IF i = 0 THEN base ELSE AfterArrival(g[i - 1], s[i], had, fresh, landed)]
    BY <1>3, Zenon
  <2>2. QED
    BY <2>1, Zenon
<1>5. Arrives(had, fresh, landed, base, s) = F[Len(s)]
  BY DEF Arrives, Along
<1> HIDE DEF F
<1>6. F[0] = base /\ \A i \in 1..Len(s) : F[i - 1] \in Quiets => F[i] = ArriveStep(had, fresh, landed)[<<F[i - 1], s[i]>>]
  BY <1>1, <1>4, ArriveSteps
<1>7. QED
  BY <1>5, <1>6, ArriveSteps, FoldedIs

LEMMA ArriveShape ==
  ASSUME NEW had, NEW fresh, NEW landed, NEW base \in Quiets
  PROVE  /\ Arrives(had, fresh, landed, base, <<>>) = base
         /\ \A u \in Seq(Name) : Arrives(had, fresh, landed, base, u) \in Quiets
         /\ \A u \in Seq(Name), r \in Name :
              Arrives(had, fresh, landed, base, Append(u, r)) = AfterArrival(Arrives(had, fresh, landed, base, u), r, had, fresh, landed)
<1>1. Steps(ArriveStep(had, fresh, landed), Quiets, Name) /\ <<>> \in Seq(Name)
  BY ArriveSteps
<1>2. Folded(ArriveStep(had, fresh, landed), base, <<>>) = base
  BY <1>1, FoldedEmpty
<1>3. \A u \in Seq(Name) : Folded(ArriveStep(had, fresh, landed), base, u) \in Quiets
  BY <1>1, FoldedIn
<1>4. \A u \in Seq(Name) : Arrives(had, fresh, landed, base, u) = Folded(ArriveStep(had, fresh, landed), base, u)
  BY ArriveFolds
<1>5. ASSUME NEW u \in Seq(Name), NEW r \in Name
      PROVE  Arrives(had, fresh, landed, base, Append(u, r)) = AfterArrival(Arrives(had, fresh, landed, base, u), r, had, fresh, landed)
  <2>1. Append(u, r) \in Seq(Name)
    OBVIOUS
  <2>2. Folded(ArriveStep(had, fresh, landed), base, Append(u, r)) = ArriveStep(had, fresh, landed)[<<Folded(ArriveStep(had, fresh, landed), base, u), r>>]
    BY <1>1, FoldedAppend
  <2>3. ArriveStep(had, fresh, landed)[<<Folded(ArriveStep(had, fresh, landed), base, u), r>>] = AfterArrival(Folded(ArriveStep(had, fresh, landed), base, u), r, had, fresh, landed)
    BY <1>3, ArriveSteps
  <2>4. QED
    BY <1>4, <2>1, <2>2, <2>3
<1>6. QED
  BY <1>1, <1>2, <1>3, <1>4, <1>5

LEMMA ArriveAppend ==
  ASSUME NEW had, NEW fresh, NEW landed, NEW base \in Quiets, NEW u \in Seq(Name), NEW n \in Name
  PROVE  Arrives(had, fresh, landed, base, Append(u, n))
         = AfterArrival(Arrives(had, fresh, landed, base, u), n, had, fresh, landed)
<1>1. Arrives(had, fresh, landed, base, <<>>) = base
  BY ArriveShape
<1>2. QED
  BY <1>1, ArriveShape

LEMMA DifferencesIs ==
  ASSUME NEW had, NEW fresh, NEW written
  PROVE  LET left == Leaves(had, fresh, [recs |-> Stays(had, fresh, written, <<>>, Names),
                                         landed |-> {}, cookie |-> cookie], Names)
         IN Differences(had, fresh, written)
            = [recs |-> Arrives(had, fresh, left.landed, left.recs, Names), cookie |-> left.cookie]
  BY DEF Differences, Leaves, Stays, Arrives, Along, AfterStay, AfterArrival

LEMMA DifferencesSaid ==
  ASSUME NEW had \in Listings, NEW fresh \in Listings, NEW written, cookie \in Cookie
  PROVE  Differences(had, fresh, written) \in [recs : Quiets, cookie : Cookie]
<1> DEFINE stay == Stays(had, fresh, written, <<>>, Names)
           start == [recs |-> stay, landed |-> {}, cookie |-> cookie]
           left == Leaves(had, fresh, start, Names)
           new == Arrives(had, fresh, left.landed, left.recs, Names)
<1>1. Names \in Seq(Name)
  BY WatchAssumption
<1>2. stay \in Quiets
  <2>1. ASSUME NEW e \in Quiets PROVE Stays(had, fresh, written, e, Names) \in Quiets
    BY <1>1, StayShape
  <2>2. <<>> \in Quiets
    BY DEF Quiets
  <2>3. QED
    BY <2>1, <2>2
<1>3. start \in Finds
  BY <1>2 DEF Finds, NameSets
<1> HIDE DEF start
<1>4. left \in Finds
  BY <1>1, <1>3, LeftShape
<1> HIDE DEF left
<1>5. left.recs \in Quiets /\ left.cookie \in Cookie
  BY <1>4 DEF Finds
<1>6. new \in Quiets
  BY <1>1, <1>5, ArriveShape
<1>7. Differences(had, fresh, written) = [recs |-> new, cookie |-> left.cookie]
  BY DifferencesIs DEF left, start
<1>8. QED
  BY <1>5, <1>6, <1>7

-----------------------------------------------------------------------------
(***************************************************************************)
(* The invariants.  First the types, stronger than TypeOK where the later  *)
(* parts need it: what each phase of the caller's thread leaves empty.     *)
(***************************************************************************)
QGood == {s \in QSet : /\ s.qlen = Used(s.queue) /\ s.qlen <= QueueMax
                       /\ s.overflowed => s.gap = "told"
                       /\ s.gap # "untold"}

WatchType == IF arm = "vnode" THEN VWatch ELSE CWatch

WorldTypes ==
  /\ arm \in Arms /\ arm \in {"vnode", "changes"}
  /\ there \in BOOLEAN /\ dir \in Listings /\ changes \in 0..MaxChanges
TableTypes ==
  /\ paths \in Seq(Path) /\ asked \in 0..MaxWd /\ Len(paths) <= asked
  /\ pc = "adding" => Len(paths) < asked
  /\ Watched \subseteq 1..Len(paths)
  /\ \A wd \in Watched : watches[wd] \in WatchType /\ watches[wd].path = paths[wd]
StreamTypes ==
  /\ q \in QGood
  /\ cookie \in Cookie /\ open_cookie \in Cookie
  /\ view \in [Wd -> NameSets] /\ ended \subseteq Wd /\ silent \subseteq Wd
PhaseTypes ==
  /\ pc \in {"idle", "adding", "taking", "looking", "draining", "asking", "closed"}
  /\ IF pc = "adding" THEN adding \in VWatch ELSE adding = None
  /\ pc \in {"adding", "taking", "looking"} => arm = "vnode"
  /\ pc \in {"draining", "asking"} => arm = "changes"
  /\ DOMAIN taken \subseteq Watched
  /\ DOMAIN taken # {} => pc \in {"taking", "looking"}
  /\ look \in [left : Seq(Name), fresh : Listings]
  /\ pc \notin {"adding", "looking"} => look = NotLooking
  /\ pc = "closed" => Watched = {} /\ paths = <<>>
TypeInv == WorldTypes /\ TableTypes /\ StreamTypes /\ PhaseTypes

\* The records of a watch that is said to have ended where its subject ends.
Strict(wd) == arm = "vnode" \/ paths[wd] = "dir"

\* Where the records of a watch are in a queue, and that of its end.
NoneOf(queue, wd) == \A i \in 1..Len(queue) : queue[i].wd # wd
EndAt(queue, wd, i) == queue[i].wd = wd /\ queue[i].kind = "IGNORED"
HasEnd(queue, wd) == \E i \in 1..Len(queue) : EndAt(queue, wd, i)
EndLast(queue, wd) ==
  \A i, j \in 1..Len(queue) : EndAt(queue, wd, i) /\ queue[j].wd = wd => j <= i

\* No record is of a watch there never was; a watch that exists has not ended; of
\* one that has, no record is left; and every watch there was exists, or ended, or
\* lost records.
PlaceInv ==
  /\ \A i \in 1..Len(q.queue) : q.queue[i].wd \in 1..Len(paths) \cup {-1}
  /\ ended \subseteq 1..Len(paths)
  /\ \A wd \in 1..Len(paths) : Strict(wd) =>
       /\ wd \in Watched => wd \notin ended /\ ~HasEnd(q.queue, wd)
       /\ wd \in ended => NoneOf(q.queue, wd)
       /\ EndLast(q.queue, wd)
  /\ pc # "closed" =>
       \A wd \in 1..Len(paths) : wd \in Watched \/ wd \in q.lost \/ wd \in ended \/ wd \in silent \/ HasEnd(q.queue, wd)

\* A look that is under way, or over, and what it knows of the directory: no name
\* is missed unless a note says so.
ToLookAt == {look.left[i] : i \in 1..Len(look.left)}
EmptyWhenGone == ~there => dir = NoFiles
OfTheDir ==
  arm = "vnode" =>
    /\ \A wd \in Watched : IsDir(watches[wd]) => watches[wd].of = "dir"
    /\ pc = "adding" /\ IsDir(adding) => adding.of = "dir"
Unnoted(w) == ~w.dead /\ "write" \notin w.note
LookedAt ==
  \A wd \in DOMAIN taken : "looked" \in taken[wd] =>
    /\ pc = "looking" /\ MustLook(wd)
    /\ \A other \in DOMAIN taken : "looked" \in taken[other] => other = wd
    /\ Unnoted(watches[wd]) => \A n \in Name : n \in ToLookAt \/ look.fresh[n] = dir[n]
NothingPending(wd) == wd \in DOMAIN taken => "write" \notin taken[wd]
KidsUpToDate ==
  arm = "vnode" =>
    \A wd \in Watched :
      LET w == watches[wd]
      IN (IsDir(w) /\ Unnoted(w) /\ ~w.missed /\ dir # NoFiles /\ NothingPending(wd)) => w.kids = dir
LookInv == EmptyWhenGone /\ OfTheDir /\ LookedAt /\ KidsUpToDate

\* What is queued for a watch, or held for it, makes of the listing of its caller
\* what the arm last saw, or what is there; with no notification to be completed
\* none is held.
Listed(wd) ==
  LET w == watches[wd]
  IN IF arm = "vnode" THEN Listing(wd) = NamesOf(w.kids)
     ELSE (~w.dead /\ w.held # None /\ w.done # <<>>)
            => Replayed(Listing(wd), wd, AsRecords(wd, Held(w))) = NamesOf(dir)
Retellable(wd) ==
  /\ arm = "changes" /\ watches[wd].done = None => watches[wd].held = <<>>
  /\ wd \notin q.lost /\ IsDir(watches[wd]) => Listed(wd)
ListingInv == \A wd \in Watched : Retellable(wd)

\* The second half of a rename comes right after the first, with its cookie; and
\* what is heard of one is heard together, or the first half is the last record.
Half(r, wd, c) == r.wd = wd /\ r.kind = "MOVED_FROM" /\ r.cookie = c
PairsOf(queue, wd) ==
  \A i \in 2..Len(queue) :
    queue[i].wd = wd /\ queue[i].kind = "MOVED_TO" => Half(queue[i - 1], wd, queue[i].cookie)
PairsIn(s, wd) == wd \notin s.lost => PairsOf(s.queue, wd)
Waits(s, wd, c) == (wd \notin s.lost /\ s.queue # <<>>) => Half(s.queue[Len(s.queue)], wd, c)
Paired(said) == \A i \in 2..Len(said) : said[i][1] = "NEW_NAME" => said[i - 1][1] = "OLD_NAME"
NewFirst(said) == said # <<>> /\ said[1][1] = "NEW_NAME"
OldLast(said) == said # <<>> /\ said[Len(said)][1] = "OLD_NAME"
WellHeard(w) ==
  /\ w.done # None => Paired(w.done)
  /\ w.held # None => Paired(w.held)
  /\ (w.held # None /\ NewFirst(w.held)) => w.done # None /\ OldLast(w.done)
WellDone(wd) == (watches[wd].done # None /\ NewFirst(watches[wd].done)) => Waits(q, wd, open_cookie)
OnlyTheDir == \A i \in 1..Len(paths) : paths[i] = "dir"
PairInv ==
  /\ (arm = "vnode" \/ OnlyTheDir) => \A wd \in Wd : PairsIn(q, wd)
  /\ (arm = "changes" /\ OnlyTheDir) =>
       /\ \A a, b \in Watched : a = b
       /\ \A wd \in Watched : WellHeard(watches[wd]) /\ WellDone(wd)

-----------------------------------------------------------------------------
(***************************************************************************)
(* What each record keeps of a queue, all of them keep.                    *)
(***************************************************************************)
LEMMA EmitAllKeepsOf ==
  ASSUME NEW wd \in Wd, NEW K, K \subseteq QSet, NEW D, D \subseteq Said,
         \A s \in K, r \in D : EmitMasked(s, wd, r) \in K,
         NEW s \in K, NEW recs \in Seq(D)
  PROVE  EmitAll(s, wd, recs) \in K
<1>1. Steps(EmitStep(wd), K, D)
  <2>1. ASSUME NEW t \in K, NEW r \in D PROVE EmitStep(wd)[<<t, r>>] \in K
    BY EmitSteps
  <2>2. QED
    BY <2>1 DEF Steps
<1>2. Folded(EmitStep(wd), s, recs) \in K
  BY <1>1, FoldedIn
<1>3. EmitAll(s, wd, recs) = Folded(EmitStep(wd), s, recs)
  <2>1. recs \in Seq(Said)
    OBVIOUS
  <2>2. QED
    BY <2>1, EmitAllFolds
<1>4. QED
  BY <1>2, <1>3

LEMMA EmitAllKeeps ==
  ASSUME NEW wd \in Wd, NEW K, K \subseteq QSet,
         \A s \in K, r \in Said : EmitMasked(s, wd, r) \in K,
         NEW s \in K, NEW recs \in Seq(Said)
  PROVE  EmitAll(s, wd, recs) \in K
<1>1. ASSUME NEW D, D = Said PROVE EmitAll(s, wd, recs) \in K
  <2>1. D \subseteq Said /\ recs \in Seq(D) /\ \A t \in K, r \in D : EmitMasked(t, wd, r) \in K
    BY <1>1
  <2>2. QED
    BY ONLY wd \in Wd, K \subseteq QSet, s \in K, <2>1, EmitAllKeepsOf
<1>2. QED
  BY <1>1

LEMMA TranslatedKeepsOf ==
  ASSUME NEW wd \in Wd, NEW K, K \subseteq QSet, NEW D, D \subseteq Said,
         \A s \in K, r \in D : EmitMasked(s, wd, r) \in K,
         \A t \in Emissions, n \in Notifications : RecsOf(wd, t, n) \in Seq(D),
         NEW s \in Emissions, s.q \in K, NEW said \in Seq(Notifications)
  PROVE  TranslatedAll(wd, s, said) \in Emissions /\ TranslatedAll(wd, s, said).q \in K
<1> DEFINE E == {t \in Emissions : t.q \in K}
<1>1. Steps(TranslatedStep(wd), E, Notifications)
  <2>1. ASSUME NEW t \in E, NEW n \in Notifications PROVE TranslatedStep(wd)[<<t, n>>] \in E
    <3>1. t \in Emissions /\ t.q \in K /\ RecsOf(wd, t, n) \in Seq(D)
      OBVIOUS
    <3>2. EmitAll(t.q, wd, RecsOf(wd, t, n)) \in K
      BY <3>1, EmitAllKeepsOf
    <3>3. Translated(t, wd, n) \in Emissions /\ TranslatedStep(wd)[<<t, n>>] = Translated(t, wd, n)
      BY <3>1, TranslatedSteps DEF Steps
    <3>4. Translated(t, wd, n).q \in K
      BY <3>1, <3>2, TranslatedIs
    <3>5. QED
      BY <3>3, <3>4
  <2>2. QED
    BY <2>1 DEF Steps
<1>2. s \in E
  OBVIOUS
<1> HIDE DEF E
<1>3. Folded(TranslatedStep(wd), s, said) \in E
  BY <1>1, <1>2, FoldedIn
<1>4. TranslatedAll(wd, s, said) = Folded(TranslatedStep(wd), s, said)
  BY TranslatedFolds
<1>5. QED
  BY <1>3, <1>4 DEF E

LEMMA TranslatedKeeps ==
  ASSUME NEW wd \in Wd, NEW K, K \subseteq QSet,
         \A s \in K, r \in Said : EmitMasked(s, wd, r) \in K,
         NEW s \in Emissions, s.q \in K, NEW said \in Seq(Notifications)
  PROVE  TranslatedAll(wd, s, said) \in Emissions /\ TranslatedAll(wd, s, said).q \in K
<1>1. \A t \in Emissions, n \in Notifications : RecsOf(wd, t, n) \in Seq(Said)
  BY RecsOfSaid
<1>2. ASSUME NEW D, D = Said
      PROVE  TranslatedAll(wd, s, said) \in Emissions /\ TranslatedAll(wd, s, said).q \in K
  <2>1. /\ D \subseteq Said /\ \A t \in K, r \in D : EmitMasked(t, wd, r) \in K
        /\ \A t \in Emissions, n \in Notifications : RecsOf(wd, t, n) \in Seq(D)
    BY <1>1, <1>2
  <2>2. QED
    BY ONLY wd \in Wd, K \subseteq QSet, s \in Emissions, s.q \in K, said \in Seq(Notifications),
       <2>1, TranslatedKeepsOf
<1>3. QED
  BY <1>2

LEMMA EndsKeeps ==
  ASSUME NEW gone, NEW K, K \subseteq QSet,
         \A s \in K, wd \in Wd : EndOf(gone, s, wd) \in K,
         NEW s \in K, NEW wds \in Seq(Wd)
  PROVE  EndsAll(gone, s, wds) \in K
<1>1. Steps(EndsStep(gone), K, Wd)
  <2>1. ASSUME NEW t \in K, NEW wd \in Wd PROVE EndsStep(gone)[<<t, wd>>] \in K
    BY EndsSteps
  <2>2. QED
    BY <2>1 DEF Steps
<1>2. Folded(EndsStep(gone), s, wds) \in K
  BY <1>1, FoldedIn
<1>3. EndsAll(gone, s, wds) = Folded(EndsStep(gone), s, wds)
  BY EndsFolds
<1>4. QED
  BY <1>2, <1>3

LEMMA EmitGood ==
  ASSUME NEW s \in QGood, NEW wd \in Wd, NEW r \in Said
  PROVE  Emit(s, wd, r) \in QGood /\ EmitMasked(s, wd, r) \in QGood
<1>1. /\ s \in QSet /\ s.queue \in Seq(Entry) /\ s.qlen = Used(s.queue) /\ s.qlen <= QueueMax
      /\ s.overflowed => s.gap = "told"
      /\ s.gap # "untold"
  BY DEF QGood, QSet
<1>2. /\ Queued(wd, r) \in Entry /\ Overflow \in Entry /\ Size(Queued(wd, r)) = Size(r)
  BY QueuedEntry
<1>3. /\ Used(Append(s.queue, Queued(wd, r))) = Used(s.queue) + Size(r)
      /\ Used(Append(s.queue, Overflow)) = Used(s.queue) + Size(Overflow)
  BY <1>1, <1>2, UsedShape
<1>4. ASSUME NEW t \in QSet,
             Through(s, t, wd, r) \/ Warned(s, t, wd) \/ Dropped(s, t, wd) \/ Hidden(s, t, wd, r)
      PROVE  t \in QGood
  <2>1. CASE Through(s, t, wd, r)
    BY <1>1, <1>3, <2>1 DEF Through, QGood
  <2>2. CASE Warned(s, t, wd)
    BY <1>1, <1>3, <2>2 DEF Warned, QGood
  <2>3. CASE Dropped(s, t, wd)
    BY <1>1, <2>3 DEF Dropped, QGood
  <2>4. CASE Hidden(s, t, wd, r)
    BY <1>1, <2>4 DEF Hidden, QGood
  <2>5. QED
    BY <1>4, <2>1, <2>2, <2>3, <2>4
<1>5. Emit(s, wd, r) \in QGood
  BY <1>1, <1>4, EmitCases
<1>6. EmitMasked(s, wd, r) \in QGood
  BY <1>1, <1>4, EmitMaskedCases
<1>7. QED
  BY <1>5, <1>6

LEMMA EmitAllGood ==
  ASSUME NEW s \in QGood, NEW wd \in Wd, NEW recs \in Seq(Said)
  PROVE  EmitAll(s, wd, recs) \in QGood
<1>1. QGood \subseteq QSet
  BY DEF QGood
<1>2. \A t \in QGood, r \in Said : EmitMasked(t, wd, r) \in QGood
  BY EmitGood
<1>3. QED
  BY <1>1, <1>2, EmitAllKeeps

LEMMA GoodLost ==
  ASSUME NEW s \in QGood, NEW wd \in Wd
  PROVE  [s EXCEPT !.lost = @ \cup {wd}] \in QGood
<1>1. s \in QSet
  BY DEF QGood
<1>2. [s EXCEPT !.lost = @ \cup {wd}] \in QSet
  BY <1>1 DEF QSet
<1>3. QED
  BY <1>1, <1>2 DEF QGood, QSet


-----------------------------------------------------------------------------
(***************************************************************************)
(* Types.                                                                  *)
(***************************************************************************)
LEMMA SmallFacts ==
  /\ NoFiles \in Listings /\ Starts \subseteq Listings
  /\ 0 \in Cookie /\ Empty \in QGood
  /\ NotLooking \in [left : Seq(Name), fresh : Listings]
  /\ Names \in Seq(Name) /\ Names # <<>> /\ Head(Names) \in Name
  /\ [wd \in Wd |-> {}] \in [Wd -> NameSets]
<1>1. NoFiles \in Listings
  BY DEF NoFiles, Listings
<1>2. Names \in Seq(Name) /\ Names # <<>> /\ Head(Names) \in Name
  BY WatchAssumption
<1>3. Starts \subseteq Listings
  <2>1. (CHOOSE i \in Ino : TRUE) \in Ino
    BY WatchAssumption
  <2>2. QED
    BY <1>1, <1>2, <2>1 DEF Starts, Listings
<1>4. 0 \in Cookie
  BY WatchAssumption DEF Cookie
<1>5. Empty \in QGood
  <2>1. <<>> \in Seq(Entry) /\ QueueMax \in Nat
    BY WatchAssumption
  <2>2. QED
    BY <2>1, UsedShape DEF Empty, QGood, QSet, Gaps
<1>6. NotLooking \in [left : Seq(Name), fresh : Listings]
  BY <1>1 DEF NotLooking
<1>7. [wd \in Wd |-> {}] \in [Wd -> NameSets]
  BY DEF NameSets
<1>8. QED
  BY <1>1, <1>2, <1>3, <1>4, <1>5, <1>6, <1>7

LEMMA InitTypes == Init => TypeInv
<1> SUFFICES ASSUME Init PROVE TypeInv
  OBVIOUS
<1>1. WorldTypes
  BY SmallFacts, WatchAssumption DEF Init, WorldTypes
<1>2. TableTypes
  BY WatchAssumption DEF Init, TableTypes, Watched
<1>3. StreamTypes
  BY SmallFacts DEF Init, StreamTypes
<1>4. PhaseTypes
  BY SmallFacts DEF Init, PhaseTypes, Watched
<1>5. QED
  BY <1>1, <1>2, <1>3, <1>4 DEF TypeInv

\* What a step of the world says of itself.
Notes == {"write", "rename", "delete"}

LEMMA NotedIn ==
  ASSUME NEW w \in VWatch, NEW notes, \A m \in notes : m[2] \in Notes
  PROVE  Noted(w, notes) \in VWatch /\ Noted(w, notes).path = w.path
<1> DEFINE mine == {n[2] : n \in {m \in notes : m[1] = w.of}}
<1>1. mine \subseteq Notes
  OBVIOUS
<1>2. Noted(w, notes) = [w EXCEPT !.note = @ \cup mine, !.dead = @ \/ "delete" \in mine]
  BY DEF Noted
<1>3. w.dead \in BOOLEAN /\ w.note \subseteq Notes
  BY DEF VWatch, Notes
<1>4. (w.dead \/ "delete" \in mine) \in BOOLEAN /\ w.note \cup mine \in SUBSET Notes
  BY <1>1, <1>3
<1> HIDE DEF mine
<1> DEFINE dead == w.dead \/ "delete" \in mine
           note == w.note \cup mine
<1>5. dead \in BOOLEAN /\ note \in SUBSET Notes
  BY <1>4
<1>6. Noted(w, notes) = [w EXCEPT !.note = note, !.dead = dead]
  BY <1>2
<1> HIDE DEF dead, note
<1>7. QED
  BY <1>5, <1>6 DEF VWatch, Notes

LEMMA HeardKeeps ==
  ASSUME NEW K, K \subseteq CWatch, \A w \in K, n \in Notifications : Hears(w, n) \in K,
         NEW w \in K, NEW said \in Seq(Notifications)
  PROVE  Heard(w, said) \in K
<1>1. Steps(HearStep, K, Notifications)
  <2>1. ASSUME NEW t \in K, NEW r \in Notifications PROVE HearStep[<<t, r>>] \in K
    BY HeardSteps
  <2>2. QED
    BY <2>1 DEF Steps
<1>2. Folded(HearStep, w, said) \in K
  BY <1>1, FoldedIn
<1>3. Heard(w, said) = Folded(HearStep, w, said)
  BY HeardFolds
<1>4. QED
  BY <1>2, <1>3

\* A watch hears without becoming another.
SameButHeard(w, v) == v.path = w.path /\ v.mask = w.mask /\ v.of = w.of /\ v.up = w.up /\ v.dead = w.dead

LEMMA HeardIn ==
  ASSUME NEW w \in CWatch, NEW said \in Seq(Notifications)
  PROVE  Heard(w, said) \in CWatch /\ SameButHeard(w, Heard(w, said))
<1> DEFINE K == {v \in CWatch : SameButHeard(w, v)}
<1>1. K \subseteq CWatch /\ w \in K
  BY DEF SameButHeard
<1>2. ASSUME NEW v \in K, NEW n \in Notifications PROVE Hears(v, n) \in K
  <2>1. Hears(v, n) \in CWatch
    BY HeardSteps DEF Steps
  <2>2. SameButHeard(v, Hears(v, n))
    BY DEF SameButHeard, Hears, CWatch
  <2>3. QED
    BY <2>1, <2>2 DEF SameButHeard
<1> HIDE DEF K
<1>3. Heard(w, said) \in K
  BY <1>1, <1>2, HeardKeeps
<1>4. QED
  BY <1>3 DEF K

LEMMA HappensTypes ==
  ASSUME TypeInv, NEW notes, NEW said \in Seq(Notifications), \A m \in notes : m[2] \in Notes,
         Happens(notes, said)
  PROVE  TableTypes' /\ StreamTypes' /\ PhaseTypes'
<1>1. /\ UNCHANGED <<arm, paths, asked, q, cookie, open_cookie, pc, taken, look, view, ended, silent>>
      /\ Watched' = Watched
      /\ adding' = IF adding = None THEN None
                   ELSE [adding EXCEPT !.dead = @ \/ <<adding.of, "delete">> \in notes]
      /\ \A wd \in Watched : watches'[wd] = IF watches[wd].dead THEN watches[wd]
                                            ELSE IF arm = "vnode" THEN Noted(watches[wd], notes)
                                            ELSE Heard(watches[wd], said)
  BY DEF Happens, cookies, caller, Watched
<1>2. TableTypes'
  <2>1. ASSUME NEW wd \in Watched
        PROVE  watches'[wd] \in WatchType' /\ watches'[wd].path = paths'[wd]
    <3>1. watches[wd] \in WatchType /\ watches[wd].path = paths[wd] /\ arm \in {"vnode", "changes"}
      BY DEF TypeInv, TableTypes, WorldTypes
    <3>2. CASE watches[wd].dead
      BY <1>1, <3>1, <3>2 DEF WatchType
    <3>3. CASE ~watches[wd].dead /\ arm = "vnode"
      BY <1>1, <3>1, <3>3, NotedIn DEF WatchType
    <3>4. CASE ~watches[wd].dead /\ arm = "changes"
      BY <1>1, <3>1, <3>4, HeardIn DEF WatchType, SameButHeard
    <3>5. QED
      BY <3>1, <3>2, <3>3, <3>4
  <2>2. QED
    BY <1>1, <2>1 DEF TypeInv, TableTypes
<1>3. StreamTypes'
  BY <1>1 DEF TypeInv, StreamTypes
<1>4. PhaseTypes'
  <2>1. IF pc = "adding" THEN adding' \in VWatch ELSE adding' = None
    BY <1>1 DEF TypeInv, PhaseTypes, VWatch
  <2>2. QED
    BY <1>1, <2>1 DEF TypeInv, PhaseTypes
<1>5. QED
  BY <1>2, <1>3, <1>4

\* The two lists a step of the world hands to whoever has a thing open or reads.
LEMMA WorldCases ==
  ASSUME TypeInv, World
  PROVE  /\ changes' = changes + 1 /\ changes < MaxChanges /\ pc # "closed"
         /\ \/ \E n \in Name, i \in Ino :
                 /\ there /\ dir[n] = None /\ UNCHANGED there /\ dir' = [dir EXCEPT ![n] = i]
                 /\ Happens({<<"dir", "write">>}, <<<<"ADDED", n>>>>)
            \/ \E n \in Name :
                 /\ dir[n] # None /\ UNCHANGED there /\ dir' = [dir EXCEPT ![n] = None]
                 /\ Happens({<<"dir", "write">>, <<dir[n], "delete">>}, <<<<"REMOVED", n>>>>)
            \/ \E n \in Name :
                 /\ dir[n] # None /\ UNCHANGED <<there, dir>>
                 /\ Happens({<<dir[n], "write">>}, <<<<"MODIFIED", n>>>>)
            \/ \E n, m \in Name :
                 /\ n # m /\ dir[n] # None /\ UNCHANGED there
                 /\ dir' = [dir EXCEPT ![n] = None, ![m] = dir[n]]
                 /\ Happens({<<"dir", "write">>, <<dir[n], "rename">>, <<dir[m], "delete">>},
                            (IF dir[m] = None THEN <<>> ELSE <<<<"REMOVED", m>>>>)
                              \o <<<<"OLD_NAME", n>>, <<"NEW_NAME", m>>>>)
            \/ /\ there /\ dir = NoFiles /\ there' = FALSE /\ UNCHANGED dir
               /\ \/ arm = "vnode" /\ Happens({<<"dir", "delete">>}, <<>>)
                  \/ /\ arm = "changes"
                     /\ \E up \in BOOLEAN :
                          watches' = [wd \in Watched |-> IF watches[wd].dead THEN watches[wd]
                                                         ELSE Removed(watches[wd], up)]
                     /\ UNCHANGED <<arm, paths, asked, q, cookies, pc, scanning, caller>>
            \/ /\ ~there /\ there' = TRUE
               /\ UNCHANGED <<arm, dir, watches, paths, asked, q, cookies, pc, scanning, caller>>
<1>1. arm \in {"vnode", "changes"}
  BY DEF TypeInv, WorldTypes
<1>2. changes' = changes + 1 /\ changes < MaxChanges /\ pc # "closed"
  BY DEF World
<1>3. ASSUME NEW up \in BOOLEAN, Rmdir(up)
      PROVE  /\ there /\ dir = NoFiles /\ there' = FALSE /\ UNCHANGED dir
             /\ \/ arm = "vnode" /\ Happens({<<"dir", "delete">>}, <<>>)
                \/ /\ arm = "changes"
                   /\ watches' = [wd \in Watched |-> IF watches[wd].dead THEN watches[wd]
                                                     ELSE Removed(watches[wd], up)]
                   /\ UNCHANGED <<arm, paths, asked, q, cookies, pc, scanning, caller>>
  BY <1>1, <1>3 DEF Rmdir
<1>4. QED
  BY <1>2, <1>3 DEF World, Create, Delete, Write, Rename, Mkdir

LEMMA SaidNotifications ==
  ASSUME NEW n \in Name, NEW m \in Name
  PROVE  /\ <<"ADDED", n>> \in Notifications /\ <<"REMOVED", n>> \in Notifications
         /\ <<"MODIFIED", n>> \in Notifications /\ <<"OLD_NAME", n>> \in Notifications
         /\ <<"NEW_NAME", n>> \in Notifications
         /\ <<<<"ADDED", n>>>> \in Seq(Notifications) /\ <<<<"REMOVED", n>>>> \in Seq(Notifications)
         /\ <<<<"MODIFIED", n>>>> \in Seq(Notifications) /\ <<>> \in Seq(Notifications)
         /\ <<>> \o <<<<"OLD_NAME", n>>, <<"NEW_NAME", m>>>> \in Seq(Notifications)
         /\ <<<<"REMOVED", m>>>> \o <<<<"OLD_NAME", n>>, <<"NEW_NAME", m>>>> \in Seq(Notifications)
<1> DEFINE N == Notifications
<1>1. ASSUME NEW x \in Name
      PROVE  <<"ADDED", x>> \in N /\ <<"REMOVED", x>> \in N /\ <<"MODIFIED", x>> \in N
             /\ <<"OLD_NAME", x>> \in N /\ <<"NEW_NAME", x>> \in N
  BY DEF Notifications
<1> HIDE DEF N
<1>2. \A a, b \in N : <<a>> \in Seq(N) /\ <<a, b>> \in Seq(N) /\ <<>> \in Seq(N)
  OBVIOUS
<1>3. \A s, t \in Seq(N) : s \o t \in Seq(N)
  OBVIOUS
<1>4. QED
  BY <1>1, <1>2, <1>3 DEF N

LEMMA WorldKeepsTypes ==
  ASSUME TypeInv, World
  PROVE  TypeInv'
<1>0. changes' \in 0..MaxChanges /\ UNCHANGED arm
  <2>1. changes' = changes + 1 /\ changes < MaxChanges
    BY DEF World
  <2>2. UNCHANGED arm
    BY DEF World, Create, Delete, Write, Rename, Rmdir, Mkdir, Happens
  <2>3. QED
    BY <2>1, <2>2, WatchAssumption DEF TypeInv, WorldTypes
<1>1. ASSUME NEW notes, NEW said \in Seq(Notifications), \A m \in notes : m[2] \in Notes,
             Happens(notes, said), there' \in BOOLEAN, dir' \in Listings
      PROVE  TypeInv'
  <2>1. TableTypes' /\ StreamTypes' /\ PhaseTypes'
    BY <1>1, HappensTypes
  <2>2. WorldTypes'
    BY <1>0, <1>1 DEF TypeInv, WorldTypes
  <2>3. QED
    BY <2>1, <2>2 DEF TypeInv
<1>2. dir \in Listings /\ there \in BOOLEAN
  BY DEF TypeInv, WorldTypes
<1>3. ASSUME NEW n \in Name, NEW i \in Ino,
             UNCHANGED there, dir' = [dir EXCEPT ![n] = i],
             Happens({<<"dir", "write">>}, <<<<"ADDED", n>>>>)
      PROVE  TypeInv'
  <2> DEFINE notes == {<<"dir", "write">>}
             said == <<<<"ADDED", n>>>>
  <2>1. dir' \in Listings
    BY <1>2, <1>3 DEF Listings
  <2>2. \A m \in notes : m[2] \in Notes
    BY DEF Notes
  <2>3. said \in Seq(Notifications)
    BY SaidNotifications, Zenon
  <2>4. Happens(notes, said)
    BY <1>3
  <2> HIDE DEF notes, said
  <2>5. QED
    BY <1>1, <1>2, <1>3, <2>1, <2>2, <2>3, <2>4
<1>4. ASSUME NEW n \in Name, UNCHANGED there, dir' = [dir EXCEPT ![n] = None],
             Happens({<<"dir", "write">>, <<dir[n], "delete">>}, <<<<"REMOVED", n>>>>)
      PROVE  TypeInv'
  <2> DEFINE notes == {<<"dir", "write">>, <<dir[n], "delete">>}
             said == <<<<"REMOVED", n>>>>
  <2>1. dir' \in Listings
    BY <1>2, <1>4 DEF Listings
  <2>2. \A m \in notes : m[2] \in Notes
    BY DEF Notes
  <2>3. said \in Seq(Notifications)
    BY SaidNotifications, Zenon
  <2>4. Happens(notes, said)
    BY <1>4
  <2> HIDE DEF notes, said
  <2>5. QED
    BY <1>1, <1>2, <1>4, <2>1, <2>2, <2>3, <2>4
<1>5. ASSUME NEW n \in Name, UNCHANGED <<there, dir>>,
             Happens({<<dir[n], "write">>}, <<<<"MODIFIED", n>>>>)
      PROVE  TypeInv'
  <2> DEFINE notes == {<<dir[n], "write">>}
             said == <<<<"MODIFIED", n>>>>
  <2>2. \A m \in notes : m[2] \in Notes
    BY DEF Notes
  <2>3. said \in Seq(Notifications)
    BY SaidNotifications, Zenon
  <2>4. Happens(notes, said)
    BY <1>5
  <2> HIDE DEF notes, said
  <2>5. QED
    BY <1>1, <1>2, <1>5, <2>2, <2>3, <2>4
<1>6. ASSUME NEW n \in Name, NEW m \in Name, UNCHANGED there,
             dir' = [dir EXCEPT ![n] = None, ![m] = dir[n]],
             Happens({<<"dir", "write">>, <<dir[n], "rename">>, <<dir[m], "delete">>},
                     (IF dir[m] = None THEN <<>> ELSE <<<<"REMOVED", m>>>>)
                       \o <<<<"OLD_NAME", n>>, <<"NEW_NAME", m>>>>)
      PROVE  TypeInv'
  <2> DEFINE notes == {<<"dir", "write">>, <<dir[n], "rename">>, <<dir[m], "delete">>}
             said == (IF dir[m] = None THEN <<>> ELSE <<<<"REMOVED", m>>>>)
                       \o <<<<"OLD_NAME", n>>, <<"NEW_NAME", m>>>>
  <2>1. dir' \in Listings
    BY <1>2, <1>6 DEF Listings
  <2>2. \A k \in notes : k[2] \in Notes
    BY DEF Notes
  <2>3. said \in Seq(Notifications)
    BY SaidNotifications, Zenon
  <2>4. Happens(notes, said)
    BY <1>6
  <2> HIDE DEF notes, said
  <2>5. QED
    BY <1>1, <1>2, <1>6, <2>1, <2>2, <2>3, <2>4
<1>7. CASE there' = FALSE /\ UNCHANGED dir /\ Happens({<<"dir", "delete">>}, <<>>)
  <2>1. \A m \in {<<"dir", "delete">>} : m[2] \in Notes
    BY DEF Notes
  <2>2. <<>> \in Seq(Notifications)
    OBVIOUS
  <2>3. QED
    BY <1>1, <1>2, <1>7, <2>1, <2>2
<1>8. ASSUME NEW up \in BOOLEAN, there' = FALSE, UNCHANGED dir, arm = "changes",
             watches' = [wd \in Watched |-> IF watches[wd].dead THEN watches[wd]
                                            ELSE Removed(watches[wd], up)],
             UNCHANGED <<arm, paths, asked, q, cookies, pc, scanning, caller>>
      PROVE  TypeInv'
  <2>1. WorldTypes'
    BY <1>0, <1>8 DEF TypeInv, WorldTypes
  <2>2. StreamTypes'
    BY <1>8 DEF TypeInv, StreamTypes, cookies, caller
  <2>3. Watched' = Watched
    BY <1>8 DEF Watched
  <2>4. PhaseTypes'
    BY <1>8, <2>3 DEF TypeInv, PhaseTypes, scanning
  <2>5. ASSUME NEW wd \in Watched
        PROVE  watches'[wd] \in WatchType' /\ watches'[wd].path = paths'[wd]
    <3>1. watches[wd] \in CWatch /\ watches[wd].path = paths[wd]
      BY <1>8 DEF TypeInv, TableTypes, WatchType
    <3>2. Removed(watches[wd], up) \in CWatch /\ Removed(watches[wd], up).path = paths[wd]
      <4>1. (IsDir(watches[wd]) /\ up) \in BOOLEAN
        BY DEF IsDir
      <4>2. QED
        BY <3>1, <4>1 DEF Removed, CWatch
    <3>3. QED
      BY <1>8, <3>1, <3>2 DEF WatchType
  <2>6. TableTypes'
    BY <1>8, <2>3, <2>5 DEF TypeInv, TableTypes
  <2>7. QED
    BY <2>1, <2>2, <2>4, <2>6 DEF TypeInv
<1>9. CASE there' = TRUE /\ UNCHANGED <<arm, dir, watches, paths, asked, q, cookies, pc, scanning, caller>>
  <2>1. Watched' = Watched /\ WatchType' = WatchType
    BY <1>9 DEF Watched, WatchType
  <2>2. WorldTypes'
    BY <1>0, <1>9 DEF TypeInv, WorldTypes
  <2>3. TableTypes' /\ StreamTypes' /\ PhaseTypes'
    BY <1>9, <2>1 DEF TypeInv, TableTypes, StreamTypes, PhaseTypes, cookies, scanning, caller
  <2>4. QED
    BY <2>2, <2>3 DEF TypeInv
<1>10. QED
  BY <1>3, <1>4, <1>5, <1>6, <1>7, <1>8, <1>9, WorldCases

\* What a read takes from the queue, and what it leaves.
Over(got) == {r.wd : r \in {s \in Range(got) : s.kind = "IGNORED"}}

LEMMA ReadShape ==
  ASSUME TypeInv, NEW len \in Buffers, ReadRecords(len)
  PROVE  \E n \in 1..Len(q.queue), got \in Seq(Entry), rest \in Seq(Entry) :
           /\ got = SubSeq(q.queue, 1, n) /\ rest = SubSeq(q.queue, n + 1, Len(q.queue))
           /\ q.queue = got \o rest /\ Used(rest) = q.qlen - Used(got)
           /\ q' = [q EXCEPT !.queue = rest, !.qlen = q.qlen - Used(got)]
           /\ ended' = ended \cup Over(got) /\ silent' = silent
           /\ view' = [wd \in Wd |-> IF wd \in Over(got) THEN {} ELSE Replayed(view[wd], wd, got)]
<1>1. q.queue \in Seq(Entry) /\ q.qlen = Used(q.queue)
  BY DEF TypeInv, StreamTypes, QGood, QSet
<1>2. PICK n \in 1..Len(q.queue) :
        /\ q' = [q EXCEPT !.queue = SubSeq(@, n + 1, Len(@)), !.qlen = @ - Used(SubSeq(q.queue, 1, n))]
        /\ ended' = ended \cup Over(SubSeq(q.queue, 1, n))
        /\ view' = [wd \in Wd |-> IF wd \in Over(SubSeq(q.queue, 1, n)) THEN {}
                                  ELSE Replayed(view[wd], wd, SubSeq(q.queue, 1, n))]
  BY DEF ReadRecords, Over
<1> DEFINE got == SubSeq(q.queue, 1, n)
           rest == SubSeq(q.queue, n + 1, Len(q.queue))
<1>5. n \in 1..Len(q.queue) /\ Len(q.queue) \in Nat /\ silent' = silent
  BY <1>1 DEF ReadRecords
<1>6. /\ ended' = ended \cup Over(got)
      /\ view' = [wd \in Wd |-> IF wd \in Over(got) THEN {} ELSE Replayed(view[wd], wd, got)]
  BY <1>2
<1>7. got \in Seq(Entry) /\ rest \in Seq(Entry) /\ q.queue = got \o rest
  BY <1>1, <1>5
<1>8. q' = [q EXCEPT !.queue = rest, !.qlen = q.qlen - Used(got)]
  BY <1>2
<1> HIDE DEF got, rest
<1>9. Used(rest) = q.qlen - Used(got)
  <2>1. Used(q.queue) = Used(got) + Used(rest)
    BY <1>7, UsedConcat
  <2>2. Used(got) \in Nat /\ Used(rest) \in Nat
    BY <1>7, UsedShape
  <2>3. QED
    BY <1>1, <2>1, <2>2
<1>10. QED
  BY <1>5, <1>6, <1>7, <1>8, <1>9 DEF got, rest

LEMMA ReadKeepsTypes ==
  ASSUME TypeInv, NEW len \in Buffers, ReadRecords(len)
  PROVE  TypeInv'
<1>1. PICK n \in 1..Len(q.queue), got \in Seq(Entry), rest \in Seq(Entry) :
           /\ q.queue = got \o rest /\ Used(rest) = q.qlen - Used(got)
           /\ q' = [q EXCEPT !.queue = rest, !.qlen = q.qlen - Used(got)]
           /\ ended' = ended \cup Over(got) /\ silent' = silent /\ got = SubSeq(q.queue, 1, n)
           /\ view' = [wd \in Wd |-> IF wd \in Over(got) THEN {} ELSE Replayed(view[wd], wd, got)]
  BY ReadShape
<1>2. UNCHANGED <<arm, files, watches, paths, asked, cookies, pc, scanning>>
  BY DEF ReadRecords
<1>3. q' \in QGood
  <2>1. q \in QSet /\ q.qlen <= QueueMax /\ q.qlen \in Nat /\ Used(got) \in Nat /\ Used(rest) \in Nat
    BY UsedShape DEF TypeInv, StreamTypes, QGood, QSet
  <2>2. Used(rest) <= QueueMax
    <3>1. \A a, b, c \in Nat : (a \in Nat /\ b \in Nat /\ c \in Nat /\ a <= c /\ a - b \in Nat) => a - b <= c
      OBVIOUS
    <3>2. QED
      BY <1>1, <2>1, <3>1, WatchAssumption
  <2>3. q' = [q EXCEPT !.queue = rest, !.qlen = Used(rest)]
    BY <1>1
  <2>4. QED
    BY <2>1, <2>2, <2>3 DEF TypeInv, StreamTypes, QGood, QSet
<1>4. view' \in [Wd -> NameSets]
  <2>1. ASSUME NEW wd \in Wd PROVE {} \in NameSets /\ Replayed(view[wd], wd, got) \in NameSets
    <3>1. view[wd] \in NameSets /\ {} \in NameSets
      BY DEF TypeInv, StreamTypes, NameSets
    <3>2. QED
      BY <3>1, ReplayedShape
  <2>2. QED
    BY <1>1, <2>1
<1>5. ended' \subseteq Wd
  <2>1. ASSUME NEW wd \in Over(got) PROVE wd \in Wd
    <3>1. PICK i \in DOMAIN got : got[i].kind = "IGNORED" /\ wd = got[i].wd
      BY DEF Over, Range
    <3>2. got[i] \in Entry
      OBVIOUS
    <3>3. QED
      BY <3>1, <3>2 DEF Entry
  <2>2. QED
    BY <1>1, <2>1 DEF TypeInv, StreamTypes
<1>6. Watched' = Watched /\ WatchType' = WatchType
  BY <1>2 DEF Watched, WatchType
<1>7. WorldTypes' /\ TableTypes' /\ PhaseTypes'
  BY <1>2, <1>6 DEF TypeInv, WorldTypes, TableTypes, PhaseTypes, files, scanning
<1>8. StreamTypes'
  BY <1>1, <1>2, <1>3, <1>4, <1>5 DEF TypeInv, StreamTypes, cookies
<1>9. QED
  BY <1>7, <1>8, SMTT(30) DEF TypeInv

LEMMA TableFacts ==
  ASSUME TypeInv
  PROVE  /\ Len(paths) \in Nat /\ asked \in Nat /\ MaxWd \in Nat
         /\ 1..Len(paths) \subseteq Wd /\ Watched \subseteq Wd /\ Watched \subseteq 1..Len(paths)
         /\ q \in QGood /\ q \in QSet /\ q.queue \in Seq(Entry)
         /\ \A wd \in Watched : watches[wd].path \in Path
         /\ (asked < MaxWd \/ pc = "adding") => Len(paths) + 1 <= asked + 1 /\ (pc = "adding" => Len(paths) + 1 \in Wd)
<1>1. Len(paths) \in Nat /\ asked \in 0..MaxWd /\ Len(paths) <= asked /\ MaxWd \in Nat
  BY WatchAssumption DEF TypeInv, TableTypes
<1>2. 1..Len(paths) \subseteq Wd /\ Watched \subseteq 1..Len(paths)
  BY <1>1 DEF TypeInv, TableTypes, Wd
<1>3. pc = "adding" => Len(paths) + 1 \in Wd
  BY <1>1 DEF TypeInv, TableTypes, Wd
<1>4. q \in QGood /\ q \in QSet /\ q.queue \in Seq(Entry)
  BY DEF TypeInv, StreamTypes, QGood, QSet
<1>5. ASSUME NEW wd \in Watched PROVE watches[wd].path \in Path
  BY DEF TypeInv, TableTypes, WatchType, VWatch, CWatch
<1>6. QED
  BY <1>1, <1>2, <1>3, <1>4, <1>5

\* Watches are forgotten, and their owners told.
LEMMA ForgetKeepsTypes ==
  ASSUME TypeInv, NEW wds, watches' = Without(wds), q' \in QGood,
         pc \in {"idle", "draining", "asking"}, pc' \in {"idle", pc},
         UNCHANGED <<arm, files, paths, asked, cookies, scanning, caller>>
  PROVE  TypeInv'
<1>1. Watched' = Watched \ wds /\ \A wd \in Watched' : watches'[wd] = watches[wd]
  BY DEF Without, Watched
<1>2. WorldTypes' /\ StreamTypes'
  BY DEF TypeInv, WorldTypes, StreamTypes, files, cookies, caller
<1>3. TableTypes'
  BY <1>1 DEF TypeInv, TableTypes, WatchType
<1>4. PhaseTypes'
  <2>1. DOMAIN taken = {}
    BY DEF TypeInv, PhaseTypes
  <2>2. QED
    BY <1>1, <2>1 DEF TypeInv, PhaseTypes, scanning
<1>5. QED
  BY <1>2, <1>3, <1>4 DEF TypeInv

LEMMA RmKeepsTypes ==
  ASSUME TypeInv, NEW wd \in Wd, RmWatch(wd)
  PROVE  TypeInv'
<1>1. Self("IGNORED") \in Said
  BY SelfSaid DEF AllKinds
<1>2. q' \in QGood
  BY <1>1, TableFacts, EmitGood DEF RmWatch
<1>3. QED
  BY <1>2, ForgetKeepsTypes DEF RmWatch

\* One watch changes, and nothing else of the table.
LEMMA NewMaskKeepsTypes ==
  ASSUME TypeInv, NEW wd \in Wd, NEW mask \in Masks, NewMask(wd, mask)
  PROVE  TypeInv'
<1>1. UNCHANGED <<arm, files, paths, q, cookies, pc, scanning, caller>> /\ pc = "idle"
      /\ asked' = asked + 1 /\ asked < MaxWd
  BY DEF NewMask
<1>2. watches' = [watches EXCEPT ![wd] = [watches[wd] EXCEPT !.mask = mask]] /\ wd \in Watched
  BY DEF NewMask
<1>3. Watched' = Watched
  BY <1>2 DEF Watched
<1>4. ASSUME NEW o \in Watched PROVE watches'[o] \in WatchType /\ watches'[o].path = paths[o]
  <2>1. watches[o] \in WatchType /\ watches[o].path = paths[o]
    BY DEF TypeInv, TableTypes
  <2>2. [watches[o] EXCEPT !.mask = mask] \in WatchType /\ [watches[o] EXCEPT !.mask = mask].path = paths[o]
    BY <2>1 DEF WatchType, VWatch, CWatch
  <2>3. watches'[o] = IF o = wd THEN [watches[o] EXCEPT !.mask = mask] ELSE watches[o]
    BY <1>2 DEF Watched
  <2>4. QED
    BY <2>1, <2>2, <2>3
<1>5. TableTypes'
  BY <1>1, <1>3, <1>4, TableFacts DEF TypeInv, TableTypes, WatchType
<1>6. WorldTypes' /\ StreamTypes' /\ PhaseTypes'
  BY <1>1, <1>3 DEF TypeInv, WorldTypes, StreamTypes, PhaseTypes, files, cookies, caller, scanning
<1>7. QED
  BY <1>5, <1>6 DEF TypeInv

LEMMA CloseKeepsTypes ==
  ASSUME TypeInv, Close
  PROVE  TypeInv'
<1>1. /\ UNCHANGED <<arm, there, dir, changes, adding, taken, look>> /\ pc = "idle" /\ pc' = "closed"
      /\ watches' = <<>> /\ paths' = <<>> /\ asked' = 0 /\ q' = Empty /\ cookie' = 0 /\ open_cookie' = 0
      /\ view' = [wd \in Wd |-> {}] /\ ended' = {} /\ silent' = {}
  BY DEF Close, files, scanning
<1>2. Watched' = {} /\ DOMAIN taken = {}
  <2>1. Watched' = {}
    BY <1>1 DEF Watched
  <2>2. DOMAIN taken = {}
    BY <1>1 DEF TypeInv, PhaseTypes
  <2>3. QED
    BY <2>1, <2>2
<1>3. WorldTypes'
  BY <1>1 DEF TypeInv, WorldTypes
<1>4. StreamTypes'
  BY <1>1, SmallFacts DEF StreamTypes
<1>5. TableTypes'
  <2>1. paths' \in Seq(Path) /\ Len(paths') = 0 /\ asked' \in 0..MaxWd
    BY <1>1, TableFacts
  <2>2. QED
    BY <1>1, <1>2, <2>1 DEF TableTypes
<1>6. PhaseTypes'
  BY <1>1, <1>2 DEF TypeInv, PhaseTypes
<1>7. QED
  BY <1>3, <1>4, <1>5, <1>6 DEF TypeInv

LEMMA Init1KeepsTypes ==
  ASSUME TypeInv, Init1
  PROVE  TypeInv'
<1>1. /\ UNCHANGED <<arm, watches, paths, asked, q, cookies, scanning, caller>> /\ pc = "closed" /\ pc' = "idle"
      /\ there' = TRUE /\ dir' \in Starts /\ changes' = 0
  BY DEF Init1
<1>2. Watched' = Watched /\ WatchType' = WatchType
  BY <1>1 DEF Watched, WatchType
<1>3. WorldTypes'
  BY <1>1, SmallFacts, WatchAssumption DEF TypeInv, WorldTypes
<1>4. StreamTypes'
  BY <1>1 DEF TypeInv, StreamTypes, cookies, caller
<1>5. TableTypes'
  BY <1>1, <1>2 DEF TypeInv, TableTypes
<1>6. PhaseTypes'
  BY <1>1, <1>2 DEF TypeInv, PhaseTypes, scanning
<1>7. QED
  BY <1>3, <1>4, <1>5, <1>6 DEF TypeInv

LEMMA AddLookKeepsTypes ==
  ASSUME TypeInv, NEW path \in Path, NEW mask \in Masks, AddLook(path, mask)
  PROVE  TypeInv'
<1>1. /\ UNCHANGED <<arm, there, dir, changes, watches, paths, q, cookie, open_cookie, taken, view, ended, silent>>
      /\ arm = "vnode" /\ pc = "idle" /\ pc' = "adding" /\ asked < MaxWd /\ asked' = asked + 1 /\ Exists(path)
      /\ adding' = [path |-> path, mask |-> mask, of |-> IF path = "dir" THEN path ELSE dir[path],
                    kids |-> NoFiles, note |-> {}, dead |-> FALSE, missed |-> FALSE]
      /\ look' = [left |-> IF path = "dir" THEN Names ELSE <<>>, fresh |-> NoFiles]
  BY DEF AddLook, CanAdd, files, cookies, caller, NotLooking
<1>2. adding' \in VWatch
  <2>1. path # "dir" => dir[path] \in Ino
    <3>1. path # "dir" => path \in Name /\ dir[path] # None
      BY <1>1, WatchAssumption DEF Exists
    <3>2. QED
      BY <3>1 DEF TypeInv, WorldTypes, Listings
  <2>2. NoFiles \in [Name -> Ino \cup {None}]
    BY SmallFacts DEF Listings
  <2>3. QED
    BY <1>1, <2>1, <2>2 DEF VWatch
<1>3. look' \in [left : Seq(Name), fresh : Listings]
  BY <1>1, SmallFacts
<1>4. Watched' = Watched /\ WatchType' = WatchType
  BY <1>1 DEF Watched, WatchType
<1>5. WorldTypes' /\ StreamTypes'
  BY <1>1 DEF TypeInv, WorldTypes, StreamTypes
<1>6. TableTypes'
  BY <1>1, <1>4, TableFacts DEF TypeInv, TableTypes
<1>7. PhaseTypes'
  BY <1>1, <1>2, <1>3, <1>4 DEF TypeInv, PhaseTypes
<1>8. QED
  BY <1>5, <1>6, <1>7 DEF TypeInv

LEMMA LookAtKeepsTypes ==
  ASSUME TypeInv, LookAt
  PROVE  TypeInv'
<1>1. /\ UNCHANGED <<arm, files, watches, paths, asked, q, cookies, pc, adding, taken, caller>>
      /\ look.left # <<>>
      /\ look' = [left |-> Tail(look.left),
                  fresh |-> [look.fresh EXCEPT ![Head(look.left)] = dir[Head(look.left)]]]
  BY DEF LookAt
<1>2. look.left \in Seq(Name) /\ look.fresh \in Listings /\ dir \in Listings
  BY DEF TypeInv, PhaseTypes, WorldTypes
<1>3. Head(look.left) \in Name /\ Tail(look.left) \in Seq(Name)
  BY <1>1, <1>2
<1>4. look' \in [left : Seq(Name), fresh : Listings]
  BY <1>1, <1>2, <1>3 DEF Listings
<1>5. pc \in {"adding", "looking"}
  BY <1>1 DEF TypeInv, PhaseTypes, NotLooking
<1>6. Watched' = Watched /\ WatchType' = WatchType
  BY <1>1 DEF Watched, WatchType
<1>7. WorldTypes' /\ StreamTypes' /\ TableTypes'
  BY <1>1, <1>6 DEF TypeInv, WorldTypes, StreamTypes, TableTypes, files, cookies, caller
<1>8. PhaseTypes'
  BY <1>1, <1>4, <1>5, <1>6 DEF TypeInv, PhaseTypes
<1>9. QED
  BY <1>7, <1>8 DEF TypeInv

\* The table grows by a watch.
LEMMA WithKeepsTable ==
  ASSUME TypeInv, NEW w \in WatchType, watches' = With(w), paths' = Append(paths, w.path), arm' = arm,
         asked' \in 0..MaxWd, Len(paths) < asked', pc' # "adding"
  PROVE  TableTypes' /\ Watched' = Watched \cup {Len(paths) + 1} /\ Len(paths') = Len(paths) + 1
         /\ Len(paths) + 1 \in Wd /\ \A wd \in Watched : watches'[wd] = watches[wd]
         /\ watches'[Len(paths) + 1] = w /\ Len(paths) + 1 \notin Watched
<1>1. w.path \in Path /\ paths \in Seq(Path) /\ Len(paths) \in Nat /\ Watched \subseteq 1..Len(paths)
  BY TableFacts DEF TypeInv, TableTypes, WatchType, VWatch, CWatch
<1>2. paths' \in Seq(Path) /\ Len(paths') = Len(paths) + 1 /\ paths'[Len(paths) + 1] = w.path
      /\ \A wd \in 1..Len(paths) : paths'[wd] = paths[wd]
  BY <1>1
<1>3. Len(paths) + 1 \in Wd /\ Len(paths) + 1 <= asked' /\ Len(paths) + 1 \notin Watched
  BY <1>1, TableFacts DEF Wd
<1>4. Watched' = Watched \cup {Len(paths) + 1}
      /\ \A wd \in Watched' : watches'[wd] = IF wd \in Watched THEN watches[wd] ELSE w
  BY DEF With, Watched
<1>5. WatchType' = WatchType
  BY DEF WatchType
<1>6. ASSUME NEW wd \in Watched' PROVE watches'[wd] \in WatchType' /\ watches'[wd].path = paths'[wd]
  <2>1. CASE wd \in Watched
    BY <1>1, <1>2, <1>4, <1>5, <2>1 DEF TypeInv, TableTypes
  <2>2. CASE wd \notin Watched
    BY <1>2, <1>4, <1>5, <2>2
  <2>3. QED
    BY <2>1, <2>2
<1>7. Watched' \subseteq 1..Len(paths')
  <2> DEFINE n == Len(paths)
  <2>1. n \in Nat /\ Len(paths') = n + 1 /\ Watched \subseteq 1..n /\ Watched' = Watched \cup {n + 1}
    BY <1>1, <1>2, <1>4
  <2> HIDE DEF n
  <2>2. QED
    BY <2>1
<1>8. TableTypes'
  BY <1>2, <1>3, <1>6, <1>7 DEF TableTypes
<1>9. QED
  BY <1>2, <1>3, <1>4, <1>8

LEMMA RegisterShape ==
  ASSUME TypeInv, Register
  PROVE  LET w == [adding EXCEPT !.kids = look.fresh, !.missed = adding.dead \/ (IsDir(adding) /\ look.fresh # dir)]
         IN /\ w \in VWatch /\ w \in WatchType /\ watches' = With(w) /\ paths' = Append(paths, w.path)
            /\ w.kids = look.fresh /\ w.path = adding.path /\ w.of = adding.of /\ w.note = adding.note
            /\ w.dead = adding.dead /\ w.missed = (adding.dead \/ (IsDir(adding) /\ look.fresh # dir))
            /\ view' = [view EXCEPT ![Len(paths) + 1] = NamesOf(look.fresh)]
            /\ adding \in VWatch /\ arm = "vnode"
<1> DEFINE missed == adding.dead \/ (IsDir(adding) /\ look.fresh # dir)
           w == [adding EXCEPT !.kids = look.fresh, !.missed = missed]
<1>1. adding \in VWatch /\ arm = "vnode" /\ look.fresh \in Listings
  BY DEF Register, TypeInv, PhaseTypes
<1>2. watches' = With(w) /\ paths' = Append(paths, adding.path)
      /\ view' = [view EXCEPT ![Len(paths) + 1] = NamesOf(look.fresh)]
  BY DEF Register
<1>3. missed \in BOOLEAN
  BY <1>1 DEF VWatch
<1> HIDE DEF missed
<1>4. /\ w \in VWatch /\ w.kids = look.fresh /\ w.path = adding.path /\ w.of = adding.of
      /\ w.note = adding.note /\ w.dead = adding.dead /\ w.missed = missed
  BY <1>1, <1>3 DEF VWatch, Listings
<1>5. w \in WatchType
  BY <1>1, <1>4 DEF WatchType
<1> HIDE DEF w
<1>6. QED
  BY <1>1, <1>2, <1>4, <1>5 DEF w, missed

LEMMA RegisterKeepsTypes ==
  ASSUME TypeInv, Register
  PROVE  TypeInv'
<1> DEFINE w == [adding EXCEPT !.kids = look.fresh, !.missed = adding.dead \/ (IsDir(adding) /\ look.fresh # dir)]
<1>1. w \in WatchType /\ watches' = With(w) /\ paths' = Append(paths, w.path) /\ arm = "vnode"
      /\ view' = [view EXCEPT ![Len(paths) + 1] = NamesOf(look.fresh)]
  BY RegisterShape
<1> HIDE DEF w
<1>2. /\ UNCHANGED <<arm, files, asked, q, cookies, taken, ended, silent>>
      /\ adding' = None /\ look' = NotLooking /\ pc = "adding" /\ pc' = "idle"
  BY DEF Register
<1>3. asked' \in 0..MaxWd /\ Len(paths) < asked'
  BY <1>2 DEF TypeInv, TableTypes
<1>4. TableTypes' /\ Watched' = Watched \cup {Len(paths) + 1}
  BY <1>1, <1>2, <1>3, WithKeepsTable
<1>5. WorldTypes'
  BY <1>2 DEF TypeInv, WorldTypes, files
<1>6. StreamTypes'
  <2>1. NamesOf(look.fresh) \in NameSets
    BY DEF NamesOf, NameSets
  <2>2. QED
    BY <1>1, <1>2, <2>1 DEF TypeInv, StreamTypes, cookies
<1>7. PhaseTypes'
  BY <1>2, <1>4, SmallFacts DEF TypeInv, PhaseTypes
<1>8. QED
  BY <1>4, <1>5, <1>6, <1>7 DEF TypeInv

LEMMA TakeKeepsTypes ==
  ASSUME TypeInv, Take
  PROVE  TypeInv'
<1>1. /\ UNCHANGED <<arm, files, paths, asked, q, cookies, adding, look, caller>>
      /\ arm = "vnode" /\ pc = "idle" /\ pc' = "taking"
      /\ watches' = [wd \in Watched |-> [watches[wd] EXCEPT !.note = {}]]
      /\ DOMAIN taken' \subseteq Watched
  BY DEF Take
<1>2. Watched' = Watched
  BY <1>1 DEF Watched
<1>3. ASSUME NEW wd \in Watched PROVE watches'[wd] \in WatchType' /\ watches'[wd].path = paths'[wd]
  <2>1. watches[wd] \in VWatch /\ watches[wd].path = paths[wd]
    BY <1>1 DEF TypeInv, TableTypes, WatchType
  <2>2. [watches[wd] EXCEPT !.note = {}] \in VWatch /\ [watches[wd] EXCEPT !.note = {}].path = paths[wd]
    BY <2>1 DEF VWatch
  <2>3. QED
    BY <1>1, <2>2 DEF WatchType
<1>4. TableTypes'
  BY <1>1, <1>2, <1>3 DEF TypeInv, TableTypes
<1>5. WorldTypes' /\ StreamTypes'
  BY <1>1 DEF TypeInv, WorldTypes, StreamTypes, files, cookies, caller
<1>6. PhaseTypes'
  BY <1>1, <1>2 DEF TypeInv, PhaseTypes
<1>7. QED
  BY <1>4, <1>5, <1>6 DEF TypeInv

LEMMA StartLookKeepsTypes ==
  ASSUME TypeInv, NEW wd \in Wd, StartLook(wd)
  PROVE  TypeInv'
<1>1. /\ UNCHANGED <<arm, files, watches, paths, asked, q, cookies, adding, caller>>
      /\ pc = "taking" /\ pc' = "looking"
      /\ look' = [left |-> IF there THEN Names ELSE <<>>, fresh |-> NoFiles]
      /\ DOMAIN taken' = DOMAIN taken
  BY DEF StartLook, NotLooking
<1>2. Watched' = Watched /\ WatchType' = WatchType
  BY <1>1 DEF Watched, WatchType
<1>3. look' \in [left : Seq(Name), fresh : Listings]
  BY <1>1, SmallFacts
<1>4. WorldTypes' /\ StreamTypes' /\ TableTypes'
  BY <1>1, <1>2 DEF TypeInv, WorldTypes, StreamTypes, TableTypes, files, cookies, caller
<1>5. PhaseTypes'
  BY <1>1, <1>2, <1>3 DEF TypeInv, PhaseTypes
<1>6. QED
  BY <1>4, <1>5 DEF TypeInv

\* What translate says of a watch: of the names, of the thing itself, and of its end.
SomeSeen == look.fresh # NoFiles
Diff(wd, written) == IF SomeSeen THEN Differences(watches[wd].kids, look.fresh, written)
                     ELSE [recs |-> <<>>, cookie |-> cookie]
OfItself(wd) ==
  (IF "write" \in taken[wd] /\ ~IsDir(watches[wd]) THEN <<Self("MODIFY")>> ELSE <<>>)
    \o (IF "rename" \in taken[wd] THEN <<Self("MOVE_SELF")>> ELSE <<>>)
OfEnd(wd) == IF "delete" \in taken[wd] THEN Gone ELSE <<>>
AllOf(wd, written) == (Diff(wd, written).recs \o OfItself(wd)) \o OfEnd(wd)

LEMMA SelfSeqs ==
  /\ <<Self("MODIFY")>> \in Quiets /\ <<Self("MOVE_SELF")>> \in Quiets /\ <<>> \in Quiets
  /\ Self("MODIFY") \in Quiet /\ Self("MOVE_SELF") \in Quiet /\ Self("CREATE") \in Quiet
  /\ Self("DELETE_SELF") \in Quiet /\ Self("IGNORED") \in Said
<1>1. {"MODIFY", "MOVE_SELF", "CREATE", "DELETE_SELF"} \subseteq Kinds /\ "IGNORED" \in AllKinds
  BY DEF AllKinds, Kinds, NameKinds
<1>2. /\ Self("MODIFY") \in Quiet /\ Self("MOVE_SELF") \in Quiet /\ Self("CREATE") \in Quiet
      /\ Self("DELETE_SELF") \in Quiet /\ Self("IGNORED") \in Said
  BY <1>1, SelfSaid, QuietSaid
<1>3. \A r \in Quiet : <<r>> \in Seq(Quiet)
  OBVIOUS
<1>4. <<>> \in Seq(Quiet)
  OBVIOUS
<1>5. QED
  BY <1>2, <1>3, <1>4 DEF Quiets

LEMMA ConcatSaids ==
  /\ \A s, t \in Quiets : s \o t \in Quiets
  /\ \A s, t \in Seq(Said) : s \o t \in Seq(Said)
  BY DEF Quiets

LEMMA TranslateShape ==
  ASSUME TypeInv, NEW wd \in Wd, NEW written, Translate(wd, written)
  PROVE  /\ arm = "vnode" /\ wd \in Watched /\ wd \in DOMAIN taken /\ watches[wd] \in VWatch
         /\ Diff(wd, written).recs \in Quiets /\ Diff(wd, written).cookie \in Cookie
         /\ OfItself(wd) \in Quiets /\ OfEnd(wd) \in Seq(Said) /\ AllOf(wd, written) \in Seq(Said)
         /\ Diff(wd, written).recs \o OfItself(wd) \in Quiets
         /\ q' = EmitAll(q, wd, AllOf(wd, written)) /\ cookie' = Diff(wd, written).cookie
         /\ watches' = IF "delete" \in taken[wd] THEN Without({wd})
                       ELSE [watches EXCEPT ![wd] = IF SomeSeen THEN Kept(watches[wd], look.fresh) ELSE watches[wd]]
<1>1. wd \in DOMAIN taken /\ pc \in {"taking", "looking"}
  BY DEF Translate
<1>2. arm = "vnode" /\ wd \in Watched /\ cookie \in Cookie /\ look.fresh \in Listings
  BY <1>1 DEF TypeInv, PhaseTypes, StreamTypes
<1>3. watches[wd] \in VWatch /\ watches[wd].kids \in Listings
  BY <1>2 DEF TypeInv, TableTypes, WatchType, VWatch, Listings
<1>4. Diff(wd, written).recs \in Quiets /\ Diff(wd, written).cookie \in Cookie
  <2>1. Differences(watches[wd].kids, look.fresh, written) \in [recs : Quiets, cookie : Cookie]
    BY <1>2, <1>3, DifferencesSaid
  <2>2. QED
    BY <1>2, <2>1, SelfSeqs DEF Diff
<1>5. OfItself(wd) \in Quiets /\ OfEnd(wd) \in Seq(Said)
  BY SelfSeqs, SelfSaid, QuietSaid, ConcatSaids DEF OfItself, OfEnd
<1>6. Diff(wd, written).recs \o OfItself(wd) \in Quiets /\ AllOf(wd, written) \in Seq(Said)
  BY <1>4, <1>5, QuietSaid, ConcatSaids DEF AllOf
<1>7. AllOf(wd, written)
      = Diff(wd, written).recs
                 \o (IF "write" \in taken[wd] /\ ~IsDir(watches[wd]) THEN <<Self("MODIFY")>> ELSE <<>>)
                 \o (IF "rename" \in taken[wd] THEN <<Self("MOVE_SELF")>> ELSE <<>>)
                 \o (IF "delete" \in taken[wd] THEN Gone ELSE <<>>)
  <2>1. \A a, b, c \in Quiets : a \o (b \o c) = (a \o b) \o c
    BY DEF Quiets
  <2>2. QED
    BY <1>4, <2>1, SelfSeqs, ZenonT(40) DEF AllOf, OfItself, OfEnd
<1>8. /\ q' = EmitAll(q, wd, AllOf(wd, written)) /\ cookie' = Diff(wd, written).cookie
      /\ watches' = IF "delete" \in taken[wd] THEN Without({wd})
                    ELSE [watches EXCEPT ![wd] = IF SomeSeen THEN Kept(watches[wd], look.fresh) ELSE watches[wd]]
  BY <1>7, Zenon DEF Translate, SomeSeen, Diff
<1>9. QED
  BY <1>1, <1>2, <1>3, <1>4, <1>5, <1>6, <1>8

LEMMA TranslateKeepsTypes ==
  ASSUME TypeInv, NEW wd \in Wd, NEW written, Translate(wd, written)
  PROVE  TypeInv'
<1>1. /\ arm = "vnode" /\ wd \in Watched /\ wd \in DOMAIN taken /\ watches[wd] \in VWatch
      /\ q' = EmitAll(q, wd, AllOf(wd, written)) /\ cookie' \in Cookie /\ AllOf(wd, written) \in Seq(Said)
      /\ watches' = IF "delete" \in taken[wd] THEN Without({wd})
                    ELSE [watches EXCEPT ![wd] = IF SomeSeen THEN Kept(watches[wd], look.fresh) ELSE watches[wd]]
  BY TranslateShape
<1>2. /\ UNCHANGED <<arm, files, paths, asked, open_cookie, adding, caller>>
      /\ look' = NotLooking /\ taken' = [w \in DOMAIN taken \ {wd} |-> taken[w]]
      /\ pc' = IF DOMAIN taken = {wd} THEN "idle" ELSE "taking"
      /\ pc \in {"taking", "looking"}
  BY DEF Translate
<1>3. q' \in QGood
  BY <1>1, TableFacts, EmitAllGood
<1>4. WorldTypes' /\ StreamTypes'
  BY <1>1, <1>2, <1>3 DEF TypeInv, WorldTypes, StreamTypes, files, caller
<1>5. Watched' = IF "delete" \in taken[wd] THEN Watched \ {wd} ELSE Watched
  BY <1>1 DEF Watched, Without
<1>6. ASSUME NEW o \in Watched' PROVE watches'[o] \in WatchType' /\ watches'[o].path = paths'[o]
  <2>1. o \in Watched /\ watches[o] \in VWatch /\ watches[o].path = paths[o]
    BY <1>1, <1>5 DEF TypeInv, TableTypes, WatchType
  <2>2. Kept(watches[o], look.fresh) \in VWatch /\ Kept(watches[o], look.fresh).path = paths[o]
    <3>1. look.fresh \in [Name -> Ino \cup {None}]
      BY DEF TypeInv, PhaseTypes, Listings
    <3>2. QED
      BY <2>1, <3>1 DEF Kept, VWatch
  <2>3. watches'[o] \in {watches[o], Kept(watches[o], look.fresh)}
    BY <1>1, <1>5, <2>1 DEF Watched, Without
  <2>4. QED
    BY <1>1, <1>2, <2>1, <2>2, <2>3 DEF WatchType
<1>7. TableTypes'
  BY <1>2, <1>5, <1>6 DEF TypeInv, TableTypes
<1>8. PhaseTypes'
  BY <1>1, <1>2, <1>5, SmallFacts DEF TypeInv, PhaseTypes
<1>9. QED
  BY <1>4, <1>7, <1>8 DEF TypeInv

LEMMA AddWatchKeepsTypes ==
  ASSUME TypeInv, NEW path \in Path, NEW mask \in Masks, AddWatch(path, mask)
  PROVE  TypeInv'
<1> DEFINE w == [path |-> path, mask |-> mask, of |-> "dir", done |-> None,
                 held |-> <<>>, up |-> FALSE, dead |-> FALSE]
<1>1. /\ watches' = With(w) /\ paths' = Append(paths, path)
      /\ view' = [view EXCEPT ![Len(paths) + 1] = IF path = "dir" THEN NamesOf(dir) ELSE {}]
      /\ UNCHANGED <<arm, files, q, cookies, pc, scanning, ended, silent>>
      /\ arm = "changes" /\ pc = "idle" /\ asked < MaxWd /\ asked' = asked + 1
  BY DEF AddWatch, CanAdd
<1>2. w \in WatchType /\ w.path = path
  <2>1. <<>> \in Seq(Notifications)
    OBVIOUS
  <2>2. QED
    BY <1>1, <2>1 DEF WatchType, CWatch
<1> HIDE DEF w
<1>3. asked' \in 0..MaxWd /\ Len(paths) < asked' /\ pc' # "adding"
  BY <1>1, TableFacts DEF TypeInv, TableTypes
<1>4. TableTypes' /\ Watched' = Watched \cup {Len(paths) + 1}
  BY <1>1, <1>2, <1>3, WithKeepsTable
<1>5. WorldTypes'
  BY <1>1 DEF TypeInv, WorldTypes, files
<1>6. StreamTypes'
  <2>1. NamesOf(dir) \in NameSets /\ {} \in NameSets
    BY DEF NamesOf, NameSets
  <2>2. QED
    BY <1>1, <2>1 DEF TypeInv, StreamTypes, cookies
<1>7. PhaseTypes'
  BY <1>1, <1>4 DEF TypeInv, PhaseTypes, scanning
<1>8. QED
  BY <1>4, <1>5, <1>6, <1>7 DEF TypeInv

LEMMA DrainKeepsTypes ==
  ASSUME TypeInv, Drain
  PROVE  TypeInv'
<1>1. /\ UNCHANGED <<arm, files, watches, paths, asked, q, cookies, scanning, caller>>
      /\ arm = "changes" /\ pc = "idle" /\ pc' = "draining"
  BY DEF Drain
<1>2. Watched' = Watched /\ WatchType' = WatchType
  BY <1>1 DEF Watched, WatchType
<1>3. WorldTypes' /\ StreamTypes' /\ TableTypes' /\ PhaseTypes'
  BY <1>1, <1>2 DEF TypeInv, WorldTypes, StreamTypes, TableTypes, PhaseTypes, files, cookies, scanning, caller
<1>4. QED
  BY <1>3 DEF TypeInv

LEMMA PortEmptyKeepsTypes ==
  ASSUME TypeInv, PortEmpty
  PROVE  TypeInv'
<1>1. /\ UNCHANGED <<arm, files, watches, paths, asked, q, cookies, scanning, caller>>
      /\ arm = "changes" /\ pc = "draining" /\ pc' = "asking"
  BY DEF PortEmpty, TypeInv, PhaseTypes
<1>2. Watched' = Watched /\ WatchType' = WatchType
  BY <1>1 DEF Watched, WatchType
<1>3. WorldTypes' /\ StreamTypes' /\ TableTypes' /\ PhaseTypes'
  BY <1>1, <1>2 DEF TypeInv, WorldTypes, StreamTypes, TableTypes, PhaseTypes, files, cookies, scanning, caller
<1>4. QED
  BY <1>3 DEF TypeInv

Stream == [q |-> q, cookie |-> cookie, open_cookie |-> open_cookie]

\* A completion ends the watch, or is translated.
Ended(wd) ==
  /\ q' = EmitAll(q, wd, Gone) /\ watches' = Without({wd}) /\ UNCHANGED cookies
Told(wd) ==
  LET s == TranslatedAll(wd, Stream, watches[wd].done)
  IN /\ q' = [s.q EXCEPT !.lost = IF watches[wd].done = <<>> THEN @ \cup {wd} ELSE @]
     /\ cookie' = s.cookie /\ open_cookie' = s.open_cookie
     /\ watches' = [watches EXCEPT ![wd] = Rearmed(@)]

LEMMA CompletionShape ==
  ASSUME TypeInv, NEW wd \in Wd, NEW resolves, Completion(wd, resolves)
  PROVE  /\ arm = "changes" /\ pc = "draining" /\ wd \in Watched /\ watches[wd] \in CWatch
         /\ watches[wd].done \in Seq(Notifications)
         /\ Stream \in Emissions /\ TranslatedAll(wd, Stream, watches[wd].done) \in Emissions
         /\ Ended(wd) \/ Told(wd)
         /\ UNCHANGED <<arm, files, paths, asked, pc, scanning, caller>>
<1>1. arm = "changes" /\ pc = "draining" /\ wd \in Watched /\ watches[wd].done # None
  BY DEF Completion, TypeInv, PhaseTypes
<1>2. watches[wd] \in CWatch
  BY <1>1 DEF TypeInv, TableTypes, WatchType
<1>3. watches[wd].done \in Seq(Notifications)
  BY <1>1, <1>2 DEF CWatch
<1>4. Stream \in Emissions
  BY TableFacts DEF Stream, Emissions, TypeInv, StreamTypes
<1>5. TranslatedAll(wd, Stream, watches[wd].done) \in Emissions
  BY <1>3, <1>4, TranslatedShape, SMTT(30)
<1>6. Ended(wd) \/ Told(wd)
  BY DEF Completion, Ended, Told, TranslatedAll, Stream, Along
<1>7. UNCHANGED <<arm, files, paths, asked, pc, scanning, caller>>
  BY DEF Completion
<1>8. QED
  BY <1>1, <1>2, <1>3, <1>4, <1>5, <1>6, <1>7

LEMMA RearmedIn ==
  ASSUME NEW w \in CWatch
  PROVE  Rearmed(w) \in CWatch /\ Rearmed(w).path = w.path
<1> DEFINE done == CASE w.dead \/ w.held = <<>> -> None
                     [] w.held = None -> <<>>
                     [] OTHER -> w.held
<1>1. <<>> \in Seq(Notifications) /\ w.held \in Seq(Notifications) \cup {None}
  BY DEF CWatch
<1>2. done \in Seq(Notifications) \cup {None}
  BY <1>1
<1>3. Rearmed(w) = [w EXCEPT !.done = done, !.held = <<>>]
  BY DEF Rearmed
<1> HIDE DEF done
<1>4. QED
  BY <1>1, <1>2, <1>3 DEF CWatch

LEMMA CompletionKeepsTypes ==
  ASSUME TypeInv, NEW wd \in Wd, NEW resolves, Completion(wd, resolves)
  PROVE  TypeInv'
<1>1. /\ arm = "changes" /\ pc = "draining" /\ wd \in Watched /\ watches[wd] \in CWatch
      /\ watches[wd].done \in Seq(Notifications)
      /\ Ended(wd) \/ Told(wd)
      /\ UNCHANGED <<arm, files, paths, asked, pc, scanning, caller>>
  BY CompletionShape
<1>2. CASE Ended(wd)
  <2>1. q' \in QGood
    BY <1>2, TableFacts, SelfSaid, EmitAllGood DEF Ended
  <2>2. QED
    BY <1>1, <1>2, <2>1, ForgetKeepsTypes DEF Ended
<1>3. CASE Told(wd)
  <2> DEFINE s == TranslatedAll(wd, Stream, watches[wd].done)
  <2>1. s \in Emissions /\ s.q \in QGood
    <3>1. QGood \subseteq QSet /\ \A t \in QGood, r \in Said : EmitMasked(t, wd, r) \in QGood
      BY EmitGood DEF QGood
    <3>2. Stream \in Emissions /\ Stream.q \in QGood
      BY CompletionShape, TableFacts DEF Stream
    <3>3. QED
      BY <1>1, <3>1, <3>2, TranslatedKeeps
  <2>2. /\ q' = [s.q EXCEPT !.lost = IF watches[wd].done = <<>> THEN @ \cup {wd} ELSE @]
        /\ cookie' = s.cookie /\ open_cookie' = s.open_cookie
        /\ watches' = [watches EXCEPT ![wd] = Rearmed(watches[wd])]
    BY <1>3 DEF Told
  <2> HIDE DEF s
  <2>3. q' \in QGood
    <3>1. [s.q EXCEPT !.lost = @ \cup {wd}] \in QGood
      BY <2>1, GoodLost
    <3>2. s.q = [s.q EXCEPT !.lost = @]
      BY <2>1 DEF QGood, QSet
    <3>3. QED
      BY <2>1, <2>2, <3>1, <3>2
  <2>4. cookie' \in Cookie /\ open_cookie' \in Cookie
    BY <2>1, <2>2 DEF Emissions
  <2>5. Watched' = Watched
    BY <2>2 DEF Watched
  <2>6. ASSUME NEW o \in Watched PROVE watches'[o] \in WatchType' /\ watches'[o].path = paths'[o]
    <3>1. watches[o] \in CWatch /\ watches[o].path = paths[o]
      BY <1>1 DEF TypeInv, TableTypes, WatchType
    <3>2. watches'[o] = IF o = wd THEN Rearmed(watches[o]) ELSE watches[o]
      BY <2>2 DEF Watched
    <3>3. QED
      BY <1>1, <3>1, <3>2, RearmedIn DEF WatchType
  <2>7. TableTypes'
    BY <1>1, <2>5, <2>6 DEF TypeInv, TableTypes
  <2>8. WorldTypes' /\ StreamTypes' /\ PhaseTypes'
    BY <1>1, <2>3, <2>4, <2>5 DEF TypeInv, WorldTypes, StreamTypes, PhaseTypes, files, caller, scanning
  <2>9. QED
    BY <2>7, <2>8 DEF TypeInv
<1>4. QED
  BY <1>1, <1>2, <1>3

LEMMA UpKeepsTypes ==
  ASSUME TypeInv, NEW wd \in Wd, UpCompletion(wd) \/ ReadFails(wd)
  PROVE  TypeInv'
<1>1. q' \in QGood
  BY TableFacts, SelfSaid, EmitAllGood DEF UpCompletion, ReadFails
<1>2. QED
  BY <1>1, ForgetKeepsTypes DEF UpCompletion, ReadFails

LEMMA UpFailsKeepsTypes ==
  ASSUME TypeInv, NEW wd \in Wd, UpFails(wd)
  PROVE  TypeInv'
<1>1. /\ UNCHANGED <<arm, files, paths, asked, q, cookies, pc, scanning, view, ended>>
      /\ watches' = Without({wd}) /\ silent' = silent \cup {wd} /\ pc = "draining"
  BY DEF UpFails
<1>2. Watched' = Watched \ {wd} /\ \A o \in Watched' : watches'[o] = watches[o]
  BY <1>1 DEF Without, Watched
<1>3. WorldTypes' /\ StreamTypes'
  BY <1>1 DEF TypeInv, WorldTypes, StreamTypes, files, cookies
<1>4. TableTypes'
  BY <1>1, <1>2 DEF TypeInv, TableTypes, WatchType
<1>5. PhaseTypes'
  <2>1. DOMAIN taken = {}
    BY <1>1 DEF TypeInv, PhaseTypes
  <2>2. QED
    BY <1>1, <1>2, <2>1 DEF TypeInv, PhaseTypes, scanning
<1>6. QED
  BY <1>3, <1>4, <1>5 DEF TypeInv

LEMMA UpMissesKeepsTypes ==
  ASSUME TypeInv, NEW wd \in Wd, UpMisses(wd)
  PROVE  TypeInv'
<1>1. /\ UNCHANGED <<arm, files, paths, asked, q, cookies, pc, scanning, caller>>
      /\ watches' = [watches EXCEPT ![wd] = [watches[wd] EXCEPT !.up = FALSE]] /\ arm = "changes"
  BY DEF UpMisses, TypeInv, PhaseTypes
<1>2. Watched' = Watched
  BY <1>1 DEF Watched
<1>3. ASSUME NEW o \in Watched PROVE watches'[o] \in WatchType' /\ watches'[o].path = paths'[o]
  <2>1. watches[o] \in CWatch /\ watches[o].path = paths[o]
    BY <1>1 DEF TypeInv, TableTypes, WatchType
  <2>2. watches'[o] = IF o = wd THEN [watches[o] EXCEPT !.up = FALSE] ELSE watches[o]
    BY <1>1 DEF Watched
  <2>3. [watches[o] EXCEPT !.up = FALSE] \in CWatch /\ [watches[o] EXCEPT !.up = FALSE].path = watches[o].path
    BY <2>1 DEF CWatch
  <2>4. QED
    BY <1>1, <2>1, <2>2, <2>3 DEF WatchType
<1>4. TableTypes'
  BY <1>1, <1>2, <1>3 DEF TypeInv, TableTypes
<1>5. WorldTypes' /\ StreamTypes' /\ PhaseTypes'
  BY <1>1, <1>2 DEF TypeInv, WorldTypes, StreamTypes, PhaseTypes, files, cookies, caller, scanning
<1>6. QED
  BY <1>4, <1>5 DEF TypeInv

\* What check_gone finds, and whom it asks in which order.
GoneNow == IF q.queue = <<>> THEN {wd \in Watched : IsGone(watches[wd])} ELSE {}
LastFirst == [i \in 1..Len(paths) |-> Len(paths) + 1 - i]

LEMMA CheckGoneShape ==
  ASSUME TypeInv, CheckGone
  PROVE  /\ LastFirst \in Seq(Wd) /\ Len(LastFirst) = Len(paths) /\ GoneNow \subseteq Watched /\ arm = "changes"
         /\ q' = EndsAll(GoneNow, q, LastFirst) /\ watches' = Without(GoneNow)
         /\ UNCHANGED <<arm, files, paths, asked, cookies, scanning, caller>> /\ pc = "asking" /\ pc' = "idle"
<1>1. Len(paths) \in Nat /\ 1..Len(paths) \subseteq Wd
  BY TableFacts
<1>2. LastFirst \in Seq(Wd) /\ Len(LastFirst) = Len(paths)
  <2> DEFINE n == Len(paths)
  <2>1. n \in Nat /\ \A i \in 1..n : n + 1 - i \in Wd
    BY <1>1
  <2> HIDE DEF n
  <2>2. [i \in 1..n |-> n + 1 - i] \in Seq(Wd) /\ Len([i \in 1..n |-> n + 1 - i]) = n
    BY <2>1
  <2>3. QED
    BY <2>2 DEF LastFirst, n
<1>3. q' = EndsAll(GoneNow, q, LastFirst)
  BY DEF CheckGone, EndsAll, EndOf, GoneNow, LastFirst, Along
<1>4. QED
  BY <1>2, <1>3 DEF CheckGone, GoneNow, TypeInv, PhaseTypes

LEMMA CheckGoneKeepsTypes ==
  ASSUME TypeInv, CheckGone
  PROVE  TypeInv'
<1>1. q' \in QGood
  <2>1. QGood \subseteq QSet
    BY DEF QGood
  <2>2. \A s \in QGood, wd \in Wd : EndOf(GoneNow, s, wd) \in QGood
    BY SelfSaid, EmitAllGood DEF EndOf
  <2>3. q \in QGood /\ LastFirst \in Seq(Wd)
    BY TableFacts, CheckGoneShape
  <2>4. EndsAll(GoneNow, q, LastFirst) \in QGood
    BY <2>1, <2>2, <2>3, EndsKeeps
  <2>5. QED
    BY <2>4, CheckGoneShape
<1>2. QED
  BY <1>1, CheckGoneShape, ForgetKeepsTypes

LEMMA NextKeepsTypes ==
  ASSUME TypeInv, [Next]_vars
  PROVE  TypeInv'
<1>1. CASE World
  BY <1>1, WorldKeepsTypes
<1>2. CASE Asks
  BY <1>2, RmKeepsTypes, NewMaskKeepsTypes, AddLookKeepsTypes, AddWatchKeepsTypes,
     CloseKeepsTypes, Init1KeepsTypes DEF Asks
<1>3. CASE Reads
  BY <1>3, ReadKeepsTypes, LookAtKeepsTypes, RegisterKeepsTypes, TakeKeepsTypes, StartLookKeepsTypes,
     TranslateKeepsTypes, DrainKeepsTypes, PortEmptyKeepsTypes, UpKeepsTypes, UpMissesKeepsTypes,
     UpFailsKeepsTypes, CompletionKeepsTypes, CheckGoneKeepsTypes DEF Reads
<1>4. CASE UNCHANGED vars
  <2>1. /\ UNCHANGED <<arm, there, dir, changes, watches, paths, asked, q, cookie, open_cookie, pc,
                       adding, taken, look, view, ended, silent>>
    BY <1>4 DEF vars, files, cookies, scanning, caller
  <2>2. Watched' = Watched /\ WatchType' = WatchType
    BY <2>1 DEF Watched, WatchType
  <2>3. WorldTypes' /\ TableTypes' /\ StreamTypes' /\ PhaseTypes'
    BY <2>1, <2>2 DEF TypeInv, WorldTypes, TableTypes, StreamTypes, PhaseTypes
  <2>4. QED
    BY <2>3 DEF TypeInv
<1>5. QED
  BY <1>1, <1>2, <1>3, <1>4 DEF Next

(***************************************************************************)
(* What the state is made of, in every phase of a call: nothing is under   *)
(* way that the phase does not have, a cleared instance has no watch       *)
(* (close, init1), and the kernel's part of a watch is that of its arm.    *)
(***************************************************************************)
THEOREM TypesHold == Spec => []TypeInv
<1>1. Init => TypeInv
  BY InitTypes
<1>2. TypeInv /\ [Next]_vars => TypeInv'
  BY NextKeepsTypes
<1>3. QED
  BY <1>1, <1>2, PTL DEF Spec

(***************************************************************************)
(* No more is ever queued than SLIPSTREAM_INOTIFY_QUEUE_MAX, what is       *)
(* counted is what is there, a read under way belongs to a watch that      *)
(* exists, and the rest is of its type (emit, forget, take_events).        *)
(***************************************************************************)
THEOREM TypeCorrect == Spec => []TypeOK
<1>1. TypeInv => TypeOK
  <2> SUFFICES ASSUME TypeInv PROVE TypeOK
    OBVIOUS
  <2>1. arm \in Arms /\ there \in BOOLEAN /\ dir \in [Name -> Ino \cup {None}] /\ changes \in 0..MaxChanges
    BY DEF TypeInv, WorldTypes, Listings
  <2>2. /\ Watched \subseteq 1..Len(paths) /\ paths \in Seq(Path) /\ Len(paths) <= asked /\ asked \in 0..MaxWd
        /\ \A wd \in Watched : watches[wd].path = paths[wd]
    BY DEF TypeInv, TableTypes
  <2>3. /\ q.qlen = Used(q.queue) /\ q.qlen <= QueueMax /\ q.lost \subseteq Wd
        /\ q.gap \in {"none", "told", "full", "untold"}
        /\ cookie \in 0..CookieWrap - 1 /\ open_cookie \in 0..CookieWrap - 1
        /\ view \in [Wd -> SUBSET Name] /\ ended \subseteq Wd /\ silent \subseteq Wd
    BY DEF TypeInv, StreamTypes, QGood, QSet, Gaps, Cookie, NameSets
  <2>4. /\ pc \in {"idle", "adding", "taking", "looking", "draining", "asking", "closed"}
        /\ DOMAIN taken \subseteq Watched /\ (adding # None => pc = "adding")
    BY DEF TypeInv, PhaseTypes
  <2>5. ASSUME NEW wd \in Watched
        PROVE  /\ arm = "vnode" => watches[wd].note \subseteq {"write", "rename", "delete"}
               /\ arm = "changes" =>
                    /\ watches[wd].done = None \/ watches[wd].done \in Seq(Notifications)
                    /\ watches[wd].held = None \/ watches[wd].held \in Seq(Notifications)
    <3>1. watches[wd] \in WatchType
      BY DEF TypeInv, TableTypes
    <3>2. CASE arm = "vnode"
      BY <3>1, <3>2 DEF WatchType, VWatch
    <3>3. CASE arm = "changes"
      BY <3>1, <3>3 DEF WatchType, CWatch
    <3>4. QED
      BY <3>2, <3>3
  <2>6. QED
    BY <2>1, <2>2, <2>3, <2>4, <2>5 DEF TypeOK
<1>2. QED
  BY <1>1, TypesHold, PTL

(***************************************************************************)
(* A loss is told by an overflow record after the last record that got     *)
(* through, unless the queue is full to the last byte: an overflow record  *)
(* told of and not followed by another record stands for all that is lost  *)
(* until one gets through (overflowed, in emit).                           *)
(***************************************************************************)
THEOREM LossTold == Spec => []LossIsTold
<1>1. TypeInv => LossIsTold
  BY DEF TypeInv, StreamTypes, QGood, LossIsTold
<1>2. QED
  BY <1>1, TypesHold, PTL


-----------------------------------------------------------------------------
(***************************************************************************)
(* Where records go.  A step appends to the queue, records of one watch    *)
(* and the overflow record only; of an end, if it tells of one, at the end.*)
(***************************************************************************)
Grows(s, t, wd) ==
  /\ Len(t.queue) >= Len(s.queue)
  /\ \A i \in 1..Len(s.queue) : t.queue[i] = s.queue[i]
  /\ \A i \in (Len(s.queue) + 1)..Len(t.queue) : t.queue[i].wd \in {wd, -1}
  /\ s.lost \subseteq t.lost /\ t.lost \subseteq s.lost \cup {wd}
Quietly(s, t) == \A i \in (Len(s.queue) + 1)..Len(t.queue) : t.queue[i].kind # "IGNORED"
ToEnd(s, t, wd) ==
  /\ \A i \in (Len(s.queue) + 1)..Len(t.queue) : t.queue[i].kind = "IGNORED" => i = Len(t.queue)
  /\ wd \in t.lost \/ HasEnd(t.queue, wd)

LEMMA AppendFacts ==
  ASSUME NEW D, NEW s \in Seq(D), NEW e \in D
  PROVE  /\ Len(s) \in Nat /\ Append(s, e) \in Seq(D) /\ Len(Append(s, e)) = Len(s) + 1
         /\ Append(s, e)[Len(s) + 1] = e /\ \A i \in 1..Len(s) : Append(s, e)[i] = s[i]
  OBVIOUS

\* What one record does to the queue: it, the overflow record or nothing is added.
LEMMA OneRecord ==
  ASSUME NEW s \in QSet, NEW t \in QSet, NEW wd \in Wd, NEW r \in Said,
         Through(s, t, wd, r) \/ Warned(s, t, wd) \/ Dropped(s, t, wd) \/ Hidden(s, t, wd, r)
  PROVE  /\ Grows(s, t, wd)
         /\ r.kind # "IGNORED" => Quietly(s, t)
         /\ r.kind = "IGNORED" => ToEnd(s, t, wd)
<1>1. s.queue \in Seq(Entry) /\ Len(s.queue) \in Nat
  BY DEF QSet
<1>2. Queued(wd, r) \in Entry /\ Overflow \in Entry /\ Queued(wd, r).wd = wd /\ Queued(wd, r).kind = r.kind
      /\ Overflow.wd = -1 /\ Overflow.kind = "Q_OVERFLOW"
  BY QueuedEntry DEF Queued, Overflow, Self, Rec
<1>3. ASSUME NEW e \in Entry, t.queue = Append(s.queue, e)
      PROVE  /\ Len(t.queue) = Len(s.queue) + 1 /\ t.queue[Len(s.queue) + 1] = e
             /\ \A i \in 1..Len(s.queue) : t.queue[i] = s.queue[i]
             /\ \A i \in (Len(s.queue) + 1)..Len(t.queue) : i = Len(s.queue) + 1 /\ i = Len(t.queue) /\ t.queue[i] = e
             /\ Len(t.queue) \in 1..Len(t.queue)
  <2>1. /\ Len(t.queue) = Len(s.queue) + 1 /\ t.queue[Len(s.queue) + 1] = e
        /\ \A i \in 1..Len(s.queue) : t.queue[i] = s.queue[i]
    BY <1>1, <1>3, AppendFacts
  <2> DEFINE n == Len(s.queue)
             m == Len(t.queue)
  <2>2. n \in Nat /\ m = n + 1
    BY <1>1, <2>1
  <2> HIDE DEF n, m
  <2>3. \A i \in (n + 1)..m : i = n + 1 /\ i = m
    BY <2>2
  <2>4. m \in 1..m
    BY <2>2
  <2>5. QED
    BY <2>1, <2>3, <2>4 DEF n, m
<1>4. CASE Through(s, t, wd, r)
  <2>1. t.queue = Append(s.queue, Queued(wd, r)) /\ t.lost = s.lost
    BY <1>4 DEF Through
  <2>2. QED
    BY <1>1, <1>2, <1>3, <2>1 DEF Grows, Quietly, ToEnd, HasEnd, EndAt
<1>5. CASE Warned(s, t, wd)
  <2>1. t.queue = Append(s.queue, Overflow) /\ t.lost = s.lost \cup {wd}
    BY <1>5 DEF Warned
  <2> HIDE DEF Overflow
  <2>2. QED
    BY <1>1, <1>2, <1>3, <2>1 DEF Grows, Quietly, ToEnd
<1>6. CASE Dropped(s, t, wd)
  BY <1>1, <1>6 DEF Dropped, Grows, Quietly, ToEnd
<1>7. CASE Hidden(s, t, wd, r)
  BY <1>1, <1>7 DEF Hidden, Grows, Quietly, ToEnd
<1>8. QED
  BY <1>4, <1>5, <1>6, <1>7

LEMMA GrowsOn ==
  ASSUME NEW s \in QSet, NEW t \in QSet, NEW u \in QSet, NEW wd, Grows(s, t, wd), Grows(t, u, wd)
  PROVE  /\ Grows(s, u, wd)
         /\ Quietly(s, t) /\ Quietly(t, u) => Quietly(s, u)
         /\ Quietly(s, t) /\ ToEnd(t, u, wd) => ToEnd(s, u, wd)
<1> DEFINE l == Len(s.queue)
           m == Len(t.queue)
           n == Len(u.queue)
<1>1. l \in Nat /\ m \in Nat /\ n \in Nat /\ m >= l /\ n >= m
  BY DEF QSet, Grows
<1> HIDE DEF l, m, n
<1>2. n >= l /\ \A i \in 1..l : i \in 1..m
  BY <1>1
<1>3. \A i \in (l + 1)..n : (i \in (l + 1)..m /\ i \in 1..m) \/ i \in (m + 1)..n
  BY <1>1
<1>4. \A i \in 1..l : u.queue[i] = s.queue[i]
  BY <1>2 DEF Grows, l, m
<1>5. \A i \in (l + 1)..m : i \in 1..m => u.queue[i] = t.queue[i]
  BY DEF Grows, m
<1>6. \A i \in (l + 1)..n : u.queue[i].wd \in {wd, -1}
  BY <1>3, <1>5 DEF Grows, l, m, n
<1>7. Grows(s, u, wd)
  BY <1>2, <1>4, <1>6 DEF Grows, l, m, n
<1>8. Quietly(s, t) /\ Quietly(t, u) => Quietly(s, u)
  BY <1>3, <1>5 DEF Quietly, l, m, n
<1>9. Quietly(s, t) /\ ToEnd(t, u, wd) => ToEnd(s, u, wd)
  BY <1>3, <1>5 DEF Quietly, ToEnd, l, m, n
<1>10. QED
  BY <1>7, <1>8, <1>9

LEMMA GrowsSame ==
  ASSUME NEW s \in QSet, NEW wd
  PROVE  Grows(s, s, wd) /\ Quietly(s, s)
<1>1. Len(s.queue) \in Nat
  BY DEF QSet
<1>2. QED
  BY <1>1 DEF Grows, Quietly

LEMMA EmitGrows ==
  ASSUME NEW s \in QSet, NEW wd \in Wd, NEW r \in Said
  PROVE  LET t == EmitMasked(s, wd, r)
         IN /\ t \in QSet /\ Grows(s, t, wd)
            /\ r.kind # "IGNORED" => Quietly(s, t)
            /\ r.kind = "IGNORED" => ToEnd(s, t, wd)
<1> DEFINE t == EmitMasked(s, wd, r)
<1>1. t \in QSet /\ (Through(s, t, wd, r) \/ Warned(s, t, wd) \/ Dropped(s, t, wd) \/ Hidden(s, t, wd, r))
  BY EmitMaskedCases
<1> HIDE DEF t
<1>2. QED
  BY <1>1, OneRecord DEF t

\* What all records of a watch do.
LEMMA AllGrow ==
  ASSUME NEW s \in QSet, NEW wd \in Wd, NEW recs \in Seq(Said)
  PROVE  EmitAll(s, wd, recs) \in QSet /\ Grows(s, EmitAll(s, wd, recs), wd)
<1> DEFINE K == {t \in QSet : Grows(s, t, wd)}
<1>1. K \subseteq QSet /\ s \in K
  BY GrowsSame
<1>2. ASSUME NEW t \in K, NEW r \in Said PROVE EmitMasked(t, wd, r) \in K
  <2>1. t \in QSet /\ Grows(s, t, wd)
    OBVIOUS
  <2>2. EmitMasked(t, wd, r) \in QSet /\ Grows(t, EmitMasked(t, wd, r), wd)
    BY <2>1, EmitGrows
  <2>3. QED
    BY <2>1, <2>2, GrowsOn
<1> HIDE DEF K
<1>3. EmitAll(s, wd, recs) \in K
  BY <1>1, <1>2, EmitAllKeeps
<1>4. QED
  BY <1>3 DEF K

QuietGrowth(s, wd) == {t \in QSet : Grows(s, t, wd) /\ Quietly(s, t)}

LEMMA QuietGrows ==
  ASSUME NEW s \in QSet, NEW wd \in Wd
  PROVE  /\ QuietGrowth(s, wd) \subseteq QSet /\ s \in QuietGrowth(s, wd)
         /\ \A t \in QuietGrowth(s, wd), r \in Quiet : EmitMasked(t, wd, r) \in QuietGrowth(s, wd)
<1>1. QuietGrowth(s, wd) \subseteq QSet /\ s \in QuietGrowth(s, wd)
  BY GrowsSame DEF QuietGrowth
<1>2. ASSUME NEW t \in QuietGrowth(s, wd), NEW r \in Quiet PROVE EmitMasked(t, wd, r) \in QuietGrowth(s, wd)
  <2>1. t \in QSet /\ Grows(s, t, wd) /\ Quietly(s, t) /\ r \in Said /\ r.kind # "IGNORED"
    BY DEF QuietGrowth, Quiet
  <2>2. EmitMasked(t, wd, r) \in QSet /\ Grows(t, EmitMasked(t, wd, r), wd) /\ Quietly(t, EmitMasked(t, wd, r))
    BY <2>1, EmitGrows
  <2>3. QED
    BY <2>1, <2>2, GrowsOn DEF QuietGrowth
<1>3. QED
  BY <1>1, <1>2

LEMMA AllQuietGrow ==
  ASSUME NEW s \in QSet, NEW wd \in Wd, NEW recs \in Quiets
  PROVE  /\ EmitAll(s, wd, recs) \in QSet /\ Grows(s, EmitAll(s, wd, recs), wd)
         /\ Quietly(s, EmitAll(s, wd, recs))
<1>1. recs \in Seq(Quiet) /\ Quiet \subseteq Said
  BY QuietSaid DEF Quiets
<1>2. EmitAll(s, wd, recs) \in QuietGrowth(s, wd)
  BY <1>1, QuietGrows, EmitAllKeepsOf
<1>3. QED
  BY <1>2 DEF QuietGrowth

LEMMA TwoMore ==
  ASSUME NEW D, NEW s \in Seq(D), NEW a \in D, NEW b \in D
  PROVE  s \o <<a, b>> = Append(Append(s, a), b) /\ Append(s, a) \in Seq(D)
  OBVIOUS

\* The end of a watch comes after all that is said of it.
LEMMA EndGrows ==
  ASSUME NEW s \in QSet, NEW wd \in Wd, NEW recs \in Quiets
  PROVE  LET t == EmitAll(s, wd, recs \o Gone)
         IN t \in QSet /\ Grows(s, t, wd) /\ ToEnd(s, t, wd)
<1> DEFINE d == Self("DELETE_SELF")
           e == Self("IGNORED")
           a == EmitAll(s, wd, recs)
           b == EmitMasked(a, wd, d)
           c == EmitMasked(b, wd, e)
<1>1. d \in Said /\ e \in Said /\ d.kind # "IGNORED" /\ e.kind = "IGNORED" /\ recs \in Seq(Said)
  BY SelfSeqs, QuietSaid DEF Self, Rec
<1>2. recs \o Gone = Append(Append(recs, d), e) /\ Append(recs, d) \in Seq(Said)
  <2> HIDE DEF d, e
  <2>1. recs \o <<d, e>> = Append(Append(recs, d), e) /\ Append(recs, d) \in Seq(Said)
    BY <1>1, TwoMore
  <2>2. QED
    BY <2>1 DEF Gone, d, e
<1> HIDE DEF d, e
<1>3. EmitAll(s, wd, Append(recs, d)) = b
  BY <1>1, EmitAllShape
<1>4. EmitAll(s, wd, recs \o Gone) = c
  <2> DEFINE more == Append(recs, d)
  <2>1. more \in Seq(Said) /\ recs \o Gone = Append(more, e) /\ EmitAll(s, wd, more) = b
    BY <1>2, <1>3
  <2> HIDE DEF more, b
  <2>2. EmitAll(s, wd, Append(more, e)) = EmitMasked(EmitAll(s, wd, more), wd, e)
    BY <1>1, <2>1, EmitAllShape
  <2>3. QED
    BY <2>1, <2>2
<1> HIDE DEF c, b, a
<1>5. a \in QSet /\ Grows(s, a, wd) /\ Quietly(s, a)
  BY AllQuietGrow DEF a
<1>6. b \in QSet /\ Grows(a, b, wd) /\ Quietly(a, b)
  BY <1>1, <1>5, EmitGrows DEF b
<1>7. c \in QSet /\ Grows(b, c, wd) /\ ToEnd(b, c, wd)
  BY <1>1, <1>6, EmitGrows DEF c
<1>8. Grows(s, b, wd) /\ Quietly(s, b)
  BY <1>5, <1>6, GrowsOn
<1>9. Grows(s, c, wd) /\ ToEnd(s, c, wd)
  BY <1>6, <1>7, <1>8, GrowsOn
<1>10. QED
  BY <1>4, <1>7, <1>9

LEMMA GoneGrows ==
  ASSUME NEW s \in QSet, NEW wd \in Wd
  PROVE  LET t == EmitAll(s, wd, Gone)
         IN t \in QSet /\ Grows(s, t, wd) /\ ToEnd(s, t, wd)
<1>1. <<>> \in Quiets /\ Gone \in Seq(Said)
  BY SelfSaid, SelfSeqs
<1>2. <<>> \o Gone = Gone
  <2>1. \A u \in Seq(Said) : <<>> \o u = u
    OBVIOUS
  <2>2. QED
    BY <1>1, <2>1
<1>3. ASSUME NEW e \in Quiets, e \o Gone = Gone
      PROVE  LET t == EmitAll(s, wd, Gone) IN t \in QSet /\ Grows(s, t, wd) /\ ToEnd(s, t, wd)
  BY <1>3, EndGrows
<1>4. QED
  BY <1>1, <1>2, <1>3

\* What growth by one watch leaves of another, or of itself.
LEMMA GrowthLeaves ==
  ASSUME NEW s \in QSet, NEW t \in QSet, NEW wd, Grows(s, t, wd), NEW o \in Wd
  PROVE  /\ HasEnd(s.queue, o) => HasEnd(t.queue, o)
         /\ (o # wd \/ Quietly(s, t)) => (HasEnd(t.queue, o) => HasEnd(s.queue, o))
         /\ o # wd => /\ NoneOf(s.queue, o) => NoneOf(t.queue, o)
                      /\ EndLast(s.queue, o) => EndLast(t.queue, o)
         /\ o \in s.lost => o \in t.lost
<1> DEFINE m == Len(s.queue)
           n == Len(t.queue)
<1>1. m \in Nat /\ n \in Nat /\ n >= m /\ o # -1
  BY DEF QSet, Grows, Wd
<1>2. (\A i \in 1..m : t.queue[i] = s.queue[i]) /\ (\A i \in (m + 1)..n : t.queue[i].wd \in {wd, -1})
  BY DEF Grows
<1> HIDE DEF m, n
<1>3. (\A i \in 1..m : i \in 1..n) /\ (\A i \in 1..n : i \in 1..m \/ i \in (m + 1)..n)
  BY <1>1
<1>4. HasEnd(s.queue, o) => HasEnd(t.queue, o)
  BY <1>2, <1>3 DEF HasEnd, EndAt, m, n
<1>5. (o # wd \/ Quietly(s, t)) => (HasEnd(t.queue, o) => HasEnd(s.queue, o))
  BY <1>1, <1>2, <1>3 DEF HasEnd, EndAt, Quietly, m, n
<1>6. o # wd => (NoneOf(s.queue, o) => NoneOf(t.queue, o))
  BY <1>1, <1>2, <1>3 DEF NoneOf, m, n
<1>7. o # wd => (EndLast(s.queue, o) => EndLast(t.queue, o))
  <2> SUFFICES ASSUME o # wd, EndLast(s.queue, o), NEW i \in 1..n, NEW j \in 1..n,
                      EndAt(t.queue, o, i), t.queue[j].wd = o
               PROVE  j <= i
    BY DEF EndLast, n
  <2>1. i \in 1..m /\ j \in 1..m
    BY <1>1, <1>2, <1>3 DEF EndAt
  <2>2. EndAt(s.queue, o, i) /\ s.queue[j].wd = o
    BY <1>2, <2>1 DEF EndAt
  <2>3. QED
    BY <2>1, <2>2 DEF EndLast, m
<1>8. o \in s.lost => o \in t.lost
  BY DEF Grows
<1>9. QED
  BY <1>4, <1>5, <1>6, <1>7, <1>8

\* The end of a watch that has told of none is the last record of it.
LEMMA EndIsLast ==
  ASSUME NEW s \in QSet, NEW t \in QSet, NEW wd, Grows(s, t, wd), NEW o \in Wd,
         ~HasEnd(s.queue, o), ToEnd(s, t, wd)
  PROVE  EndLast(t.queue, o)
<1> DEFINE m == Len(s.queue)
           n == Len(t.queue)
<1>1. m \in Nat /\ n \in Nat /\ n >= m
  BY DEF QSet, Grows
<1>2. \A i \in 1..m : t.queue[i] = s.queue[i]
  BY DEF Grows
<1>3. \A i \in (m + 1)..n : t.queue[i].kind = "IGNORED" => i = n
  BY DEF ToEnd
<1>4. \A i \in 1..m : ~(s.queue[i].wd = o /\ s.queue[i].kind = "IGNORED")
  BY DEF HasEnd, EndAt
<1> HIDE DEF m, n
<1>5. \A i \in 1..n : i \in 1..m \/ i \in (m + 1)..n
  BY <1>1
<1>6. ASSUME NEW i \in 1..n, t.queue[i].wd = o, t.queue[i].kind = "IGNORED" PROVE i = n
  BY <1>2, <1>3, <1>4, <1>5, <1>6
<1>7. ASSUME NEW i \in 1..n, NEW j \in 1..n, EndAt(t.queue, o, i) PROVE j <= i
  BY <1>1, <1>6, <1>7 DEF EndAt
<1>8. QED
  BY <1>7 DEF EndLast, n

\* Steps that say nothing, say nothing of an end, or say the end of the watch they forget.
LEMMA SameKeepsPlace ==
  ASSUME TypeInv, PlaceInv, UNCHANGED <<arm, paths, q, ended, silent>>, Watched' = Watched,
         pc = "closed" <=> pc' = "closed"
  PROVE  PlaceInv'
<1>1. \A wd : Strict(wd)' = Strict(wd)
  BY DEF Strict
<1>2. QED
  BY <1>1 DEF PlaceInv

LEMMA GrowthKeepsWds ==
  ASSUME TypeInv, PlaceInv, TypeInv', NEW wd \in 1..Len(paths), Grows(q, q', wd), UNCHANGED paths
  PROVE  \A i \in 1..Len(q'.queue) : q'.queue[i].wd \in 1..Len(paths') \cup {-1}
<1> DEFINE m == Len(q.queue)
           n == Len(q'.queue)
<1>1. m \in Nat /\ n \in Nat /\ q \in QSet /\ q' \in QSet
  BY DEF TypeInv, StreamTypes, QGood, QSet
<1> HIDE DEF m, n
<1>2. \A i \in 1..n : i \in 1..m \/ i \in (m + 1)..n
  BY <1>1
<1>3. QED
  BY <1>2 DEF PlaceInv, Grows, m, n

LEMMA QuietKeepsPlace ==
  ASSUME TypeInv, PlaceInv, TypeInv', UNCHANGED <<arm, paths, ended, silent>>, Watched' = Watched,
         NEW wd \in Watched, Grows(q, q', wd), Strict(wd) => Quietly(q, q'), pc # "closed"
  PROVE  PlaceInv'
<1>1. q \in QSet /\ q' \in QSet /\ 1..Len(paths) \subseteq Wd /\ wd \in 1..Len(paths)
  BY TableFacts DEF TypeInv, StreamTypes, QGood
<1>2. \A i \in 1..Len(q'.queue) : q'.queue[i].wd \in 1..Len(paths') \cup {-1}
  BY <1>1, GrowthKeepsWds
<1>3. ASSUME NEW o \in 1..Len(paths)
      PROVE  /\ Strict(o) =>
                  /\ o \in Watched => o \notin ended /\ ~HasEnd(q'.queue, o)
                  /\ o \in ended => NoneOf(q'.queue, o)
                  /\ EndLast(q'.queue, o)
             /\ o \in Watched \/ o \in q'.lost \/ o \in ended \/ o \in silent \/ HasEnd(q'.queue, o)
  <2>1. o \in Wd
    BY <1>1
  <2>2. o \in Watched \/ o \in q'.lost \/ o \in ended \/ o \in silent \/ HasEnd(q'.queue, o)
    BY <1>1, <2>1, GrowthLeaves DEF PlaceInv
  <2>3. CASE o # wd
    BY <1>1, <2>1, <2>2, <2>3, GrowthLeaves DEF PlaceInv
  <2>4. CASE o = wd
    <3>1. Strict(o) => o \notin ended /\ ~HasEnd(q'.queue, o)
      BY <1>1, <2>1, <2>4, GrowthLeaves DEF PlaceInv
    <3>2. ~HasEnd(q'.queue, o) => EndLast(q'.queue, o)
      BY DEF HasEnd, EndLast
    <3>3. QED
      BY <2>2, <3>1, <3>2
  <2>5. QED
    BY <2>3, <2>4
<1>4. \A o : Strict(o)' = Strict(o)
  BY DEF Strict
<1>5. ended' \subseteq 1..Len(paths')
  BY DEF PlaceInv
<1>6. QED
  BY <1>2, <1>3, <1>4, <1>5 DEF PlaceInv

LEMMA EndKeepsPlace ==
  ASSUME TypeInv, PlaceInv, TypeInv', UNCHANGED <<arm, paths, ended, silent>>,
         NEW wd \in Watched, Watched' = Watched \ {wd}, Grows(q, q', wd), ToEnd(q, q', wd), pc # "closed"
  PROVE  PlaceInv'
<1>1. q \in QSet /\ q' \in QSet /\ 1..Len(paths) \subseteq Wd /\ wd \in 1..Len(paths)
  BY TableFacts DEF TypeInv, StreamTypes, QGood
<1>2. \A i \in 1..Len(q'.queue) : q'.queue[i].wd \in 1..Len(paths') \cup {-1}
  BY <1>1, GrowthKeepsWds
<1>3. ASSUME NEW o \in 1..Len(paths)
      PROVE  /\ Strict(o) =>
                  /\ o \in Watched' => o \notin ended /\ ~HasEnd(q'.queue, o)
                  /\ o \in ended => NoneOf(q'.queue, o)
                  /\ EndLast(q'.queue, o)
             /\ o \in Watched' \/ o \in q'.lost \/ o \in ended \/ o \in silent \/ HasEnd(q'.queue, o)
  <2>1. o \in Wd
    BY <1>1
  <2>2. CASE o # wd
    BY <1>1, <2>1, <2>2, GrowthLeaves DEF PlaceInv
  <2>3. CASE o = wd
    <3>1. Strict(o) => o \notin ended /\ ~HasEnd(q.queue, o)
      BY <2>3 DEF PlaceInv
    <3>2. Strict(o) => EndLast(q'.queue, o)
      BY <1>1, <2>1, <3>1, EndIsLast
    <3>3. o \notin Watched' /\ (o \in q'.lost \/ HasEnd(q'.queue, o))
      BY <2>3 DEF ToEnd
    <3>4. QED
      BY <3>1, <3>2, <3>3
  <2>4. QED
    BY <2>2, <2>3
<1>4. \A o : Strict(o)' = Strict(o)
  BY DEF Strict
<1>5. ended' \subseteq 1..Len(paths')
  BY DEF PlaceInv
<1>6. QED
  BY <1>2, <1>3, <1>4, <1>5 DEF PlaceInv

\* A new watch has said nothing.
LEMMA AddKeepsPlace ==
  ASSUME TypeInv, PlaceInv, TypeInv', UNCHANGED <<arm, q, ended, silent>>, NEW path, paths' = Append(paths, path),
         Watched' = Watched \cup {Len(paths) + 1}, pc # "closed"
  PROVE  PlaceInv'
<1> DEFINE n == Len(paths)
<1>1. paths \in Seq(Path) /\ n \in Nat /\ paths' \in Seq(Path) /\ n + 1 # -1
  BY DEF TypeInv, TableTypes
<1>2. Len(paths') = n + 1 /\ \A i \in 1..n : paths'[i] = paths[i]
  BY <1>1
<1> HIDE DEF n
<1>3. /\ n + 1 \notin 1..n /\ 1..n \subseteq 1..(n + 1) /\ n + 1 \in 1..(n + 1)
      /\ \A o \in 1..(n + 1) : o \in 1..n \/ o = n + 1
  BY <1>1
<1>4. NoneOf(q.queue, n + 1) /\ n + 1 \notin ended
  BY <1>1, <1>3 DEF PlaceInv, NoneOf, n
<1>5. ~HasEnd(q.queue, n + 1) /\ EndLast(q.queue, n + 1)
  BY <1>4 DEF NoneOf, HasEnd, EndLast, EndAt
<1>6. \A o \in 1..n : Strict(o)' = Strict(o)
  BY <1>2 DEF Strict
<1>7. /\ \A i \in 1..Len(q'.queue) : q'.queue[i].wd \in 1..Len(paths') \cup {-1}
      /\ ended' \subseteq 1..Len(paths')
  BY <1>2, <1>3 DEF PlaceInv, n
<1>8. ASSUME NEW o \in 1..(n + 1)
      PROVE  /\ Strict(o)' =>
                  /\ o \in Watched' => o \notin ended /\ ~HasEnd(q.queue, o)
                  /\ o \in ended => NoneOf(q.queue, o)
                  /\ EndLast(q.queue, o)
             /\ o \in Watched' \/ o \in q.lost \/ o \in ended \/ o \in silent \/ HasEnd(q.queue, o)
  <2>1. CASE o = n + 1
    BY <1>4, <1>5, <2>1 DEF n
  <2>2. CASE o \in 1..n
    <3>1. o # n + 1
      BY <1>3, <2>2
    <3>2. QED
      BY <1>6, <2>2, <3>1 DEF PlaceInv, n
  <2>3. QED
    BY <1>3, <2>1, <2>2
<1>9. QED
  BY <1>2, <1>7, <1>8 DEF PlaceInv

\* Whoever reads the end of a watch has read all of it.
LEMMA ReadKeepsPlace ==
  ASSUME TypeInv, PlaceInv, TypeInv', NEW len \in Buffers, ReadRecords(len)
  PROVE  PlaceInv'
<1>1. PICK n \in 1..Len(q.queue), got \in Seq(Entry), rest \in Seq(Entry) :
           /\ got = SubSeq(q.queue, 1, n) /\ rest = SubSeq(q.queue, n + 1, Len(q.queue))
           /\ q' = [q EXCEPT !.queue = rest, !.qlen = q.qlen - Used(got)]
           /\ ended' = ended \cup Over(got) /\ silent' = silent
  BY ReadShape
<1>2. UNCHANGED <<arm, watches, paths, pc>> /\ pc = "idle"
  BY DEF ReadRecords
<1>3. q.queue \in Seq(Entry) /\ Len(q.queue) \in Nat /\ q \in QSet /\ n \in 1..Len(q.queue)
  BY TableFacts
<1>4. q'.queue = rest /\ q'.lost = q.lost
  BY <1>1, <1>3 DEF QSet
<1> DEFINE m == Len(q.queue)
           old == q.queue
<1>5. /\ Len(got) = n /\ \A i \in 1..n : got[i] = old[i]
      /\ Len(rest) = m - n /\ \A i \in 1..(m - n) : rest[i] = old[n + i]
  BY <1>1, <1>3, SMTT(30)
<1>6. m \in Nat /\ n \in 1..m /\ old \in Seq(Entry) /\ \A i \in 1..m : old[i] \in Entry
  BY <1>3
<1> HIDE DEF m, old
<1>7. /\ \A i \in 1..(m - n) : n + i \in 1..m
      /\ \A i \in 1..m : i \in 1..n \/ (i - n \in 1..(m - n) /\ n + (i - n) = i)
      /\ \A i \in 1..n : i \in 1..m
      /\ \A i \in 1..(m - n), j \in 1..n : ~(n + i <= j)
      /\ \A i, j \in 1..(m - n) : n + i <= n + j => i <= j
  BY <1>6
<1>0. \A i \in 1..Len(rest) : \E j \in 1..Len(old) : rest[i] = old[j]
  BY <1>5, <1>7 DEF m, old
<1>8. \A o : o \in Over(got) <=> \E i \in 1..n : EndAt(old, o, i)
  <2>1. DOMAIN got = 1..n
    BY <1>1, <1>5
  <2>2. QED
    BY <1>5, <2>1 DEF Over, Range, EndAt
<1>9. \A o \in Over(got) : o \in 1..Len(paths)
  <2> SUFFICES ASSUME NEW o \in Over(got) PROVE o \in 1..Len(paths)
    OBVIOUS
  <2>1. PICK i \in 1..n : EndAt(old, o, i)
    BY <1>8
  <2>2. old[i] \in Entry /\ old[i].wd = o /\ old[i].kind = "IGNORED" /\ i \in 1..m
    BY <1>6, <1>7, <2>1 DEF EndAt
  <2>3. o \in Wd /\ o # -1
    BY <2>2 DEF Entry, Wd
  <2>4. QED
    BY <2>2, <2>3 DEF PlaceInv, m, old
<1>10. \A i \in 1..(m - n) : rest[i].wd \in 1..Len(paths) \cup {-1}
  BY <1>5, <1>7 DEF PlaceInv, m, old
<1>11. ASSUME NEW o \in 1..Len(paths), Strict(o)
       PROVE  /\ o \in Watched => o \notin ended' /\ ~HasEnd(rest, o)
              /\ o \in ended' => NoneOf(rest, o)
              /\ EndLast(rest, o)
  <2>1. /\ o \in Watched => o \notin ended /\ ~HasEnd(old, o)
        /\ o \in ended => NoneOf(old, o)
        /\ EndLast(old, o)
    BY <1>11 DEF PlaceInv, old
  <2>2. HasEnd(rest, o) => HasEnd(old, o)
    BY ONLY <1>0 DEF HasEnd, EndAt
  <2>3. o \in Over(got) => HasEnd(old, o)
    BY <1>7, <1>8 DEF HasEnd, m, old
  <2>4. o \in ended => NoneOf(rest, o)
    BY ONLY <1>0, <2>1 DEF NoneOf
  <2>5. o \in Over(got) => NoneOf(rest, o)
    <3> SUFFICES ASSUME o \in Over(got), NEW j \in 1..(m - n), rest[j].wd = o PROVE FALSE
      BY <1>5 DEF NoneOf
    <3>1. PICK i \in 1..n : EndAt(old, o, i)
      BY <1>8
    <3>2. i \in 1..m /\ n + j \in 1..m /\ old[n + j].wd = o /\ ~(n + j <= i)
      BY <1>5, <1>7
    <3>3. QED
      BY <2>1, <3>1, <3>2 DEF EndLast, m, old
  <2>6. EndLast(rest, o)
    <3> SUFFICES ASSUME NEW i \in 1..(m - n), NEW j \in 1..(m - n), EndAt(rest, o, i), rest[j].wd = o
                 PROVE  j <= i
      BY <1>5 DEF EndLast
    <3>1. n + i \in 1..m /\ n + j \in 1..m /\ EndAt(old, o, n + i) /\ old[n + j].wd = o
      BY <1>5, <1>7 DEF EndAt
    <3>2. n + j <= n + i
      BY <2>1, <3>1 DEF EndLast, m, old
    <3>3. QED
      BY <1>7, <3>2
  <2>7. QED
    BY <1>1, <2>1, <2>2, <2>3, <2>4, <2>5, <2>6
<1>12. ASSUME NEW o \in 1..Len(paths)
       PROVE  o \in Watched \/ o \in q.lost \/ o \in ended' \/ o \in silent' \/ HasEnd(rest, o)
  <2>1. o \in Watched \/ o \in q.lost \/ o \in ended \/ o \in silent \/ HasEnd(old, o)
    BY <1>2 DEF PlaceInv, old
  <2>2. HasEnd(old, o) => o \in Over(got) \/ HasEnd(rest, o)
    <3> SUFFICES ASSUME NEW i \in 1..m, EndAt(old, o, i) PROVE o \in Over(got) \/ HasEnd(rest, o)
      BY DEF HasEnd, m, old
    <3>1. CASE i \in 1..n
      BY <1>8, <3>1
    <3>2. CASE i \notin 1..n
      <4>1. i - n \in 1..(m - n) /\ n + (i - n) = i
        BY <1>7, <3>2
      <4>2. rest[i - n] = old[i]
        BY <1>5, <4>1
      <4>3. EndAt(rest, o, i - n)
        BY <4>2 DEF EndAt
      <4>4. QED
        BY <1>5, <4>1, <4>3 DEF HasEnd
    <3>3. QED
      BY <3>1, <3>2
  <2>3. QED
    BY <1>1, <2>1, <2>2
<1>13. Watched' = Watched /\ \A o : Strict(o)' = Strict(o)
  BY <1>2 DEF Watched, Strict
<1>14. ended' \subseteq 1..Len(paths)
  BY <1>1, <1>9 DEF PlaceInv
<1>15. QED
  BY <1>2, <1>4, <1>5, <1>10, <1>11, <1>12, <1>13, <1>14 DEF PlaceInv

-----------------------------------------------------------------------------
(***************************************************************************)
(* check_gone: the ends of several watches at once, in an empty queue.     *)
(***************************************************************************)
Distinct(wds) == \A i, j \in 1..Len(wds) : wds[i] = wds[j] => i = j
Within(wds) == {wds[i] : i \in 1..Len(wds)}
EndsOf(gone, s, t, wds) ==
  /\ \A i \in 1..Len(t.queue) : t.queue[i].wd \in (gone \cap Within(wds)) \cup {-1}
  /\ \A wd \in gone \cap Within(wds) : wd \in t.lost \/ HasEnd(t.queue, wd)
  /\ \A wd \in Wd : EndLast(t.queue, wd)
  /\ s.lost \subseteq t.lost

LEMMA EndsGrow ==
  ASSUME NEW gone, NEW s \in QSet, s.queue = <<>>, NEW wds \in Seq(Wd), Distinct(wds)
  PROVE  EndsOf(gone, s, EndsAll(gone, s, wds), wds)
<1> DEFINE T == {u \in Seq(Wd) : Distinct(u) => EndsOf(gone, s, EndsAll(gone, s, u), u)}
<1>1. /\ EndsAll(gone, s, <<>>) = s
      /\ \A u \in Seq(Wd) : EndsAll(gone, s, u) \in QSet
      /\ \A u \in Seq(Wd), r \in Wd : EndsAll(gone, s, Append(u, r)) = EndOf(gone, EndsAll(gone, s, u), r)
  BY EndsShape
<1>2. <<>> \in T
  <2>1. Len(s.queue) = 0 /\ <<>> \in Seq(Wd) /\ Within(<<>>) = {}
    BY DEF Within
  <2>2. EndsOf(gone, s, s, <<>>)
    BY <2>1 DEF EndsOf, EndLast
  <2>3. QED
    BY <1>1, <2>1, <2>2
<1>3. ASSUME NEW u \in Seq(Wd), NEW wd \in Wd, u \in T PROVE Append(u, wd) \in T
  <2> DEFINE v == Append(u, wd)
             a == EndsAll(gone, s, u)
             b == EndsAll(gone, s, v)
  <2>1. v \in Seq(Wd) /\ Len(u) \in Nat /\ Len(v) = Len(u) + 1 /\ v[Len(u) + 1] = wd
        /\ \A i \in 1..Len(u) : v[i] = u[i]
    BY AppendFacts
  <2>2. SUFFICES ASSUME Distinct(v) PROVE EndsOf(gone, s, b, v)
    BY <2>1
  <2> DEFINE n == Len(u)
  <2>3. n \in Nat /\ Len(v) = n + 1 /\ v[n + 1] = wd /\ \A i \in 1..n : v[i] = u[i]
    BY <2>1
  <2>4. b = EndOf(gone, a, wd) /\ a \in QSet
    BY <1>1
  <2>5. (Distinct(u) => EndsOf(gone, s, a, u))
    BY <1>3
  <2> HIDE DEF v, a, b, n
  <2>6. n + 1 \in 1..(n + 1) /\ n + 1 \notin 1..n /\ (\A i \in 1..n : i \in 1..(n + 1))
        /\ \A i \in 1..(n + 1) : i \in 1..n \/ i = n + 1
    BY <2>3
  <2>7. Distinct(u)
    BY <2>2, <2>3, <2>6 DEF Distinct, n
  <2>8. Within(v) = Within(u) \cup {wd} /\ wd \notin Within(u)
    <3>1. Within(v) = Within(u) \cup {wd}
      BY <2>3, <2>6 DEF Within, n
    <3>2. wd \notin Within(u)
      BY <2>2, <2>3, <2>6 DEF Within, Distinct, n
    <3>3. QED
      BY <3>1, <3>2
  <2>9. EndsOf(gone, s, a, u)
    BY <2>5, <2>7
  <2>10. CASE wd \notin gone
    <3>1. b = a /\ gone \cap Within(v) = gone \cap Within(u)
      BY <2>4, <2>8, <2>10 DEF EndOf
    <3>2. QED
      BY <2>9, <3>1 DEF EndsOf
  <2>11. CASE wd \in gone
    <3>1. b \in QSet /\ Grows(a, b, wd) /\ ToEnd(a, b, wd)
      BY <2>4, <2>11, GoneGrows DEF EndOf
    <3>2. NoneOf(a.queue, wd)
      <4>1. wd # -1
        BY DEF Wd
      <4>2. QED
        BY <2>8, <2>9, <4>1 DEF EndsOf, NoneOf
    <3>3. ~HasEnd(a.queue, wd)
      BY <3>2 DEF NoneOf, HasEnd, EndAt
    <3>4. gone \cap Within(v) = (gone \cap Within(u)) \cup {wd}
      BY <2>8, <2>11
    <3>5. \A i \in 1..Len(b.queue) : b.queue[i].wd \in (gone \cap Within(v)) \cup {-1}
      <4> DEFINE k == Len(a.queue)
                 l == Len(b.queue)
      <4>1. k \in Nat /\ l \in Nat
        BY <2>4, <3>1 DEF QSet
      <4> HIDE DEF k, l
      <4>2. \A i \in 1..l : i \in 1..k \/ i \in (k + 1)..l
        BY <4>1
      <4>3. (\A i \in 1..k : b.queue[i] = a.queue[i]) /\ \A i \in (k + 1)..l : b.queue[i].wd \in {wd, -1}
        BY <3>1 DEF Grows, k, l
      <4>4. \A i \in 1..k : a.queue[i].wd \in (gone \cap Within(u)) \cup {-1}
        BY <2>9 DEF EndsOf, k
      <4>5. QED
        BY <3>4, <4>2, <4>3, <4>4 DEF l
    <3>6. \A o \in gone \cap Within(v) : o \in b.lost \/ HasEnd(b.queue, o)
      <4>1. ASSUME NEW o \in gone \cap Within(u) PROVE o \in b.lost \/ HasEnd(b.queue, o)
        <5>1. o \in Wd
          BY DEF Within
        <5>2. o \in a.lost \/ HasEnd(a.queue, o)
          BY <2>9 DEF EndsOf
        <5>3. QED
          BY <2>4, <3>1, <5>1, <5>2, GrowthLeaves
      <4>2. wd \in b.lost \/ HasEnd(b.queue, wd)
        BY <3>1 DEF ToEnd
      <4>3. QED
        BY <3>4, <4>1, <4>2
    <3>7. ASSUME NEW o \in Wd PROVE EndLast(b.queue, o)
      <4>1. CASE o = wd
        BY <2>4, <3>1, <3>3, <4>1, EndIsLast
      <4>2. CASE o # wd
        <5>1. EndLast(a.queue, o)
          BY <2>9 DEF EndsOf
        <5>2. QED
          BY <2>4, <3>1, <4>2, <5>1, GrowthLeaves
      <4>3. QED
        BY <4>1, <4>2
    <3>8. s.lost \subseteq b.lost
      BY <2>9, <3>1 DEF EndsOf, Grows
    <3>9. QED
      BY <3>5, <3>6, <3>7, <3>8 DEF EndsOf
  <2>12. QED
    BY <2>10, <2>11
<1> HIDE DEF T
<1>4. wds \in T
  BY <1>2, <1>3, SeqInduction
<1>5. QED
  BY <1>4 DEF T

LEMMA NoEnds ==
  ASSUME NEW s \in QSet, NEW wds \in Seq(Wd), NEW gone, gone = {}
  PROVE  EndsAll(gone, s, wds) = s
<1> DEFINE K == {s}
<1>1. K \subseteq QSet /\ s \in K
  OBVIOUS
<1>2. \A t \in K, wd \in Wd : EndOf(gone, t, wd) \in K
  BY DEF EndOf
<1> HIDE DEF K
<1>3. EndsAll(gone, s, wds) \in K
  BY <1>1, <1>2, EndsKeeps
<1>4. QED
  BY <1>3 DEF K

LEMMA LastFirstIs ==
  ASSUME TypeInv
  PROVE  Within(LastFirst) = 1..Len(paths) /\ Distinct(LastFirst)
<1> DEFINE n == Len(paths)
<1>1. n \in Nat /\ LastFirst = [i \in 1..n |-> n + 1 - i]
  BY TableFacts DEF LastFirst
<1> HIDE DEF n
<1>2. (\A i \in 1..n : LastFirst[i] = n + 1 - i) /\ Len(LastFirst) = n
  BY <1>1
<1>3. (\A i \in 1..n : n + 1 - i \in 1..n /\ n + 1 - (n + 1 - i) = i)
      /\ \A i, j \in 1..n : n + 1 - i = n + 1 - j => i = j
  BY <1>1
<1>4. Distinct(LastFirst)
  BY <1>2, <1>3 DEF Distinct
<1>5. \A o \in 1..n : o \in Within(LastFirst)
  BY <1>2, <1>3 DEF Within
<1>6. \A o \in Within(LastFirst) : o \in 1..n
  BY <1>2, <1>3 DEF Within
<1>7. QED
  BY <1>4, <1>5, <1>6 DEF n

LEMMA CheckGoneKeepsPlace ==
  ASSUME TypeInv, PlaceInv, TypeInv', CheckGone
  PROVE  PlaceInv'
<1>1. /\ LastFirst \in Seq(Wd) /\ Len(LastFirst) = Len(paths) /\ GoneNow \subseteq Watched
      /\ q' = EndsAll(GoneNow, q, LastFirst) /\ watches' = Without(GoneNow)
      /\ UNCHANGED <<arm, paths, ended, silent>> /\ pc = "asking" /\ pc' = "idle"
  BY CheckGoneShape DEF caller
<1>2. Watched' = Watched \ GoneNow
  BY <1>1 DEF Without, Watched
<1>3. q \in QSet /\ 1..Len(paths) \subseteq Wd /\ Watched \subseteq 1..Len(paths) /\ Len(paths) \in Nat
  BY TableFacts
<1>4. CASE q.queue # <<>>
  <2>1. GoneNow = {}
    BY <1>4 DEF GoneNow
  <2>2. q' = q /\ Watched' = Watched
    BY <1>1, <1>2, <1>3, <2>1, NoEnds
  <2>3. QED
    BY <1>1, <2>2, SameKeepsPlace
<1>5. CASE q.queue = <<>>
  <2> DEFINE n == Len(paths)
             gone == GoneNow
  <2>1. Within(LastFirst) = 1..n /\ Distinct(LastFirst)
    BY LastFirstIs
  <2>2. EndsOf(gone, q, q', LastFirst)
    BY <1>1, <1>3, <1>5, <2>1, EndsGrow
  <2> HIDE DEF gone
  <2>3. gone \subseteq 1..n /\ gone \cap Within(LastFirst) = gone
    BY <1>1, <1>3, <2>1 DEF gone
  <2>4. \A i \in 1..Len(q'.queue) : q'.queue[i].wd \in gone \cup {-1}
    BY <2>2, <2>3 DEF EndsOf
  <2>5. \A o \in 1..n : o \notin gone => NoneOf(q'.queue, o) /\ ~HasEnd(q'.queue, o)
    <3>1. \A o \in 1..n : o # -1
      BY <1>3
    <3>2. \A o \in 1..n : o \notin gone => NoneOf(q'.queue, o)
      BY <2>4, <3>1 DEF NoneOf
    <3>3. QED
      BY <3>2 DEF NoneOf, HasEnd, EndAt
  <2>6. \A o : ~HasEnd(q.queue, o)
    <3>1. Len(q.queue) = 0
      BY <1>5
    <3>2. QED
      BY <3>1 DEF HasEnd
  <2>7. ASSUME NEW o \in 1..n
        PROVE  /\ Strict(o) =>
                  /\ o \in Watched' => o \notin ended /\ ~HasEnd(q'.queue, o)
                  /\ o \in ended => NoneOf(q'.queue, o)
                  /\ EndLast(q'.queue, o)
               /\ o \in Watched' \/ o \in q'.lost \/ o \in ended \/ o \in silent \/ HasEnd(q'.queue, o)
    <3>1. EndLast(q'.queue, o)
      BY <1>3, <2>2 DEF EndsOf
    <3>2. CASE o \in gone
      <4>1. Strict(o) => o \notin ended
        BY <1>1, <3>2 DEF PlaceInv, gone
      <4>2. o \in q'.lost \/ HasEnd(q'.queue, o)
        BY <2>2, <2>3, <3>2 DEF EndsOf
      <4>3. QED
        BY <1>2, <3>1, <3>2, <4>1, <4>2 DEF gone
    <3>3. CASE o \notin gone
      <4>1. Strict(o) /\ o \in Watched' => o \notin ended
        BY <1>2 DEF PlaceInv
      <4>2. o \in Watched' \/ o \in q'.lost \/ o \in ended \/ o \in silent
        BY <1>1, <1>2, <2>2, <2>6, <3>3 DEF PlaceInv, EndsOf, gone
      <4>3. QED
        BY <2>5, <3>1, <3>3, <4>1, <4>2
    <3>4. QED
      BY <3>2, <3>3
  <2>8. \A o : Strict(o)' = Strict(o)
    BY <1>1 DEF Strict
  <2>9. \A i \in 1..Len(q'.queue) : q'.queue[i].wd \in 1..n \cup {-1}
    BY <2>3, <2>4
  <2>10. ended' \subseteq 1..n /\ paths' = paths
    BY <1>1 DEF PlaceInv
  <2>11. QED
    BY <1>1, <2>7, <2>8, <2>9, <2>10 DEF PlaceInv
<1>6. QED
  BY <1>4, <1>5

-----------------------------------------------------------------------------
(***************************************************************************)
(* IGNORED comes once, last, and for every watch that is forgotten.        *)
(***************************************************************************)
LEMMA InitPlace == Init => PlaceInv
<1> SUFFICES ASSUME Init PROVE PlaceInv
  OBVIOUS
<1>1. q.queue = <<>> /\ paths = <<>> /\ ended = {}
  BY DEF Init, Empty
<1>2. Len(q.queue) = 0 /\ Len(paths) = 0
  BY <1>1
<1>3. QED
  BY <1>1, <1>2 DEF PlaceInv

LEMMA WorldKeepsPlace ==
  ASSUME TypeInv, PlaceInv, World
  PROVE  PlaceInv'
<1>1. UNCHANGED <<arm, paths, q, pc, ended, silent>> /\ Watched' = Watched
  BY DEF World, Create, Delete, Write, Rename, Rmdir, Mkdir, Happens, caller, Watched
<1>2. QED
  BY <1>1, SameKeepsPlace

LEMMA RmKeepsPlace ==
  ASSUME TypeInv, PlaceInv, TypeInv', NEW wd \in Wd, RmWatch(wd)
  PROVE  PlaceInv'
<1>1. /\ pc = "idle" /\ wd \in Watched /\ q' = Emit(q, wd, Self("IGNORED")) /\ watches' = Without({wd})
      /\ UNCHANGED <<arm, paths, ended, silent>>
  BY DEF RmWatch, caller
<1>2. Self("IGNORED") \in Said /\ Self("IGNORED").kind = "IGNORED"
  BY SelfSeqs DEF Self, Rec
<1>3. q' = EmitMasked(q, wd, Self("IGNORED"))
  BY <1>1, <1>2 DEF EmitMasked
<1>4. q \in QSet
  BY TableFacts
<1>5. Grows(q, q', wd) /\ ToEnd(q, q', wd)
  BY <1>2, <1>3, <1>4, EmitGrows
<1>6. Watched' = Watched \ {wd}
  BY <1>1 DEF Without, Watched
<1>7. QED
  BY <1>1, <1>5, <1>6, EndKeepsPlace

LEMMA CloseKeepsPlace ==
  ASSUME Close
  PROVE  PlaceInv'
<1>1. q'.queue = <<>> /\ paths' = <<>> /\ ended' = {}
  BY DEF Close, Empty
<1>2. Len(q'.queue) = 0 /\ Len(paths') = 0
  BY <1>1
<1>3. QED
  BY <1>1, <1>2 DEF PlaceInv

LEMMA Init1KeepsPlace ==
  ASSUME TypeInv, PlaceInv, Init1
  PROVE  PlaceInv'
<1>1. UNCHANGED <<arm, paths, q, ended, silent>> /\ Watched' = Watched /\ pc = "closed" /\ paths = <<>>
  BY DEF Init1, caller, Watched, TypeInv, PhaseTypes
<1>2. Len(paths) = 0 /\ \A o : Strict(o)' = Strict(o)
  BY <1>1 DEF Strict
<1>3. QED
  BY <1>1, <1>2 DEF PlaceInv

LEMMA TranslateKeepsPlace ==
  ASSUME TypeInv, PlaceInv, TypeInv', NEW wd \in Wd, NEW written, Translate(wd, written)
  PROVE  PlaceInv'
<1> DEFINE quiet == Diff(wd, written).recs \o OfItself(wd)
<1>1. /\ wd \in Watched /\ quiet \in Quiets /\ q' = EmitAll(q, wd, AllOf(wd, written))
      /\ watches' = IF "delete" \in taken[wd] THEN Without({wd})
                    ELSE [watches EXCEPT ![wd] = IF SomeSeen THEN Kept(watches[wd], look.fresh) ELSE watches[wd]]
  BY TranslateShape
<1>2. UNCHANGED <<arm, paths, ended, silent>> /\ pc # "closed"
  BY DEF Translate, caller
<1>3. q \in QSet
  BY TableFacts
<1>4. AllOf(wd, written) = quiet \o OfEnd(wd)
  BY DEF AllOf
<1> HIDE DEF quiet
<1>5. CASE "delete" \in taken[wd]
  <2>1. q' = EmitAll(q, wd, quiet \o Gone)
    BY <1>1, <1>4, <1>5 DEF OfEnd
  <2>2. Grows(q, q', wd) /\ ToEnd(q, q', wd)
    BY <1>1, <1>3, <2>1, EndGrows
  <2>3. Watched' = Watched \ {wd}
    BY <1>1, <1>5 DEF Without, Watched
  <2>4. QED
    BY <1>1, <1>2, <2>2, <2>3, EndKeepsPlace
<1>6. CASE "delete" \notin taken[wd]
  <2>1. quiet \o <<>> = quiet
    BY <1>1 DEF Quiets
  <2>2. q' = EmitAll(q, wd, quiet)
    BY <1>1, <1>4, <1>6, <2>1 DEF OfEnd
  <2>3. Grows(q, q', wd) /\ Quietly(q, q')
    BY <1>1, <1>3, <2>2, AllQuietGrow
  <2>4. Watched' = Watched
    BY <1>1, <1>6 DEF Watched
  <2>5. QED
    BY <1>1, <1>2, <2>3, <2>4, QuietKeepsPlace
<1>7. QED
  BY <1>5, <1>6

\* What Windows says of the names of a directory is of no end.
LEMMA RecsOfQuiet ==
  ASSUME NEW wd, IsDir(watches[wd]), NEW s \in Emissions, NEW n \in Notifications
  PROVE  RecsOf(wd, s, n) \in Quiets
<1>1. n[2] \in Name /\ Opened(s, n) \in Cookie
  BY RecsOfSaid DEF Notifications
<1>2. {"CREATE", "MODIFY", "DELETE", "MOVED_FROM", "MOVED_TO"} \subseteq Kinds
  BY DEF Kinds, NameKinds
<1>3. RecsOf(wd, s, n) \in {<<Plain("CREATE", n[2])>>, <<Plain("DELETE", n[2])>>, <<Plain("MODIFY", n[2])>>,
                            <<Rec("MOVED_FROM", n[2], Opened(s, n))>>, <<Rec("MOVED_TO", n[2], Opened(s, n))>>}
  BY DEF RecsOf
<1>4. \A r \in Quiet : <<r>> \in Quiets
  BY DEF Quiets
<1>5. QED
  BY <1>1, <1>2, <1>3, <1>4, QuietSaid

\* What is told of a watch is appended; of a directory, nothing that ends it.
LEMMA ToldGrows ==
  ASSUME TypeInv, TypeInv', NEW wd \in Wd, Stream \in Emissions, watches[wd].done \in Seq(Notifications),
         Told(wd)
  PROVE  LET s == TranslatedAll(wd, Stream, watches[wd].done)
         IN /\ s.q \in QSet /\ q'.queue = s.q.queue
            /\ q'.lost = IF watches[wd].done = <<>> THEN s.q.lost \cup {wd} ELSE s.q.lost
            /\ Grows(q, q', wd) /\ (IsDir(watches[wd]) => Quietly(q, q'))
<1> DEFINE s == TranslatedAll(wd, Stream, watches[wd].done)
<1>1. q' = [s.q EXCEPT !.lost = IF watches[wd].done = <<>> THEN @ \cup {wd} ELSE @]
      /\ watches' = [watches EXCEPT ![wd] = Rearmed(watches[wd])]
  BY DEF Told
<1>2. Stream.q = q /\ q \in QSet
  BY TableFacts DEF Stream
<1>3. s.q \in QSet /\ Grows(q, s.q, wd)
  <2> DEFINE K == {t \in QSet : Grows(q, t, wd)}
  <2>1. K \subseteq QSet /\ q \in K
    BY <1>2, GrowsSame
  <2>2. ASSUME NEW t \in K, NEW r \in Said PROVE EmitMasked(t, wd, r) \in K
    <3>1. t \in QSet /\ Grows(q, t, wd)
      OBVIOUS
    <3>2. EmitMasked(t, wd, r) \in QSet /\ Grows(t, EmitMasked(t, wd, r), wd)
      BY <3>1, EmitGrows
    <3>3. QED
      BY <1>2, <3>1, <3>2, GrowsOn
  <2> HIDE DEF K
  <2>3. s.q \in K
    BY <1>2, <2>1, <2>2, TranslatedKeeps
  <2>4. QED
    BY <2>3 DEF K
<1>4. IsDir(watches[wd]) => Quietly(q, s.q)
  <2> SUFFICES ASSUME IsDir(watches[wd]) PROVE Quietly(q, s.q)
    OBVIOUS
  <2>1. Quiet \subseteq Said
    BY QuietSaid
  <2>2. \A t \in Emissions, n \in Notifications : RecsOf(wd, t, n) \in Seq(Quiet)
    BY RecsOfQuiet DEF Quiets
  <2>3. /\ QuietGrowth(q, wd) \subseteq QSet /\ q \in QuietGrowth(q, wd)
        /\ \A t \in QuietGrowth(q, wd), r \in Quiet : EmitMasked(t, wd, r) \in QuietGrowth(q, wd)
    BY <1>2, QuietGrows
  <2>4. s.q \in QuietGrowth(q, wd)
    BY <1>2, <2>1, <2>2, <2>3, TranslatedKeepsOf
  <2>5. QED
    BY <2>4 DEF QuietGrowth
<1> HIDE DEF s
<1>5. q'.queue = s.q.queue /\ q'.lost = IF watches[wd].done = <<>> THEN s.q.lost \cup {wd} ELSE s.q.lost
  BY <1>1, <1>3 DEF QSet
<1>6. Grows(q, q', wd) /\ (IsDir(watches[wd]) => Quietly(q, q'))
  BY <1>3, <1>4, <1>5 DEF Grows, Quietly
<1>7. QED
  BY <1>3, <1>5, <1>6 DEF s

LEMMA CompletionKeepsPlace ==
  ASSUME TypeInv, PlaceInv, TypeInv', NEW wd \in Wd, NEW resolves, Completion(wd, resolves)
  PROVE  PlaceInv'
<1>1. /\ arm = "changes" /\ pc = "draining" /\ wd \in Watched /\ watches[wd] \in CWatch
      /\ watches[wd].done \in Seq(Notifications) /\ Stream \in Emissions
      /\ Ended(wd) \/ Told(wd)
      /\ UNCHANGED <<arm, paths, pc, ended, silent>>
  BY CompletionShape DEF caller
<1>2. q \in QSet /\ q' \in QSet
  BY TableFacts DEF TypeInv, StreamTypes, QGood
<1>3. CASE Ended(wd)
  <2>1. Grows(q, q', wd) /\ ToEnd(q, q', wd)
    BY <1>2, <1>3, GoneGrows DEF Ended
  <2>2. Watched' = Watched \ {wd}
    BY <1>3 DEF Ended, Without, Watched
  <2>3. QED
    BY <1>1, <2>1, <2>2, EndKeepsPlace
<1>4. CASE Told(wd)
  <2>1. Grows(q, q', wd) /\ (IsDir(watches[wd]) => Quietly(q, q')) /\ Watched' = Watched
    BY <1>1, <1>4, ToldGrows DEF Told, Watched
  <2>2. Strict(wd) => IsDir(watches[wd])
    BY <1>1 DEF Strict, IsDir, TypeInv, TableTypes
  <2>3. QED
    BY <1>1, <2>1, <2>2, QuietKeepsPlace
<1>5. QED
  BY <1>1, <1>3, <1>4

LEMMA UpKeepsPlace ==
  ASSUME TypeInv, PlaceInv, TypeInv', NEW wd \in Wd, UpCompletion(wd) \/ ReadFails(wd)
  PROVE  PlaceInv'
<1>1. /\ pc = "draining" /\ wd \in Watched /\ q' = EmitAll(q, wd, Gone) /\ watches' = Without({wd})
      /\ UNCHANGED <<arm, paths, ended, silent>>
  BY DEF UpCompletion, ReadFails, caller
<1>2. q \in QSet
  BY TableFacts
<1>3. Grows(q, q', wd) /\ ToEnd(q, q', wd)
  BY <1>1, <1>2, GoneGrows
<1>4. Watched' = Watched \ {wd}
  BY <1>1 DEF Without, Watched
<1>5. QED
  BY <1>1, <1>3, <1>4, EndKeepsPlace

\* Nothing is said of the watch that the read above takes along.
LEMMA UpFailsKeepsPlace ==
  ASSUME TypeInv, PlaceInv, NEW wd \in Wd, UpFails(wd)
  PROVE  PlaceInv'
<1>1. UNCHANGED <<arm, paths, q, ended, pc>> /\ silent' = silent \cup {wd} /\ watches' = Without({wd})
      /\ pc = "draining"
  BY DEF UpFails
<1>2. Watched' = Watched \ {wd} /\ \A o : Strict(o)' = Strict(o)
  BY <1>1 DEF Without, Watched, Strict
<1>3. QED
  BY <1>1, <1>2 DEF PlaceInv

\* The steps that leave queue, table and history as they are, or add to the table.
LEMMA OthersKeepPlace ==
  ASSUME TypeInv, PlaceInv, TypeInv',
         \/ \E wd \in Wd, mask \in Masks : NewMask(wd, mask)
         \/ \E path \in Path, mask \in Masks : AddLook(path, mask) \/ AddWatch(path, mask)
         \/ LookAt \/ Register \/ Take \/ Drain \/ PortEmpty
         \/ \E wd \in Wd : StartLook(wd) \/ UpMisses(wd)
  PROVE  PlaceInv'
<1>1. ASSUME UNCHANGED <<arm, paths, q, ended, silent>>, Watched' = Watched, pc # "closed" /\ pc' # "closed"
      PROVE  PlaceInv'
  BY <1>1, SameKeepsPlace
<1>2. ASSUME NEW wd \in Wd, NEW mask \in Masks, NewMask(wd, mask) PROVE PlaceInv'
  BY <1>1, <1>2 DEF NewMask, caller, Watched
<1>3. ASSUME NEW path \in Path, NEW mask \in Masks, AddLook(path, mask) PROVE PlaceInv'
  BY <1>1, <1>3 DEF AddLook, CanAdd, caller, Watched
<1>4. ASSUME NEW path \in Path, NEW mask \in Masks, AddWatch(path, mask) PROVE PlaceInv'
  <2>1. /\ paths' = Append(paths, path) /\ UNCHANGED <<arm, q, ended, silent>> /\ pc # "closed"
        /\ Watched' = Watched \cup {Len(paths) + 1}
    BY <1>4 DEF AddWatch, CanAdd, With, Watched
  <2>2. QED
    BY <2>1, AddKeepsPlace
<1>5. CASE LookAt
  <2>1. pc # "closed"
    BY <1>5 DEF LookAt, TypeInv, PhaseTypes, NotLooking
  <2>2. QED
    BY <1>1, <1>5, <2>1 DEF LookAt, caller, Watched
<1>6. CASE Register
  <2>1. /\ paths' = Append(paths, adding.path) /\ UNCHANGED <<arm, q, ended, silent>> /\ pc # "closed"
        /\ Watched' = Watched \cup {Len(paths) + 1}
    BY <1>6 DEF Register, With, Watched
  <2>2. QED
    BY <2>1, AddKeepsPlace
<1>7. CASE Take
  <2>1. UNCHANGED <<arm, paths, q, ended, silent>> /\ pc = "idle" /\ pc' = "taking" /\ DOMAIN watches' = DOMAIN watches
    BY <1>7 DEF Take, caller, Watched
  <2>2. QED
    BY <1>1, <2>1 DEF Watched
<1>8. CASE Drain
  BY <1>1, <1>8 DEF Drain, caller, Watched
<1>9. ASSUME NEW wd \in Wd, StartLook(wd) PROVE PlaceInv'
  BY <1>1, <1>9 DEF StartLook, caller, Watched
<1>10. CASE PortEmpty
  BY <1>1, <1>10 DEF PortEmpty, caller, Watched
<1>11. ASSUME NEW wd \in Wd, UpMisses(wd) PROVE PlaceInv'
  BY <1>1, <1>11 DEF UpMisses, caller, Watched
<1>12. QED
  BY <1>2, <1>3, <1>4, <1>5, <1>6, <1>7, <1>8, <1>9, <1>10, <1>11

LEMMA NextKeepsPlace ==
  ASSUME TypeInv, PlaceInv, TypeInv', [Next]_vars
  PROVE  PlaceInv'
<1>1. CASE World
  BY <1>1, WorldKeepsPlace
<1>2. CASE Asks
  BY <1>2, RmKeepsPlace, CloseKeepsPlace, Init1KeepsPlace, OthersKeepPlace DEF Asks
<1>3. CASE Reads
  BY <1>3, ReadKeepsPlace, TranslateKeepsPlace, UpKeepsPlace, UpFailsKeepsPlace, CompletionKeepsPlace,
     CheckGoneKeepsPlace, OthersKeepPlace DEF Reads
<1>4. CASE UNCHANGED vars
  <2>1. UNCHANGED <<arm, paths, q, ended, silent, pc>> /\ Watched' = Watched
    BY <1>4 DEF vars, caller, Watched
  <2>2. QED
    BY <2>1, SameKeepsPlace
<1>5. QED
  BY <1>1, <1>2, <1>3, <1>4 DEF Next

(***************************************************************************)
(* In every state a queued record is of a watch there was, no record of a  *)
(* watch follows its IGNORED, and a watch that is in the table has not     *)
(* been told to have ended (forget, rm_watch, translate, translate_up,     *)
(* check_gone).                                                            *)
(***************************************************************************)
THEOREM PlacesHold == Spec => []PlaceInv
<1>1. Init => PlaceInv
  BY InitPlace
<1>2. TypeInv /\ TypeInv' /\ PlaceInv /\ [Next]_vars => PlaceInv'
  BY NextKeepsPlace
<1>3. QED
  BY <1>1, <1>2, TypesHold, PTL DEF Spec

(***************************************************************************)
(* IGNORED is the last record of a watch and comes once, whoever says it   *)
(* first: rm_watch, the subject's own end or check_gone; on Windows for a  *)
(* watch of the directory, as translate tells of a file's end and keeps    *)
(* its watch.                                                              *)
(***************************************************************************)
THEOREM EndOnceLast == Spec => []IgnoredOnceLast
<1>1. TypeInv /\ PlaceInv => IgnoredOnceLast
  <2> SUFFICES ASSUME TypeInv, PlaceInv, NEW wd \in 1..Len(paths), Strict(wd)
               PROVE  LET mine == {i \in DOMAIN q.queue : q.queue[i].wd = wd}
                      IN /\ wd \in ended => mine = {}
                         /\ \A i \in mine : q.queue[i].kind = "IGNORED" =>
                              wd \notin Watched /\ \A j \in mine : j <= i
    BY DEF IgnoredOnceLast, Strict
  <2>1. DOMAIN q.queue = 1..Len(q.queue)
    BY TableFacts
  <2>2. /\ wd \in Watched => wd \notin ended /\ ~HasEnd(q.queue, wd)
        /\ wd \in ended => NoneOf(q.queue, wd)
        /\ EndLast(q.queue, wd)
    BY DEF PlaceInv
  <2>3. QED
    BY <2>1, <2>2 DEF HasEnd, NoneOf, EndLast, EndAt
<1>2. QED
  BY <1>1, TypesHold, PlacesHold, PTL

(***************************************************************************)
(* No watch is forgotten (forget) without its IGNORED, read or still       *)
(* queued, whatever mask it was given, unless its records were lost for    *)
(* want of room or, on Windows, the read on the directory above failed     *)
(* (take_events).                                                          *)
(***************************************************************************)
THEOREM EndTold == Spec => []IgnoredTold
<1>1. TypeInv /\ PlaceInv => IgnoredTold
  <2> SUFFICES ASSUME TypeInv, PlaceInv, pc # "closed",
                      NEW wd \in 1..Len(paths), wd \notin Watched,
                      wd \notin q.lost, wd \notin silent, wd \notin ended
               PROVE  \E r \in Range(q.queue) : r.wd = wd /\ r.kind = "IGNORED"
    BY DEF IgnoredTold
  <2>1. HasEnd(q.queue, wd)
    BY DEF PlaceInv
  <2>2. \A i \in 1..Len(q.queue) : q.queue[i] \in Range(q.queue)
    <3>1. DOMAIN q.queue = 1..Len(q.queue)
      BY TableFacts
    <3>2. QED
      BY <3>1 DEF Range
  <2>3. QED
    BY <2>1, <2>2 DEF HasEnd, EndAt
<1>2. QED
  BY <1>1, TypesHold, PlacesHold, PTL

-----------------------------------------------------------------------------
(***************************************************************************)
(* What the arm of the BSDs last saw of a directory.                       *)
(***************************************************************************)
LEMMA InitLook == Init => LookInv
<1> SUFFICES ASSUME Init PROVE LookInv
  OBVIOUS
<1>1. there = TRUE /\ Watched = {} /\ DOMAIN taken = {} /\ pc = "idle"
  BY DEF Init, Watched
<1>2. QED
  BY <1>1 DEF LookInv, EmptyWhenGone, OfTheDir, LookedAt, KidsUpToDate

\* On Windows nobody looks.
LEMMA NobodyLooks ==
  ASSUME TypeInv', EmptyWhenGone', arm' = "changes"
  PROVE  LookInv'
<1>1. DOMAIN taken' = {}
  BY DEF TypeInv, PhaseTypes
<1>2. QED
  BY <1>1 DEF LookInv, OfTheDir, LookedAt, KidsUpToDate

\* A watch that is the same, but for notes and its end.
StillOf(w, v) ==
  /\ v.path = w.path /\ v.of = w.of /\ v.kids = w.kids /\ v.missed = w.missed
  /\ w.dead => v.dead
  /\ w.note \subseteq v.note

LEMMA SameLooks ==
  ASSUME TypeInv, LookInv, TypeInv', UNCHANGED <<arm, dir, taken, look>>, EmptyWhenGone', Watched' \subseteq Watched,
         arm = "vnode" => \A wd \in Watched' : StillOf(watches[wd], watches'[wd]),
         pc' = pc \/ DOMAIN taken = {},
         pc' = "adding" /\ IsDir(adding') => adding'.of = "dir"
  PROVE  LookInv'
<1>1. CASE arm = "changes"
  BY <1>1, NobodyLooks
<1>2. CASE arm = "vnode"
  <2>1. \A wd \in Watched' : StillOf(watches[wd], watches'[wd]) /\ wd \in Watched
    BY <1>2
  <2>2. \A wd \in Watched' : /\ IsDir(watches[wd])' = IsDir(watches[wd])
                             /\ MustLook(wd)' = MustLook(wd)
                             /\ Unnoted(watches[wd])' => Unnoted(watches[wd])
    BY <2>1 DEF StillOf, IsDir, MustLook, Unnoted
  <2>3. OfTheDir'
    BY <1>2, <2>1, <2>2 DEF LookInv, OfTheDir, StillOf
  <2>4. DOMAIN taken \subseteq Watched'
    BY DEF TypeInv, PhaseTypes
  <2>5. ToLookAt' = ToLookAt
    BY DEF ToLookAt
  <2>6. LookedAt'
    BY <2>2, <2>4, <2>5 DEF LookInv, LookedAt
  <2>7. KidsUpToDate'
    BY <1>2, <2>1, <2>2 DEF LookInv, KidsUpToDate, NothingPending, StillOf
  <2>8. QED
    BY <2>3, <2>6, <2>7 DEF LookInv
<1>3. QED
  BY <1>1, <1>2 DEF TypeInv, WorldTypes

LEMMA NotedStill ==
  ASSUME NEW w \in VWatch, NEW notes
  PROVE  /\ StillOf(w, Noted(w, notes))
         /\ \A what : <<w.of, what>> \in notes => what \in Noted(w, notes).note
<1> DEFINE mine == {n[2] : n \in {m \in notes : m[1] = w.of}}
           dead == w.dead \/ "delete" \in mine
           note == w.note \cup mine
<1>1. \A what : <<w.of, what>> \in notes => what \in mine
  <2> SUFFICES ASSUME NEW what, <<w.of, what>> \in notes PROVE what \in mine
    OBVIOUS
  <2>1. <<w.of, what>>[1] = w.of /\ <<w.of, what>>[2] = what
    OBVIOUS
  <2>2. QED
    BY <2>1
<1>2. w.dead => dead
  OBVIOUS
<1>3. w.note \subseteq note /\ mine \subseteq note
  OBVIOUS
<1>4. Noted(w, notes) = [w EXCEPT !.note = note, !.dead = dead]
  BY DEF Noted
<1> HIDE DEF dead, note, mine
<1>5. /\ Noted(w, notes).path = w.path /\ Noted(w, notes).of = w.of /\ Noted(w, notes).kids = w.kids
      /\ Noted(w, notes).missed = w.missed /\ Noted(w, notes).dead = dead /\ Noted(w, notes).note = note
  BY <1>4 DEF VWatch
<1>6. QED
  BY <1>1, <1>2, <1>3, <1>5 DEF StillOf

\* What every step of the world leaves of the watches, and what one leaves that
\* notes a change of the directory.
LEMMA HappensStill ==
  ASSUME TypeInv, NEW notes, NEW said, Happens(notes, said), arm = "vnode"
  PROVE  /\ UNCHANGED <<arm, taken, look, pc>> /\ Watched' = Watched
         /\ \A wd \in Watched : StillOf(watches[wd], watches'[wd])
         /\ <<"dir", "write">> \in notes =>
              \A wd \in Watched : watches[wd].of = "dir" => watches'[wd].dead \/ "write" \in watches'[wd].note
         /\ pc' = "adding" => adding'.path = adding.path /\ adding'.of = adding.of
<1>1. /\ UNCHANGED <<arm, taken, look, pc>> /\ Watched' = Watched
      /\ adding' = IF adding = None THEN None
                   ELSE [adding EXCEPT !.dead = @ \/ <<adding.of, "delete">> \in notes]
      /\ \A wd \in Watched : watches'[wd] = IF watches[wd].dead THEN watches[wd] ELSE Noted(watches[wd], notes)
  BY DEF Happens, Watched
<1>2. \A wd \in Watched : watches[wd] \in VWatch
  BY DEF TypeInv, TableTypes, WatchType
<1>3. \A wd \in Watched : StillOf(watches[wd], watches'[wd])
  <2> SUFFICES ASSUME NEW wd \in Watched PROVE StillOf(watches[wd], watches'[wd])
    OBVIOUS
  <2>1. StillOf(watches[wd], watches[wd])
    BY DEF StillOf
  <2>2. StillOf(watches[wd], Noted(watches[wd], notes))
    BY <1>2, NotedStill
  <2>3. QED
    BY <1>1, <2>1, <2>2
<1>4. ASSUME <<"dir", "write">> \in notes, NEW wd \in Watched, watches[wd].of = "dir"
      PROVE  watches'[wd].dead \/ "write" \in watches'[wd].note
  <2>1. "write" \in Noted(watches[wd], notes).note
    BY <1>2, <1>4, NotedStill
  <2>2. QED
    BY <1>1, <2>1
<1>5. pc' = "adding" => adding'.path = adding.path /\ adding'.of = adding.of
  <2>1. pc = "adding" => adding \in VWatch
    BY DEF TypeInv, PhaseTypes
  <2>2. QED
    BY <1>1, <2>1 DEF VWatch, TypeInv, PhaseTypes
<1>6. QED
  BY <1>1, <1>3, <1>4, <1>5

LEMMA WorldKeepsLook ==
  ASSUME TypeInv, LookInv, TypeInv', World
  PROVE  LookInv'
<1>1. dir \in Listings /\ arm \in {"vnode", "changes"} /\ there \in BOOLEAN /\ arm' = arm
  BY DEF TypeInv, WorldTypes, World, Create, Delete, Write, Rename, Rmdir, Mkdir, Happens
<1>2. \A n \in Name : dir[n] # None => there
  BY DEF LookInv, EmptyWhenGone, NoFiles
<1>3. EmptyWhenGone'
  <2>1. \/ \E n \in Name : Delete(n) \/ Write(n)
        \/ \E n \in Name, i \in Ino : Create(n, i)
        \/ \E n, m \in Name : Rename(n, m)
        \/ \E up \in BOOLEAN : Rmdir(up)
        \/ Mkdir
    BY DEF World
  <2>2. ASSUME NEW n \in Name, Delete(n) \/ Write(n) PROVE EmptyWhenGone'
    BY <1>2, <2>2 DEF Delete, Write, EmptyWhenGone
  <2>3. ASSUME NEW n \in Name, NEW i \in Ino, Create(n, i) PROVE EmptyWhenGone'
    BY <2>3 DEF Create, EmptyWhenGone
  <2>4. ASSUME NEW n \in Name, NEW m \in Name, Rename(n, m) PROVE EmptyWhenGone'
    BY <1>2, <2>4 DEF Rename, EmptyWhenGone
  <2>5. ASSUME NEW up \in BOOLEAN, Rmdir(up) PROVE EmptyWhenGone'
    BY <2>5 DEF Rmdir, EmptyWhenGone
  <2>6. CASE Mkdir
    BY <2>6 DEF Mkdir, EmptyWhenGone
  <2>7. QED
    BY <2>1, <2>2, <2>3, <2>4, <2>5, <2>6
<1>4. CASE arm = "changes"
  BY <1>1, <1>3, <1>4, NobodyLooks
<1>5. ASSUME NEW notes, NEW said, Happens(notes, said), arm = "vnode", <<"dir", "write">> \in notes \/ UNCHANGED dir
      PROVE  LookInv'
  <2>1. /\ UNCHANGED <<arm, taken, look, pc>> /\ Watched' = Watched
        /\ \A wd \in Watched : StillOf(watches[wd], watches'[wd])
        /\ <<"dir", "write">> \in notes =>
              \A wd \in Watched : watches[wd].of = "dir" => watches'[wd].dead \/ "write" \in watches'[wd].note
        /\ pc' = "adding" => adding'.path = adding.path /\ adding'.of = adding.of
    BY <1>5, HappensStill
  <2>2. pc' = "adding" /\ IsDir(adding') => adding'.of = "dir"
    BY <1>5, <2>1 DEF LookInv, OfTheDir, IsDir
  <2>3. CASE UNCHANGED dir
    BY <1>3, <1>5, <2>1, <2>2, <2>3, SameLooks
  <2>4. CASE <<"dir", "write">> \in notes
    <3>1. \A wd \in Watched : IsDir(watches[wd])' = IsDir(watches[wd]) /\ MustLook(wd)' = MustLook(wd)
      BY <2>1 DEF StillOf, IsDir, MustLook
    <3>2. \A wd \in Watched : IsDir(watches[wd]) => ~Unnoted(watches[wd])'
      BY <1>5, <2>1, <2>4 DEF LookInv, OfTheDir, Unnoted
    <3>3. OfTheDir'
      BY <1>5, <2>1, <2>2, <3>1 DEF LookInv, OfTheDir, StillOf
    <3>4. DOMAIN taken \subseteq Watched
      BY DEF TypeInv, PhaseTypes
    <3>5. LookedAt'
      BY <2>1, <3>1, <3>2, <3>4 DEF LookInv, LookedAt, MustLook
    <3>6. KidsUpToDate'
      BY <2>1, <3>1, <3>2 DEF KidsUpToDate
    <3>7. QED
      BY <1>3, <3>3, <3>5, <3>6 DEF LookInv
  <2>5. QED
    BY <1>5, <2>3, <2>4
<1>6. ASSUME arm = "vnode", UNCHANGED <<dir, watches, pc, adding, taken, look>> PROVE LookInv'
  <2>1. Watched' = Watched /\ \A wd \in Watched : StillOf(watches[wd], watches'[wd])
    BY <1>6 DEF Watched, StillOf
  <2>2. pc' = "adding" /\ IsDir(adding') => adding'.of = "dir"
    BY <1>6 DEF LookInv, OfTheDir
  <2>3. QED
    BY <1>1, <1>3, <1>6, <2>1, <2>2, SameLooks
<1>7. CASE arm = "vnode"
  <2>1. ASSUME NEW n \in Name, NEW i \in Ino, Create(n, i) PROVE LookInv'
    <3>1. Happens({<<"dir", "write">>}, <<<<"ADDED", n>>>>)
      BY <2>1 DEF Create
    <3>2. <<"dir", "write">> \in {<<"dir", "write">>}
      OBVIOUS
    <3>3. QED
      BY <1>5, <1>7, <3>1, <3>2
  <2>2. ASSUME NEW n \in Name, Delete(n) PROVE LookInv'
    <3> DEFINE notes == {<<"dir", "write">>, <<dir[n], "delete">>}
    <3>1. Happens(notes, <<<<"REMOVED", n>>>>)
      BY <2>2 DEF Delete
    <3>2. <<"dir", "write">> \in notes
      OBVIOUS
    <3> HIDE DEF notes
    <3>3. QED
      BY <1>5, <1>7, <3>1, <3>2
  <2>3. ASSUME NEW n \in Name, Write(n) PROVE LookInv'
    <3>1. Happens({<<dir[n], "write">>}, <<<<"MODIFIED", n>>>>) /\ UNCHANGED dir
      BY <2>3 DEF Write
    <3>2. QED
      BY <1>5, <1>7, <3>1
  <2>4. ASSUME NEW n \in Name, NEW m \in Name, Rename(n, m) PROVE LookInv'
    <3> DEFINE notes == {<<"dir", "write">>, <<dir[n], "rename">>, <<dir[m], "delete">>}
               said == (IF dir[m] = None THEN <<>> ELSE <<<<"REMOVED", m>>>>)
                         \o <<<<"OLD_NAME", n>>, <<"NEW_NAME", m>>>>
    <3>1. Happens(notes, said)
      BY <2>4 DEF Rename
    <3>2. <<"dir", "write">> \in notes
      OBVIOUS
    <3> HIDE DEF notes, said
    <3>3. QED
      BY <1>5, <1>7, <3>1, <3>2
  <2>5. ASSUME NEW up \in BOOLEAN, Rmdir(up) PROVE LookInv'
    <3>1. Happens({<<"dir", "delete">>}, <<>>) /\ UNCHANGED dir
      BY <1>7, <2>5 DEF Rmdir
    <3>2. QED
      BY <1>5, <1>7, <3>1
  <2>6. CASE Mkdir
    BY <1>6, <1>7, <2>6 DEF Mkdir, scanning
  <2>7. QED
    BY <2>1, <2>2, <2>3, <2>4, <2>5, <2>6 DEF World
<1>8. QED
  BY <1>1, <1>4, <1>7

\* The steps that leave what the arm saw as it is.
LEMMA OthersKeepLook ==
  ASSUME TypeInv, LookInv, TypeInv',
         \/ \E len \in Buffers : ReadRecords(len)
         \/ \E wd \in Wd : RmWatch(wd)
         \/ \E wd \in Wd, mask \in Masks : NewMask(wd, mask)
         \/ Close \/ Init1
         \/ \E path \in Path, mask \in Masks : AddLook(path, mask)
  PROVE  LookInv'
<1>1. ASSUME UNCHANGED <<arm, there, dir, taken, look>>, Watched' \subseteq Watched,
             \A wd \in Watched' : watches'[wd] = watches[wd], pc # "adding", pc' # "adding"
      PROVE  DOMAIN taken = {} \/ pc' = pc => LookInv'
  <2>1. EmptyWhenGone'
    BY <1>1 DEF LookInv, EmptyWhenGone
  <2>2. \A wd \in Watched' : StillOf(watches[wd], watches'[wd])
    BY <1>1 DEF StillOf
  <2>3. QED
    BY <1>1, <2>1, <2>2, SameLooks
<1>2. pc \in {"idle", "closed"} => DOMAIN taken = {}
  BY ZenonT(30) DEF TypeInv, PhaseTypes
<1>3. ASSUME NEW len \in Buffers, ReadRecords(len) PROVE LookInv'
  BY <1>1, <1>2, <1>3, ZenonT(30) DEF ReadRecords, files, scanning, Watched
<1>4. ASSUME NEW wd \in Wd, RmWatch(wd) PROVE LookInv'
  BY <1>1, <1>2, <1>4 DEF RmWatch, files, scanning, Watched, Without
<1>5. ASSUME NEW wd \in Wd, NEW mask \in Masks, NewMask(wd, mask) PROVE LookInv'
  <2>1. /\ UNCHANGED <<arm, there, dir, taken, look, pc>> /\ pc = "idle" /\ Watched' = Watched
        /\ watches' = [watches EXCEPT ![wd] = [watches[wd] EXCEPT !.mask = mask]]
    BY <1>5 DEF NewMask, files, scanning, Watched
  <2>2. ASSUME arm = "vnode", NEW o \in Watched PROVE StillOf(watches[o], watches'[o])
    <3>1. watches[o] \in VWatch
      BY <2>2 DEF TypeInv, TableTypes, WatchType
    <3>2. watches'[o] \in {watches[o], [watches[o] EXCEPT !.mask = mask]}
      BY <2>1 DEF Watched
    <3>3. StillOf(watches[o], watches[o]) /\ StillOf(watches[o], [watches[o] EXCEPT !.mask = mask])
      BY <3>1 DEF StillOf, VWatch
    <3>4. QED
      BY <3>2, <3>3
  <2>3. EmptyWhenGone'
    BY <2>1 DEF LookInv, EmptyWhenGone
  <2>4. QED
    BY <2>1, <2>2, <2>3, SameLooks
<1>6. CASE Close
  <2>1. Watched' = {} /\ pc' = "closed" /\ DOMAIN taken' = {} /\ UNCHANGED <<there, dir>>
    BY <1>2, <1>6 DEF Close, Watched, files, scanning
  <2>2. QED
    BY <2>1 DEF LookInv, EmptyWhenGone, OfTheDir, LookedAt, KidsUpToDate
<1>7. CASE Init1
  <2>1. Watched' = {} /\ pc' = "idle" /\ DOMAIN taken' = {} /\ there' = TRUE
    BY <1>2, <1>7 DEF Init1, Watched, scanning, TypeInv, PhaseTypes
  <2>2. QED
    BY <2>1 DEF LookInv, EmptyWhenGone, OfTheDir, LookedAt, KidsUpToDate
<1>8. ASSUME NEW path \in Path, NEW mask \in Masks, AddLook(path, mask) PROVE LookInv'
  <2>1. /\ UNCHANGED <<arm, there, dir, watches, taken>> /\ pc = "idle" /\ Watched' = Watched
        /\ adding'.path = path /\ adding'.of = IF path = "dir" THEN path ELSE dir[path]
    BY <1>8 DEF AddLook, CanAdd, files, Watched
  <2>2. IsDir(adding') => adding'.of = "dir"
    BY <2>1 DEF IsDir
  <2>3. DOMAIN taken' = {}
    BY <1>2, <2>1
  <2>4. QED
    BY <1>2, <2>1, <2>2, <2>3
    DEF LookInv, EmptyWhenGone, OfTheDir, LookedAt, KidsUpToDate, NothingPending
<1>9. QED
  BY <1>3, <1>4, <1>5, <1>6, <1>7, <1>8

LEMMA LookAtKeepsLook ==
  ASSUME TypeInv, LookInv, TypeInv', LookAt
  PROVE  LookInv'
<1>1. /\ UNCHANGED <<arm, there, dir, watches, pc, adding, taken>> /\ Watched' = Watched
      /\ look.left # <<>>
      /\ look' = [left |-> Tail(look.left),
                  fresh |-> [look.fresh EXCEPT ![Head(look.left)] = dir[Head(look.left)]]]
  BY DEF LookAt, files, Watched
<1>2. look.left \in Seq(Name) /\ look.fresh \in Listings /\ dir \in Listings
  BY DEF TypeInv, PhaseTypes, WorldTypes
<1>3. \A n \in ToLookAt : n = Head(look.left) \/ n \in ToLookAt'
  <2>1. ASSUME NEW s \in Seq(Name), s # <<>>, NEW i \in 1..Len(s), s[i] # Head(s)
        PROVE  \E j \in 1..Len(Tail(s)) : Tail(s)[j] = s[i]
    <3>1. i - 1 \in 1..Len(Tail(s)) /\ Tail(s)[i - 1] = s[i]
      BY <2>1
    <3>2. QED
      BY <3>1
  <2>2. ASSUME NEW n \in ToLookAt, n # Head(look.left) PROVE n \in ToLookAt'
    <3> DEFINE s == look.left
    <3>1. s \in Seq(Name) /\ s # <<>> /\ look'.left = Tail(s)
      BY <1>1, <1>2
    <3>2. PICK i \in 1..Len(s) : n = s[i]
      BY DEF ToLookAt
    <3>3. s[i] # Head(s)
      BY <2>2, <3>2
    <3> HIDE DEF s
    <3>4. PICK j \in 1..Len(Tail(s)) : Tail(s)[j] = s[i]
      BY <2>1, <3>1, <3>3
    <3>5. QED
      BY <3>1, <3>2, <3>4 DEF ToLookAt
  <2>3. QED
    BY <2>2
<1>4. /\ \A n \in Name : look'.fresh[n] = IF n = Head(look.left) THEN dir[n] ELSE look.fresh[n]
  BY <1>1, <1>2 DEF Listings
<1>5. LookedAt'
  <2>1. \A wd : MustLook(wd)' = MustLook(wd)
    BY <1>1 DEF MustLook
  <2>2. QED
    BY <1>1, <1>3, <1>4, <2>1 DEF LookInv, LookedAt
<1>6. EmptyWhenGone' /\ OfTheDir' /\ KidsUpToDate'
  BY <1>1 DEF LookInv, EmptyWhenGone, OfTheDir, KidsUpToDate, NothingPending
<1>7. QED
  BY <1>5, <1>6 DEF LookInv

LEMMA RegisterKeepsLook ==
  ASSUME TypeInv, LookInv, TypeInv', Register
  PROVE  LookInv'
<1> DEFINE w == [adding EXCEPT !.kids = look.fresh, !.missed = adding.dead \/ (IsDir(adding) /\ look.fresh # dir)]
           n == Len(paths) + 1
<1>1. /\ w \in WatchType /\ watches' = With(w) /\ paths' = Append(paths, w.path) /\ arm = "vnode"
      /\ w.kids = look.fresh /\ w.path = adding.path /\ w.of = adding.of
      /\ w.missed = (adding.dead \/ (IsDir(adding) /\ look.fresh # dir))
  BY RegisterShape
<1> HIDE DEF w
<1>2. UNCHANGED <<arm, there, dir, taken>> /\ pc = "adding" /\ pc' = "idle" /\ asked' = asked
  BY DEF Register, files
<1>3. /\ Watched' = Watched \cup {n} /\ watches'[n] = w /\ n \notin Watched
      /\ \A wd \in Watched : watches'[wd] = watches[wd]
  <2>1. asked' \in 0..MaxWd /\ Len(paths) < asked'
    BY <1>2 DEF TypeInv, TableTypes
  <2>2. /\ Watched' = Watched \cup {Len(paths) + 1} /\ Len(paths) + 1 \notin Watched
        /\ \A wd \in Watched : watches'[wd] = watches[wd]
    BY <1>1, <1>2, <2>1, WithKeepsTable
  <2>3. Watched' = Watched \cup {n} /\ n \notin Watched
    BY <2>2
  <2>4. With(w) = [wd \in Watched \cup {n} |-> IF wd \in Watched THEN watches[wd] ELSE w]
    BY DEF With
  <2> HIDE DEF n
  <2>5. watches'[n] = w
    BY <1>1, <2>3, <2>4
  <2>6. QED
    BY <2>2, <2>3, <2>5
<1> HIDE DEF n
<1>4. DOMAIN taken = {}
  BY <1>2 DEF TypeInv, PhaseTypes
<1>5. OfTheDir'
  <2>1. IsDir(w) => w.of = "dir"
    BY <1>1, <1>2 DEF LookInv, OfTheDir, IsDir
  <2>2. QED
    BY <1>1, <1>2, <1>3, <2>1 DEF LookInv, OfTheDir
<1>6. KidsUpToDate'
  <2>1. IsDir(w) /\ ~w.missed => w.kids = dir
    BY <1>1 DEF IsDir
  <2>2. ASSUME NEW wd \in Watched', IsDir(watches[wd])', Unnoted(watches[wd])', ~watches'[wd].missed, dir # NoFiles
        PROVE  watches'[wd].kids = dir
    <3>1. CASE wd = n
      BY <1>3, <2>1, <2>2, <3>1 DEF IsDir
    <3>2. CASE wd # n
      <4>1. wd \in Watched /\ watches'[wd] = watches[wd]
        BY <1>3, <3>2
      <4>2. QED
        BY <1>1, <1>4, <2>2, <4>1 DEF LookInv, KidsUpToDate, NothingPending, IsDir, Unnoted
    <3>3. QED
      BY <3>1, <3>2
  <2>3. QED
    BY <1>2, <2>2 DEF KidsUpToDate
<1>7. EmptyWhenGone' /\ LookedAt'
  BY <1>2, <1>4 DEF LookInv, EmptyWhenGone, LookedAt
<1>8. QED
  BY <1>5, <1>6, <1>7 DEF LookInv

LEMMA TakeKeepsLook ==
  ASSUME TypeInv, LookInv, TypeInv', Take
  PROVE  LookInv'
<1>1. /\ UNCHANGED <<arm, there, dir, look>> /\ arm = "vnode" /\ pc = "idle" /\ pc' = "taking"
      /\ watches' = [wd \in Watched |-> [watches[wd] EXCEPT !.note = {}]]
      /\ taken' = [wd \in {o \in Watched : watches[o].note # {}} |-> watches[wd].note]
  BY DEF Take, files
<1>2. Watched' = Watched /\ DOMAIN taken = {}
  BY <1>1 DEF Watched, TypeInv, PhaseTypes
<1>3. ASSUME NEW wd \in Watched
      PROVE  /\ watches'[wd].path = watches[wd].path /\ watches'[wd].of = watches[wd].of
             /\ watches'[wd].kids = watches[wd].kids /\ watches'[wd].missed = watches[wd].missed
             /\ watches'[wd].dead = watches[wd].dead
             /\ watches[wd].note \subseteq {"write", "rename", "delete"}
  <2>1. watches[wd] \in VWatch
    BY <1>1 DEF TypeInv, TableTypes, WatchType
  <2>2. watches'[wd] = [watches[wd] EXCEPT !.note = {}]
    BY <1>1
  <2>3. QED
    BY <2>1, <2>2 DEF VWatch
<1>4. OfTheDir'
  BY <1>1, <1>2, <1>3, ZenonT(40) DEF LookInv, OfTheDir, IsDir
<1>5. LookedAt'
  <2>1. \A wd \in DOMAIN taken' : wd \in Watched /\ taken'[wd] = watches[wd].note
    BY <1>1
  <2>2. \A wd \in DOMAIN taken' : "looked" \notin taken'[wd]
    BY <1>3, <2>1
  <2>3. QED
    BY <2>2 DEF LookedAt
<1>6. KidsUpToDate'
  <2> SUFFICES ASSUME NEW wd \in Watched, IsDir(watches[wd]), ~watches[wd].dead, ~watches[wd].missed,
                      dir # NoFiles, NothingPending(wd)'
               PROVE  watches[wd].kids = dir
    BY <1>1, <1>2, <1>3 DEF KidsUpToDate, IsDir, Unnoted
  <2>1. "write" \notin watches[wd].note
    BY <1>1 DEF NothingPending
  <2>2. QED
    BY <1>1, <1>2, <2>1 DEF LookInv, KidsUpToDate, Unnoted, NothingPending
<1>7. QED
  BY <1>1, <1>4, <1>5, <1>6 DEF LookInv, EmptyWhenGone

LEMMA StartLookKeepsLook ==
  ASSUME TypeInv, LookInv, TypeInv', NEW wd \in Wd, StartLook(wd)
  PROVE  LookInv'
<1>1. /\ UNCHANGED <<arm, there, dir, watches, adding>> /\ Watched' = Watched
      /\ pc = "taking" /\ pc' = "looking" /\ wd \in DOMAIN taken /\ MustLook(wd)
      /\ look' = [left |-> IF there THEN Names ELSE <<>>, fresh |-> NoFiles]
      /\ taken' = [taken EXCEPT ![wd] = @ \cup {"looked"}]
  BY DEF StartLook, files, NotLooking, Watched
<1>2. /\ DOMAIN taken' = DOMAIN taken
      /\ \A o \in DOMAIN taken : taken'[o] = IF o = wd THEN taken[o] \cup {"looked"} ELSE taken[o]
  BY <1>1
<1>3. \A o \in DOMAIN taken : "looked" \notin taken[o]
  BY <1>1 DEF LookInv, LookedAt
<1>4. \A n \in Name : n \in ToLookAt' \/ look'.fresh[n] = dir[n]
  <2>1. CASE there
    <3>1. look'.left = Names
      BY <1>1, <2>1
    <3>2. \A n \in Name : \E i \in 1..Len(Names) : Names[i] = n
      <4>1. DOMAIN Names = 1..Len(Names)
        BY SmallFacts
      <4>2. QED
        BY <4>1 DEF Name, Range
    <3>3. QED
      BY <3>1, <3>2 DEF ToLookAt
  <2>2. CASE ~there
    BY <1>1, <2>2 DEF LookInv, EmptyWhenGone
  <2>3. QED
    BY <2>1, <2>2
<1>5. LookedAt'
  BY <1>1, <1>2, <1>3, <1>4 DEF LookedAt, MustLook
<1>6. KidsUpToDate'
  BY <1>1, <1>2 DEF LookInv, KidsUpToDate, NothingPending
<1>7. EmptyWhenGone' /\ OfTheDir'
  BY <1>1 DEF LookInv, EmptyWhenGone, OfTheDir
<1>8. QED
  BY <1>5, <1>6, <1>7 DEF LookInv

LEMMA TranslateKeepsLook ==
  ASSUME TypeInv, LookInv, TypeInv', NEW wd \in Wd, NEW written, Translate(wd, written)
  PROVE  LookInv'
<1>1. /\ arm = "vnode" /\ wd \in Watched /\ wd \in DOMAIN taken
      /\ watches' = IF "delete" \in taken[wd] THEN Without({wd})
                    ELSE [watches EXCEPT ![wd] = IF SomeSeen THEN Kept(watches[wd], look.fresh) ELSE watches[wd]]
  BY TranslateShape
<1>2. /\ UNCHANGED <<arm, there, dir, adding>> /\ look.left = <<>> /\ pc \in {"taking", "looking"}
      /\ IF MustLook(wd) THEN "looked" \in taken[wd] ELSE pc = "taking"
      /\ taken' = [o \in DOMAIN taken \ {wd} |-> taken[o]]
      /\ pc' \in {"idle", "taking"}
  BY DEF Translate, files
<1>3. /\ DOMAIN taken' = DOMAIN taken \ {wd} /\ \A o \in DOMAIN taken' : taken'[o] = taken[o]
      /\ Watched' = (IF "delete" \in taken[wd] THEN Watched \ {wd} ELSE Watched)
  BY <1>1, <1>2 DEF Watched, Without
<1>4. \A o \in Watched' : o # wd => watches'[o] = watches[o]
  BY <1>1 DEF Watched, Without
<1>5. LookedAt'
  <2>1. \A o \in DOMAIN taken' : "looked" \notin taken[o]
    <3> SUFFICES ASSUME NEW o \in DOMAIN taken, o # wd, "looked" \in taken[o] PROVE FALSE
      BY <1>3
    <3>1. pc = "looking" /\ "looked" \notin taken[wd]
      BY <1>1 DEF LookInv, LookedAt
    <3>2. QED
      BY <1>2, <3>1
  <2>2. QED
    BY <1>3, <2>1 DEF LookedAt
<1>6. ASSUME wd \in Watched'
      PROVE  /\ watches'[wd] = IF SomeSeen THEN Kept(watches[wd], look.fresh) ELSE watches[wd]
             /\ IsDir(watches[wd])' = IsDir(watches[wd]) /\ Unnoted(watches[wd])' = Unnoted(watches[wd])
             /\ watches'[wd].of = watches[wd].of
             /\ (IsDir(watches[wd]) /\ Unnoted(watches[wd]) /\ ~watches'[wd].missed /\ dir # NoFiles)
                  => watches'[wd].kids = dir
  <2>1. watches'[wd] = IF SomeSeen THEN Kept(watches[wd], look.fresh) ELSE watches[wd]
    BY <1>1, <1>3, <1>6 DEF Watched
  <2>2. watches[wd] \in VWatch
    BY <1>1 DEF TypeInv, TableTypes, WatchType
  <2>3. /\ watches'[wd].path = watches[wd].path /\ watches'[wd].of = watches[wd].of
        /\ watches'[wd].dead = watches[wd].dead /\ watches'[wd].note = watches[wd].note
        /\ watches'[wd].kids = IF SomeSeen THEN look.fresh ELSE watches[wd].kids
        /\ watches'[wd].missed = IF SomeSeen THEN FALSE ELSE watches[wd].missed
    BY <2>1, <2>2 DEF Kept, VWatch
  <2>4. ASSUME IsDir(watches[wd]), Unnoted(watches[wd]), ~watches'[wd].missed, dir # NoFiles
        PROVE  watches'[wd].kids = dir
    <3>1. CASE "write" \in taken[wd]
      <4>1. MustLook(wd) /\ "looked" \in taken[wd]
        BY <1>2, <2>4, <3>1 DEF MustLook
      <4>2. ToLookAt = {}
        BY <1>2 DEF ToLookAt
      <4>3. \A n \in Name : look.fresh[n] = dir[n]
        BY <1>1, <2>4, <4>1, <4>2 DEF LookInv, LookedAt
      <4>4. look.fresh \in [Name -> Ino \cup {None}] /\ dir \in [Name -> Ino \cup {None}]
        BY DEF TypeInv, PhaseTypes, WorldTypes, Listings
      <4>5. look.fresh = dir
        BY <4>3, <4>4
      <4>6. QED
        BY <2>3, <2>4, <4>5 DEF SomeSeen
    <3>2. CASE "write" \notin taken[wd]
      <4>1. ~MustLook(wd) /\ look = NotLooking
        BY <1>2, <3>2 DEF MustLook, TypeInv, PhaseTypes
      <4>2. ~SomeSeen
        BY <4>1 DEF SomeSeen, NotLooking
      <4>3. QED
        BY <1>1, <2>3, <2>4, <3>2, <4>2 DEF LookInv, KidsUpToDate, NothingPending
    <3>3. QED
      BY <3>1, <3>2
  <2>5. QED
    BY <2>1, <2>3, <2>4 DEF IsDir, Unnoted
<1>7. OfTheDir'
  <2>1. \A o \in Watched' : IsDir(watches'[o]) => watches'[o].of = "dir"
    <3>1. \A o \in Watched' : o \in Watched
      BY <1>3
    <3>2. QED
      BY <1>1, <1>4, <1>6, <3>1 DEF LookInv, OfTheDir, IsDir
  <2>2. QED
    BY <1>2, <2>1 DEF OfTheDir
<1>8. KidsUpToDate'
  <2> SUFFICES ASSUME NEW o \in Watched', IsDir(watches'[o]), Unnoted(watches'[o]), ~watches'[o].missed, dir # NoFiles,
                      NothingPending(o)'
               PROVE  watches'[o].kids = dir
    BY <1>2 DEF KidsUpToDate
  <2>1. CASE o = wd
    BY <1>6, <2>1 DEF IsDir, Unnoted
  <2>2. CASE o # wd
    <3>1. watches'[o] = watches[o] /\ o \in Watched /\ NothingPending(o)
      BY <1>3, <1>4, <2>2 DEF NothingPending
    <3>2. QED
      BY <1>1, <3>1 DEF LookInv, KidsUpToDate
  <2>3. QED
    BY <2>1, <2>2
<1>9. QED
  BY <1>2, <1>5, <1>7, <1>8 DEF LookInv, EmptyWhenGone

LEMMA NextKeepsLook ==
  ASSUME TypeInv, LookInv, TypeInv', [Next]_vars
  PROVE  LookInv'
<1>1. CASE World
  BY <1>1, WorldKeepsLook
<1>2. ASSUME arm = "changes", UNCHANGED <<arm, there, dir>> PROVE LookInv'
  BY <1>2, NobodyLooks DEF LookInv, EmptyWhenGone
<1>3. CASE Asks
  <2>1. ASSUME NEW path \in Path, NEW mask \in Masks, AddWatch(path, mask) PROVE LookInv'
    BY <1>2, <2>1 DEF AddWatch, files
  <2>2. QED
    BY <1>3, <2>1, OthersKeepLook DEF Asks
<1>4. CASE Reads
  <2>1. CASE Drain
    BY <1>2, <2>1 DEF Drain, files
  <2>2. ASSUME NEW wd \in Wd, NEW resolves, Completion(wd, resolves) PROVE LookInv'
    BY <1>2, <2>2, CompletionShape DEF files
  <2>3. ASSUME NEW wd \in Wd, ReadFails(wd) \/ UpCompletion(wd) \/ UpMisses(wd) \/ UpFails(wd) PROVE LookInv'
    <3>1. pc = "draining" /\ UNCHANGED <<arm, there, dir>>
      BY <2>3 DEF ReadFails, UpCompletion, UpMisses, UpFails, files
    <3>2. QED
      BY <1>2, <3>1 DEF TypeInv, PhaseTypes
  <2>4. CASE CheckGone
    BY <1>2, <2>4, CheckGoneShape DEF files
  <2>5. CASE PortEmpty
    <3>1. pc = "draining" /\ UNCHANGED <<arm, there, dir>>
      BY <2>5 DEF PortEmpty, files
    <3>2. QED
      BY <1>2, <3>1 DEF TypeInv, PhaseTypes
  <2>6. QED
    BY <1>4, <2>1, <2>2, <2>3, <2>4, <2>5, OthersKeepLook, LookAtKeepsLook, RegisterKeepsLook, TakeKeepsLook,
       StartLookKeepsLook, TranslateKeepsLook DEF Reads
<1>5. CASE UNCHANGED vars
  BY <1>5 DEF vars, files, scanning, LookInv, EmptyWhenGone, OfTheDir, LookedAt, KidsUpToDate,
              NothingPending, Watched, MustLook, ToLookAt
<1>6. QED
  BY <1>1, <1>3, <1>4, <1>5 DEF Next

(***************************************************************************)
(* In every state each name that a look at the directory has passed is as  *)
(* it was found, unless the watch has a note of a change since, which      *)
(* take_events will see (scan, directory_changed, take_events).            *)
(***************************************************************************)
THEOREM LooksHold == Spec => []LookInv
<1>1. Init => LookInv
  BY InitLook
<1>2. TypeInv /\ TypeInv' /\ LookInv /\ [Next]_vars => LookInv'
  BY NextKeepsLook
<1>3. QED
  BY <1>1, <1>2, TypesHold, PTL DEF Spec

(***************************************************************************)
(* With no note and no call under way, what a watch of the directory last  *)
(* saw is what is there, though scan looks at one name after the other     *)
(* while other programs change them; not so after the directory was        *)
(* emptied (directory_changed leaves it as it was) or when it changed      *)
(* between add_watch's look and its EV_ADD.                                *)
(***************************************************************************)
THEOREM UpToDateAtRest == Spec => []AtRestUpToDate
<1>1. TypeInv /\ LookInv => AtRestUpToDate
  <2> SUFFICES ASSUME TypeInv, LookInv, NEW wd \in Watched, arm = "vnode", IsDir(watches[wd]),
                      ~watches[wd].dead, ~watches[wd].missed, watches[wd].note = {}, wd \notin DOMAIN taken,
                      dir # NoFiles
               PROVE  watches[wd].kids = dir
    BY DEF AtRestUpToDate
  <2>1. Unnoted(watches[wd]) /\ NothingPending(wd)
    BY DEF Unnoted, NothingPending
  <2>2. QED
    BY <2>1 DEF LookInv, KidsUpToDate
<1>2. QED
  BY <1>1, TypesHold, LooksHold, PTL

-----------------------------------------------------------------------------
(***************************************************************************)
(* What records make of a listing.                                         *)
(***************************************************************************)
Maps(F, D, E) == \A r \in D : F[r] \in E
Each(F, u) == [i \in 1..Len(u) |-> F[u[i]]]
QueuedAll(wd, recs) == [i \in 1..Len(recs) |-> Queued(wd, recs[i])]
Retold(names, wd, recs) == Replayed(names, wd, QueuedAll(wd, recs))
Effect(names, r) ==
  IF r.name = None THEN names
  ELSE IF r.kind \in {"CREATE", "MOVED_TO"} THEN names \cup {r.name}
  ELSE IF r.kind \in {"DELETE", "MOVED_FROM"} THEN names \ {r.name}
  ELSE names

LEMMA EffectIs ==
  ASSUME NEW names, NEW wd, NEW r
  PROVE  Replay(names, wd, Queued(wd, r)) = Effect(names, r)
  BY DEF Replay, Effect, Queued

LEMMA EachShape ==
  ASSUME NEW D, NEW E, NEW F, Maps(F, D, E)
  PROVE  /\ \A u \in Seq(D) : Each(F, u) \in Seq(E)
         /\ \A u \in Seq(D), r \in D : Each(F, Append(u, r)) = Append(Each(F, u), F[r])
<1>1. ASSUME NEW u \in Seq(D) PROVE [i \in 1..Len(u) |-> F[u[i]]] \in Seq(E)
  <2>1. Len(u) \in Nat /\ \A i \in 1..Len(u) : F[u[i]] \in E
    BY DEF Maps
  <2>2. QED
    BY <2>1
<1>2. ASSUME NEW u \in Seq(D), NEW r \in D
      PROVE  [i \in 1..Len(Append(u, r)) |-> F[Append(u, r)[i]]] = Append([i \in 1..Len(u) |-> F[u[i]]], F[r])
  <2> DEFINE n == Len(u)
             v == Append(u, r)
             a == [i \in 1..n |-> F[u[i]]]
             b == [i \in 1..Len(v) |-> F[v[i]]]
             c == Append(a, F[r])
  <2>1. n \in Nat /\ v \in Seq(D) /\ Len(v) = n + 1 /\ v[n + 1] = r /\ \A i \in 1..n : v[i] = u[i]
    BY AppendFacts
  <2>2. a \in Seq(E) /\ Len(a) = n
    BY <1>1, <2>1
  <2>3. b \in Seq(E) /\ Len(b) = n + 1 /\ \A i \in 1..(n + 1) : b[i] = F[v[i]]
    <3>1. b \in Seq(E)
      BY <1>1, <2>1
    <3> HIDE DEF v, n
    <3>2. Len(v) \in Nat /\ b = [i \in 1..(n + 1) |-> F[v[i]]]
      BY <2>1
    <3>3. QED
      BY <2>1, <3>1, <3>2
  <2>4. \A i \in 1..n : a[i] = F[u[i]]
    OBVIOUS
  <2> HIDE DEF n, v, b, a
  <2>5. c \in Seq(E) /\ Len(c) = n + 1 /\ c[n + 1] = F[r] /\ \A i \in 1..n : c[i] = a[i]
    <3>1. F[r] \in E
      BY DEF Maps
    <3>2. QED
      BY <2>2, <3>1, AppendFacts
  <2> HIDE DEF c
  <2>6. \A i \in 1..(n + 1) : b[i] = c[i]
    <3>1. \A i \in 1..(n + 1) : i \in 1..n \/ i = n + 1
      BY <2>1
    <3>2. \A i \in 1..n : i \in 1..(n + 1)
      BY <2>1
    <3>3. n + 1 \in 1..(n + 1)
      BY <2>1
    <3>4. \A i \in 1..n : b[i] = c[i]
      BY <2>1, <2>3, <2>4, <2>5, <3>2
    <3>5. b[n + 1] = c[n + 1]
      BY <2>1, <2>3, <2>5, <3>3
    <3>6. QED
      BY <3>1, <3>4, <3>5
  <2>7. b = c
    <3>1. ASSUME NEW x \in Seq(E), NEW y \in Seq(E), Len(x) = Len(y), \A i \in 1..Len(x) : x[i] = y[i]
          PROVE  x = y
      BY <3>1
    <3>2. QED
      BY <2>3, <2>5, <2>6, <3>1
  <2>8. QED
    BY <2>7 DEF n, v, a, b, c
<1>3. QED
  BY <1>1, <1>2 DEF Each

LEMMA QueuedAllShape ==
  ASSUME NEW wd \in Wd
  PROVE  /\ QueuedAll(wd, <<>>) = <<>>
         /\ \A u \in Seq(Said) : QueuedAll(wd, u) \in Seq(Entry)
         /\ \A u \in Seq(Said), r \in Said :
              QueuedAll(wd, Append(u, r)) = Append(QueuedAll(wd, u), Queued(wd, r))
<1> DEFINE F == [r \in Said |-> Queued(wd, r)]
<1>1. Maps(F, Said, Entry) /\ \A r \in Said : F[r] = Queued(wd, r)
  BY QueuedEntry DEF Maps
<1>2. ASSUME NEW u \in Seq(Said) PROVE QueuedAll(wd, u) = Each(F, u)
  <2>1. \A i \in 1..Len(u) : Queued(wd, u[i]) = F[u[i]]
    BY <1>1
  <2> HIDE DEF F
  <2>2. QED
    BY <2>1 DEF QueuedAll, Each
<1> HIDE DEF F
<1>3. \A u \in Seq(Said), r \in Said : Append(u, r) \in Seq(Said) /\ <<>> \in Seq(Said)
  OBVIOUS
<1>4. QueuedAll(wd, <<>>) = <<>>
  BY DEF QueuedAll
<1>5. \A u \in Seq(Said) : QueuedAll(wd, u) \in Seq(Entry)
  BY <1>1, <1>2, EachShape
<1>6. ASSUME NEW u \in Seq(Said), NEW r \in Said
      PROVE  QueuedAll(wd, Append(u, r)) = Append(QueuedAll(wd, u), Queued(wd, r))
  <2>1. Each(F, Append(u, r)) = Append(Each(F, u), F[r])
    BY <1>1, EachShape
  <2>2. QED
    BY <1>1, <1>2, <1>3, <2>1
<1>7. QED
  BY <1>4, <1>5, <1>6

LEMMA RetoldShape ==
  ASSUME NEW wd \in Wd, NEW names \in NameSets
  PROVE  /\ Retold(names, wd, <<>>) = names
         /\ \A u \in Seq(Said) : Retold(names, wd, u) \in NameSets
         /\ \A u \in Seq(Said), r \in Said :
              Retold(names, wd, Append(u, r)) = Effect(Retold(names, wd, u), r)
<1>1. Retold(names, wd, <<>>) = names
  BY QueuedAllShape, ReplayedShape DEF Retold
<1>2. \A u \in Seq(Said) : Retold(names, wd, u) \in NameSets
  BY QueuedAllShape, ReplayedShape DEF Retold
<1>3. ASSUME NEW u \in Seq(Said), NEW r \in Said
      PROVE  Retold(names, wd, Append(u, r)) = Effect(Retold(names, wd, u), r)
  <2>1. QueuedAll(wd, u) \in Seq(Entry) /\ Queued(wd, r) \in Entry
        /\ QueuedAll(wd, Append(u, r)) = Append(QueuedAll(wd, u), Queued(wd, r))
    BY QueuedAllShape, QueuedEntry
  <2>2. Replayed(names, wd, Append(QueuedAll(wd, u), Queued(wd, r)))
        = Replay(Replayed(names, wd, QueuedAll(wd, u)), wd, Queued(wd, r))
    BY <2>1, ReplayedShape
  <2>3. QED
    BY <2>1, <2>2, EffectIs DEF Retold
<1>4. QED
  BY <1>1, <1>2, <1>3

LEMMA RetoldAppend ==
  ASSUME NEW wd \in Wd, NEW names \in NameSets, NEW u \in Seq(Said), NEW r \in Said
  PROVE  Retold(names, wd, Append(u, r)) = Effect(Retold(names, wd, u), r)
  BY RetoldShape

\* What is not told of names changes no listing.
LEMMA EffectStays ==
  ASSUME NEW names \in NameSets, NEW r \in Said, r.kind \notin NameKinds \/ r.name = None
  PROVE  Effect(names, r) = names
  BY DEF Effect, NameKinds

\* A record that is not lost does to the listing what it says, emitted or masked.
LEMMA EmitReplays ==
  ASSUME NEW s \in QSet, NEW wd \in Wd, NEW r \in Said, NEW v \in NameSets,
         wd \notin EmitMasked(s, wd, r).lost
  PROVE  /\ wd \notin s.lost
         /\ Replayed(v, wd, EmitMasked(s, wd, r).queue) = Effect(Replayed(v, wd, s.queue), r)
<1> DEFINE t == EmitMasked(s, wd, r)
<1>1. t \in QSet /\ (Through(s, t, wd, r) \/ Warned(s, t, wd) \/ Dropped(s, t, wd) \/ Hidden(s, t, wd, r))
  BY EmitMaskedCases
<1>2. s.queue \in Seq(Entry) /\ Queued(wd, r) \in Entry
  BY QueuedEntry DEF QSet
<1>3. wd \notin t.lost
  OBVIOUS
<1> HIDE DEF t
<1>4. CASE Through(s, t, wd, r)
  <2>1. t.queue = Append(s.queue, Queued(wd, r)) /\ t.lost = s.lost
    BY <1>4 DEF Through
  <2>2. Replayed(v, wd, Append(s.queue, Queued(wd, r))) = Replay(Replayed(v, wd, s.queue), wd, Queued(wd, r))
    BY <1>2, ReplayedShape
  <2>3. QED
    BY <1>3, <2>1, <2>2, EffectIs DEF t
<1>5. CASE Hidden(s, t, wd, r)
  <2>1. t.queue = s.queue /\ r.kind \notin NameKinds /\ t.lost = s.lost
    BY <1>3, <1>5 DEF Hidden
  <2>2. Replayed(v, wd, s.queue) \in NameSets
    BY <1>2, ReplayedShape
  <2>3. Effect(Replayed(v, wd, s.queue), r) = Replayed(v, wd, s.queue)
    BY <2>1, <2>2, EffectStays
  <2>4. QED
    BY <1>3, <2>1, <2>3 DEF t
<1>6. QED
  BY <1>1, <1>3, <1>4, <1>5 DEF Warned, Dropped

LEMMA AllReplay ==
  ASSUME NEW s \in QSet, NEW wd \in Wd, NEW recs \in Seq(Said), NEW v \in NameSets,
         wd \notin EmitAll(s, wd, recs).lost
  PROVE  /\ wd \notin s.lost
         /\ Replayed(v, wd, EmitAll(s, wd, recs).queue) = Retold(Replayed(v, wd, s.queue), wd, recs)
<1> DEFINE base == Replayed(v, wd, s.queue)
           T == {u \in Seq(Said) : wd \notin EmitAll(s, wd, u).lost =>
                   /\ wd \notin s.lost
                   /\ Replayed(v, wd, EmitAll(s, wd, u).queue) = Retold(base, wd, u)}
<1>1. base \in NameSets
  BY ReplayedShape DEF QSet
<1> HIDE DEF base
<1>2. <<>> \in T
  <2>1. EmitAll(s, wd, <<>>) = s /\ Retold(base, wd, <<>>) = base /\ <<>> \in Seq(Said)
    BY <1>1, EmitAllShape, RetoldShape
  <2>2. QED
    BY <2>1 DEF base
<1>3. ASSUME NEW u \in Seq(Said), NEW r \in Said, u \in T PROVE Append(u, r) \in T
  <2> DEFINE a == EmitAll(s, wd, u)
             b == EmitAll(s, wd, Append(u, r))
  <2>1. a \in QSet /\ b = EmitMasked(a, wd, r) /\ Append(u, r) \in Seq(Said)
    BY EmitAllShape
  <2>2. Retold(base, wd, Append(u, r)) = Effect(Retold(base, wd, u), r)
    BY <1>1, RetoldShape
  <2>3. wd \notin a.lost => wd \notin s.lost /\ Replayed(v, wd, a.queue) = Retold(base, wd, u)
    BY <1>3
  <2> HIDE DEF a
  <2>4. wd \notin EmitMasked(a, wd, r).lost =>
          /\ wd \notin a.lost
          /\ Replayed(v, wd, EmitMasked(a, wd, r).queue) = Effect(Replayed(v, wd, a.queue), r)
    BY <2>1, EmitReplays
  <2>5. wd \notin b.lost => /\ wd \notin s.lost
                            /\ Replayed(v, wd, b.queue) = Retold(base, wd, Append(u, r))
    BY <2>1, <2>2, <2>3, <2>4
  <2> HIDE DEF b
  <2>6. QED
    BY <2>1, <2>5 DEF b
<1> HIDE DEF T
<1>4. recs \in T
  BY <1>2, <1>3, SeqInduction
<1>5. QED
  BY <1>4 DEF T, base

\* Records of others change nothing.
LEMMA NoneReplays ==
  ASSUME NEW wd \in Wd, NEW v \in NameSets, NEW queue \in Seq(Entry), NoneOf(queue, wd)
  PROVE  Replayed(v, wd, queue) = v
<1> DEFINE T == {u \in Seq(Entry) : NoneOf(u, wd) => Replayed(v, wd, u) = v}
<1>1. <<>> \in T
  BY ReplayedShape
<1>2. ASSUME NEW u \in Seq(Entry), NEW r \in Entry, u \in T PROVE Append(u, r) \in T
  <2> DEFINE w == Append(u, r)
             n == Len(u)
  <2>1. w \in Seq(Entry) /\ n \in Nat /\ Len(w) = n + 1 /\ w[n + 1] = r /\ \A i \in 1..n : w[i] = u[i]
    BY AppendFacts
  <2>2. Replayed(v, wd, w) = Replay(Replayed(v, wd, u), wd, r)
    BY ReplayedShape
  <2> HIDE DEF w, n
  <2>3. n + 1 \in 1..(n + 1) /\ \A i \in 1..n : i \in 1..(n + 1)
    BY <2>1
  <2>4. ASSUME NoneOf(w, wd) PROVE Replayed(v, wd, w) = v
    <3>1. r.wd # wd /\ NoneOf(u, wd)
      BY <2>1, <2>3, <2>4 DEF NoneOf, n
    <3>2. Replayed(v, wd, u) = v
      BY <1>2, <3>1
    <3>3. QED
      BY <2>2, <3>1, <3>2 DEF Replay
  <2>5. QED
    BY <2>1, <2>4 DEF w
<1> HIDE DEF T
<1>3. queue \in T
  BY <1>1, <1>2, SeqInduction
<1>4. QED
  BY <1>3 DEF T

LEMMA OthersReplay ==
  ASSUME NEW s \in QSet, NEW t \in QSet, NEW wd, Grows(s, t, wd), NEW o \in Wd, o # wd, NEW v \in NameSets
  PROVE  Replayed(v, o, t.queue) = Replayed(v, o, s.queue) /\ (o \notin t.lost => o \notin s.lost)
<1> DEFINE a == s.queue
           b == t.queue
           m == Len(a)
           n == Len(b)
           c == SubSeq(b, m + 1, n)
<1>1. /\ a \in Seq(Entry) /\ b \in Seq(Entry) /\ m \in Nat /\ n \in Nat /\ n >= m
      /\ (\A i \in 1..m : b[i] = a[i]) /\ (\A i \in (m + 1)..n : b[i].wd \in {wd, -1})
  BY DEF Grows, QSet
<1> HIDE DEF a, b
<1>2. ASSUME NEW x \in Seq(Entry), NEW y \in Seq(Entry), Len(y) >= Len(x), \A i \in 1..Len(x) : y[i] = x[i]
      PROVE  LET z == SubSeq(y, Len(x) + 1, Len(y))
             IN /\ z \in Seq(Entry) /\ y = x \o z /\ Len(z) = Len(y) - Len(x)
                /\ \A i \in 1..Len(z) : Len(x) + i \in (Len(x) + 1)..Len(y) /\ z[i] = y[Len(x) + i]
  BY <1>2
<1>3. /\ c \in Seq(Entry) /\ b = a \o c
      /\ \A i \in 1..Len(c) : m + i \in (m + 1)..n /\ c[i] = b[m + i]
  BY <1>1, <1>2
<1> HIDE DEF c
<1>4. NoneOf(c, o)
  <2>1. o # -1
    BY DEF Wd
  <2>2. QED
    BY <1>1, <1>3, <2>1 DEF NoneOf
<1>5. Replayed(v, o, a) \in NameSets
  BY <1>1, ReplayedShape
<1>6. Replayed(v, o, a \o c) = Replayed(Replayed(v, o, a), o, c)
  BY <1>1, <1>3, ReplayedConcat
<1>7. Replayed(Replayed(v, o, a), o, c) = Replayed(v, o, a)
  BY <1>3, <1>4, <1>5, NoneReplays
<1>8. o \notin t.lost => o \notin s.lost
  BY DEF Grows
<1>9. QED
  BY <1>3, <1>6, <1>7, <1>8 DEF a, b

LEMMA EffectOf ==
  ASSUME NEW names \in NameSets, NEW n \in Name, NEW c
  PROVE  /\ Effect(names, Plain("CREATE", n)) = names \cup {n}
         /\ Effect(names, Rec("MOVED_TO", n, c)) = names \cup {n}
         /\ Effect(names, Plain("DELETE", n)) = names \ {n}
         /\ Effect(names, Rec("MOVED_FROM", n, c)) = names \ {n}
         /\ Effect(names, Plain("MODIFY", n)) = names
<1>1. n # None
  BY WatchAssumption
<1>2. QED
  BY <1>1 DEF Effect, Plain, Rec

LEMMA WithinShape ==
  ASSUME NEW D
  PROVE  /\ Within(<<>>) = {}
         /\ \A u \in Seq(D), r \in D : Within(Append(u, r)) = Within(u) \cup {r}
<1>1. Within(<<>>) = {}
  BY DEF Within
<1>2. ASSUME NEW u \in Seq(D), NEW r \in D PROVE Within(Append(u, r)) = Within(u) \cup {r}
  <2> DEFINE n == Len(u)
             w == Append(u, r)
  <2>1. n \in Nat /\ Len(w) = n + 1 /\ w[n + 1] = r /\ \A i \in 1..n : w[i] = u[i]
    BY AppendFacts
  <2> HIDE DEF n, w
  <2>2. \A i \in 1..(n + 1) : i \in 1..n \/ i = n + 1
    BY <2>1
  <2>3. n + 1 \in 1..(n + 1) /\ \A i \in 1..n : i \in 1..(n + 1)
    BY <2>1
  <2>4. {w[i] : i \in 1..(n + 1)} = {u[i] : i \in 1..n} \cup {r}
    BY <2>1, <2>2, <2>3
  <2>5. QED
    BY <2>1, <2>4 DEF Within, n, w
<1>3. QED
  BY <1>1, <1>2

\* A name that stayed is in the listing before and after.
LEMMA StaysRetold ==
  ASSUME NEW wd \in Wd, NEW had \in Listings, NEW fresh \in Listings, NEW written, NEW names \in Seq(Name),
         NEW none \in Quiets, none = <<>>
  PROVE  Retold(NamesOf(had), wd, Stays(had, fresh, written, none, names)) = NamesOf(had)
<1> DEFINE X == NamesOf(had)
           T == {u \in Seq(Name) : Retold(X, wd, Stays(had, fresh, written, none, u)) = X}
<1>1. X \in NameSets
  BY DEF NamesOf, NameSets
<1>2. \A n \in Name : n \in X <=> had[n] # None
  BY DEF NamesOf
<1> HIDE DEF X
<1>3. <<>> \in T
  <2>1. Stays(had, fresh, written, none, <<>>) = none /\ Retold(X, wd, none) = X /\ <<>> \in Seq(Name)
    BY <1>1, StayShape, RetoldShape
  <2>2. QED
    BY <2>1
<1>4. ASSUME NEW u \in Seq(Name), NEW n \in Name, u \in T PROVE Append(u, n) \in T
  <2> DEFINE s == Stays(had, fresh, written, none, u)
             d == Plain("DELETE", n)
             c == Plain("CREATE", n)
             m == Plain("MODIFY", n)
  <2>1. Append(u, n) \in Seq(Name)
        /\ Stays(had, fresh, written, none, Append(u, n)) = AfterStay(s, n, had, fresh, written)
    <3>1. Append(u, n) \in Seq(Name)
      OBVIOUS
    <3>2. QED
      BY <3>1, StayAppend
  <2>2. s \in Quiets /\ Retold(X, wd, s) = X
    BY <1>4, StayShape
  <2>3. /\ d \in Quiet /\ c \in Quiet /\ m \in Quiet
        /\ Effect(X, m) = X /\ Effect(X, d) = X \ {n} /\ Effect(X \ {n}, c) = (X \ {n}) \cup {n}
    <3>1. X \ {n} \in NameSets
      BY <1>1 DEF NameSets
    <3>2. QED
      BY <1>1, <3>1, InPlaceSaid, EffectOf
  <2>4. \/ AfterStay(s, n, had, fresh, written) = s \o <<>>
        \/ had[n] # None /\ AfterStay(s, n, had, fresh, written) = s \o <<d, c>>
        \/ AfterStay(s, n, had, fresh, written) = s \o <<m>>
    BY DEF AfterStay, InPlace
  <2> HIDE DEF s, d, c, m
  <2>5. s \in Seq(Said) /\ d \in Said /\ c \in Said /\ m \in Said
    BY <2>2, <2>3, QuietSaid
  <2>6. s \o <<>> = s /\ s \o <<m>> = Append(s, m) /\ s \o <<d, c>> = Append(Append(s, d), c)
        /\ Append(s, d) \in Seq(Said)
    BY <2>5
  <2>7. Retold(X, wd, Append(s, m)) = X
    BY <1>1, <2>2, <2>3, <2>5, RetoldShape
  <2>8. Retold(X, wd, Append(Append(s, d), c)) = (X \ {n}) \cup {n}
    <3>1. Retold(X, wd, Append(s, d)) = X \ {n}
      BY <1>1, <2>2, <2>3, <2>5, RetoldShape
    <3>2. Retold(X, wd, Append(Append(s, d), c)) = Effect(Retold(X, wd, Append(s, d)), c)
      BY <1>1, <2>5, <2>6, RetoldShape, ZenonT(40)
    <3>3. QED
      BY <2>3, <3>1, <3>2
  <2>9. had[n] # None => (X \ {n}) \cup {n} = X
    BY <1>2
  <2>10. Retold(X, wd, AfterStay(s, n, had, fresh, written)) = X
    BY <2>2, <2>4, <2>6, <2>7, <2>8, <2>9
  <2>11. QED
    BY <2>1, <2>10 DEF s
<1> HIDE DEF T
<1>5. names \in T
  BY <1>3, <1>4, SeqInduction
<1>6. QED
  BY <1>5 DEF T, X

\* Names that left are out of the listing, and those they were renamed to are in.
Leaving(had, fresh) == {n \in Name : had[n] # None /\ fresh[n] = None}
Arriving(had, fresh) == {n \in Name : had[n] = None /\ fresh[n] # None}

LEMMA LeavesRetold ==
  ASSUME NEW wd \in Wd, NEW had \in Listings, NEW fresh \in Listings, NEW names \in Seq(Name), NEW start \in Finds,
         start.landed = {}, Retold(NamesOf(had), wd, start.recs) = NamesOf(had)
  PROVE  LET left == Leaves(had, fresh, start, names)
         IN /\ Retold(NamesOf(had), wd, left.recs)
               = (NamesOf(had) \ (Within(names) \cap Leaving(had, fresh))) \cup left.landed
            /\ left.landed \subseteq Arriving(had, fresh)
<1> DEFINE X == NamesOf(had)
           L(u) == Leaves(had, fresh, start, u)
           T == {u \in Seq(Name) :
                   /\ Retold(X, wd, L(u).recs) = (X \ (Within(u) \cap Leaving(had, fresh))) \cup L(u).landed
                   /\ L(u).landed \subseteq Arriving(had, fresh)}
<1>1. X \in NameSets
  BY DEF NamesOf, NameSets
<1>2. <<>> \in T
  <2>1. L(<<>>) = start /\ Within(<<>>) = {} /\ <<>> \in Seq(Name)
    BY LeftShape, WithinShape
  <2>2. QED
    BY <2>1
<1>3. ASSUME NEW u \in Seq(Name), NEW n \in Name, u \in T PROVE Append(u, n) \in T
  <2> DEFINE s == L(u)
             t == Departure(s, n, had, fresh)
             Y == X \ (Within(u) \cap Leaving(had, fresh))
             Z == X \ (Within(Append(u, n)) \cap Leaving(had, fresh))
             W == Y \cup s.landed
             d == Plain("DELETE", n)
  <2>1. Append(u, n) \in Seq(Name) /\ L(Append(u, n)) = t /\ s \in Finds
    BY LeftShape
  <2>2. Retold(X, wd, s.recs) = W /\ s.landed \subseteq Arriving(had, fresh)
    BY <1>3
  <2>3. Within(Append(u, n)) = Within(u) \cup {n}
    BY WithinShape
  <2>4. d \in Said
    BY InPlaceSaid, QuietSaid
  <2>5. s.recs \in Seq(Said) /\ s.cookie \in Cookie /\ Bumped(s.cookie) \in Cookie
    BY <2>1, QuietSaid, BumpedCookie DEF Finds
  <2>6. W \in NameSets
    <3> HIDE DEF s, X, W
    <3>1. QED
      BY <1>1, <2>2, <2>5, RetoldShape
  <2>7. \/ (had[n] = None \/ fresh[n] # None) /\ t = s
        \/ had[n] # None /\ fresh[n] = None /\ t = Deleted(s, n)
        \/ /\ had[n] # None /\ fresh[n] = None
           /\ \E m \in Name : had[m] = None /\ fresh[m] # None /\ t = Renamed(s, n, m)
    BY <2>1, DepartureCases
  <2> HIDE DEF s, t, d, X
  <2>8. ASSUME had[n] = None \/ fresh[n] # None, t = s
        PROVE  Retold(X, wd, t.recs) = Z \cup t.landed /\ t.landed \subseteq Arriving(had, fresh)
    <3>1. Y = Z
      BY <2>3, <2>8 DEF Leaving
    <3> HIDE DEF Y, Z
    <3>2. QED
      BY <2>2, <2>8, <3>1
  <2>9. ASSUME had[n] # None, fresh[n] = None
        PROVE  n \notin s.landed /\ Z = Y \ {n}
    BY <2>2, <2>3, <2>9 DEF Leaving, Arriving
  <2> HIDE DEF Y, Z
  <2> HIDE DEF W
  <2>10. ASSUME had[n] # None, fresh[n] = None, t = Deleted(s, n)
         PROVE  Retold(X, wd, t.recs) = Z \cup t.landed /\ t.landed \subseteq Arriving(had, fresh)
    <3>1. t.recs = Append(s.recs, d) /\ t.landed = s.landed
      BY <2>10 DEF Deleted, d
    <3>2. Retold(X, wd, t.recs) = Effect(W, d)
      BY <1>1, <2>2, <2>4, <2>5, <3>1, RetoldAppend
    <3>3. Effect(W, d) = W \ {n}
      BY <2>6, EffectOf DEF d
    <3>4. QED
      BY <2>2, <2>9, <2>10, <3>1, <3>2, <3>3 DEF W
  <2>11. ASSUME had[n] # None, fresh[n] = None,
                NEW m \in Name, had[m] = None, fresh[m] # None, t = Renamed(s, n, m)
         PROVE  Retold(X, wd, t.recs) = Z \cup t.landed /\ t.landed \subseteq Arriving(had, fresh)
    <3> DEFINE c == Bumped(s.cookie)
               a == Rec("MOVED_FROM", n, c)
               b == Rec("MOVED_TO", m, c)
    <3>1. t.recs = s.recs \o Moved(n, m, c) /\ t.landed = s.landed \cup {m}
      BY <2>11 DEF Renamed
    <3>2. Moved(n, m, c) = <<a, b>>
      BY DEF Moved
    <3>3. a \in Said /\ b \in Said
      BY <2>5, MovedSaid, QuietSaid
    <3>4. W \ {n} \in NameSets
      BY <2>6 DEF NameSets
    <3>5. Effect(W, a) = W \ {n}
      BY <2>6, EffectOf
    <3>6. Effect(W \ {n}, b) = (W \ {n}) \cup {m}
      BY <3>4, EffectOf
    <3> HIDE DEF a, b, c
    <3>7. t.recs = Append(Append(s.recs, a), b) /\ Append(s.recs, a) \in Seq(Said)
      BY <2>5, <3>1, <3>2, <3>3, TwoMore
    <3>8. Retold(X, wd, Append(s.recs, a)) = Effect(W, a)
      BY <1>1, <2>2, <2>5, <3>3, RetoldAppend
    <3>9. Retold(X, wd, t.recs) = Effect(Retold(X, wd, Append(s.recs, a)), b)
      <4> DEFINE p == Append(s.recs, a)
      <4>1. p \in Seq(Said) /\ t.recs = Append(p, b)
        BY <3>7
      <4> HIDE DEF p
      <4>2. Retold(X, wd, Append(p, b)) = Effect(Retold(X, wd, p), b)
        BY <1>1, <3>3, <4>1, RetoldAppend
      <4>3. QED
        BY <4>1, <4>2 DEF p
    <3>10. m \in Arriving(had, fresh)
      BY <2>11 DEF Arriving
    <3>11. Retold(X, wd, t.recs) = (W \ {n}) \cup {m}
      BY <3>5, <3>6, <3>8, <3>9
    <3>12. QED
      BY <2>2, <2>9, <2>11, <3>1, <3>10, <3>11 DEF W
  <2>12. Retold(X, wd, t.recs) = Z \cup t.landed /\ t.landed \subseteq Arriving(had, fresh)
    BY <2>7, <2>8, <2>10, <2>11
  <2>13. QED
    BY <2>1, <2>12 DEF Z
<1> HIDE DEF T
<1>4. names \in T
  BY <1>2, <1>3, SeqInduction
<1>5. QED
  BY <1>4 DEF T, L, X

\* So are those that are new.
LEMMA ArrivesRetold ==
  ASSUME NEW wd \in Wd, NEW had \in Listings, NEW fresh \in Listings, NEW landed, NEW base \in Quiets,
         NEW X \in NameSets, NEW names \in Seq(Name)
  PROVE  Retold(X, wd, Arrives(had, fresh, landed, base, names))
         = Retold(X, wd, base) \cup ((Within(names) \cap Arriving(had, fresh)) \ landed)
<1> DEFINE A(u) == Arrives(had, fresh, landed, base, u)
           T == {u \in Seq(Name) :
                   Retold(X, wd, A(u)) = Retold(X, wd, base) \cup ((Within(u) \cap Arriving(had, fresh)) \ landed)}
<1>1. <<>> \in T
  <2>1. A(<<>>) = base /\ Within(<<>>) = {} /\ <<>> \in Seq(Name)
    BY ArriveShape, WithinShape
  <2>2. QED
    BY <2>1
<1>2. ASSUME NEW u \in Seq(Name), NEW n \in Name, u \in T PROVE Append(u, n) \in T
  <2> DEFINE s == A(u)
             c == Plain("CREATE", n)
             t == AfterArrival(s, n, had, fresh, landed)
             B == Retold(X, wd, base)
  <2>1. Append(u, n) \in Seq(Name) /\ A(Append(u, n)) = t /\ s \in Seq(Said)
    <3>1. Append(u, n) \in Seq(Name)
      OBVIOUS
    <3>2. A(Append(u, n)) = t
      BY ArriveAppend
    <3>4. s \in Quiets
      BY ArriveShape
    <3>3. QED
      BY <3>1, <3>2, <3>4, QuietSaid
  <2>2. Retold(X, wd, s) = B \cup ((Within(u) \cap Arriving(had, fresh)) \ landed) /\ Retold(X, wd, s) \in NameSets
    BY <1>2, <2>1, RetoldShape
  <2>3. Within(Append(u, n)) = Within(u) \cup {n}
    BY WithinShape
  <2>4. c \in Said
    BY InPlaceSaid, QuietSaid
  <2>5. \/ n \in Arriving(had, fresh) \ landed /\ t = s \o <<c>>
        \/ n \notin Arriving(had, fresh) \ landed /\ t = s \o <<>>
    BY DEF AfterArrival, Arrival, Arriving
  <2>6. Effect(Retold(X, wd, s), c) = Retold(X, wd, s) \cup {n}
    BY <2>2, EffectOf
  <2> HIDE DEF s, t, c, B
  <2>7. s \o <<c>> = Append(s, c) /\ s \o <<>> = s
    BY <2>1, <2>4
  <2>8. Retold(X, wd, Append(s, c)) = Retold(X, wd, s) \cup {n}
    BY <2>1, <2>4, <2>6, RetoldShape
  <2>9. Retold(X, wd, t) = B \cup ((Within(Append(u, n)) \cap Arriving(had, fresh)) \ landed)
    BY <2>2, <2>3, <2>5, <2>7, <2>8
  <2>10. QED
    BY <2>1, <2>9 DEF B
<1> HIDE DEF T
<1>3. names \in T
  BY <1>1, <1>2, SeqInduction
<1>4. QED
  BY <1>3 DEF T

\* The records of directory_changed turn the last listing into the new one.
LEMMA DifferencesRetold ==
  ASSUME NEW wd \in Wd, NEW had \in Listings, NEW fresh \in Listings, NEW written, cookie \in Cookie
  PROVE  Retold(NamesOf(had), wd, Differences(had, fresh, written).recs) = NamesOf(fresh)
<1> DEFINE X == NamesOf(had)
           none == <<>>
           stay == Stays(had, fresh, written, none, Names)
           start == [recs |-> stay, landed |-> {}, cookie |-> cookie]
           left == Leaves(had, fresh, start, Names)
<1>1. Names \in Seq(Name) /\ Within(Names) = Name
  <2>1. Names \in Seq(Name)
    BY WatchAssumption
  <2>2. QED
    BY <2>1 DEF Within, Name, Range
<1>2. none \in Quiets /\ none = <<>> /\ X \in NameSets
  BY DEF Quiets, NamesOf, NameSets
<1> HIDE DEF none
<1>3. stay \in Quiets /\ Retold(X, wd, stay) = X
  <2>1. stay \in Quiets
    BY <1>1, <1>2, StayShape
  <2>2. Retold(NamesOf(had), wd, Stays(had, fresh, written, none, Names)) = NamesOf(had)
    BY <1>1, <1>2, StaysRetold
  <2>3. QED
    BY <2>1, <2>2
<1> HIDE DEF stay
<1>4. start \in Finds /\ start.landed = {} /\ start.recs = stay
  BY <1>3 DEF Finds, NameSets
<1>5. Differences(had, fresh, written).recs = Arrives(had, fresh, left.landed, left.recs, Names)
  BY <1>2, DifferencesIs DEF stay
<1> HIDE DEF start
<1>6. left.recs \in Quiets
  BY <1>1, <1>4, LeftShape DEF Finds
<1>7. /\ Retold(X, wd, left.recs) = (X \ (Within(Names) \cap Leaving(had, fresh))) \cup left.landed
      /\ left.landed \subseteq Arriving(had, fresh)
  BY <1>1, <1>3, <1>4, LeavesRetold
<1> HIDE DEF left
<1>8. Retold(X, wd, Arrives(had, fresh, left.landed, left.recs, Names))
      = Retold(X, wd, left.recs) \cup ((Within(Names) \cap Arriving(had, fresh)) \ left.landed)
  BY <1>1, <1>2, <1>6, ArrivesRetold
<1>9. (X \ (Name \cap Leaving(had, fresh))) \cup (Name \cap Arriving(had, fresh)) = NamesOf(fresh)
  BY DEF NamesOf, Leaving, Arriving
<1> HIDE DEF X
<1>10. Retold(X, wd, Differences(had, fresh, written).recs) = NamesOf(fresh)
  <2> DEFINE L == Leaving(had, fresh)
             A == Arriving(had, fresh)
             D == left.landed
  <2>1. Retold(X, wd, Differences(had, fresh, written).recs)
        = ((X \ (Name \cap L)) \cup D) \cup ((Name \cap A) \ D)
    BY <1>1, <1>5, <1>7, <1>8
  <2>2. D \subseteq Name \cap A
    BY <1>7 DEF Arriving
  <2> HIDE DEF L, A, D
  <2>3. D \cup ((Name \cap A) \ D) = Name \cap A
    BY <2>2
  <2>4. ((X \ (Name \cap L)) \cup D) \cup ((Name \cap A) \ D) = (X \ (Name \cap L)) \cup (Name \cap A)
    BY <2>3
  <2>5. QED
    BY <1>9, <2>1, <2>4 DEF L, A
<1>11. QED
  BY <1>10 DEF X

(***************************************************************************)
(* What keeps a listing as it is.                                          *)
(***************************************************************************)
SameSubject(w, v) ==
  /\ v.path = w.path
  /\ arm = "vnode" => v.kids = w.kids
  /\ arm = "changes" => v.done = w.done /\ v.held = w.held /\ (w.dead => v.dead)

LEMMA RetellableStays ==
  ASSUME TypeInv, NEW wd, Retellable(wd), arm' = arm, dir' = dir \/ arm = "vnode",
         SameSubject(watches[wd], watches'[wd]),
         wd \notin q'.lost /\ IsDir(watches[wd]) => wd \notin q.lost /\ Listing(wd)' = Listing(wd)
  PROVE  Retellable(wd)'
<1>1. IsDir(watches[wd])' = IsDir(watches[wd])
  BY DEF SameSubject, IsDir
<1>2. arm = "changes" => Held(watches[wd])' = Held(watches[wd])
  BY DEF SameSubject, Held
<1>3. (arm = "changes" /\ watches[wd].done = None => watches[wd].held = <<>>)'
  BY DEF SameSubject, Retellable
<1>4. ASSUME wd \notin q'.lost, IsDir(watches'[wd]) PROVE Listed(wd)'
  <2>1. Listed(wd) /\ Listing(wd)' = Listing(wd)
    BY <1>1, <1>4 DEF Retellable
  <2>2. CASE arm = "vnode"
    BY <2>1, <2>2 DEF Listed, SameSubject
  <2>3. CASE arm # "vnode" /\ arm = "changes"
    <3>1. (Replayed(Listing(wd), wd, AsRecords(wd, Held(watches[wd]))))'
          = Replayed(Listing(wd), wd, AsRecords(wd, Held(watches[wd])))
      <4>1. Listing(wd)' = Listing(wd) /\ Held(watches[wd])' = Held(watches[wd])
        BY <1>2, <2>1, <2>3
      <4>2. QED
        BY <4>1 DEF AsRecords
    <3>2. QED
      BY <2>1, <2>3, <3>1 DEF Listed, SameSubject
  <2>4. QED
    BY <2>2, <2>3 DEF TypeInv, WorldTypes
<1>5. QED
  BY <1>3, <1>4 DEF Retellable

\* The listing of a watch is as it was when only another's records were added.
LEMMA OtherRetellable ==
  ASSUME TypeInv, TypeInv', NEW o \in Watched, Retellable(o), NEW wd, o # wd, Grows(q, q', wd),
         watches'[o] = watches[o], UNCHANGED <<arm, dir, view>>
  PROVE  Retellable(o)'
<1>1. o \in Wd /\ q \in QSet /\ q' \in QSet /\ view[o] \in NameSets
  BY TableFacts DEF TypeInv, StreamTypes, QGood
<1>2. Replayed(view[o], o, q'.queue) = Replayed(view[o], o, q.queue) /\ (o \notin q'.lost => o \notin q.lost)
  BY <1>1, OthersReplay
<1>3. o \notin q'.lost => o \notin q.lost /\ Listing(o)' = Listing(o)
  BY <1>2 DEF Listing
<1>4. SameSubject(watches[o], watches'[o])
  BY DEF SameSubject
<1>5. QED
  BY <1>3, <1>4, RetellableStays

LEMMA ForgetKeepsListing ==
  ASSUME TypeInv, TypeInv', ListingInv, NEW wd, Grows(q, q', wd), watches' = Without({wd}),
         UNCHANGED <<arm, dir, view>>
  PROVE  ListingInv'
<1>1. Watched' = Watched \ {wd} /\ \A o \in Watched' : watches'[o] = watches[o]
  BY DEF Without, Watched
<1>2. QED
  BY <1>1, OtherRetellable DEF ListingInv

\* A table whose watches have the same subject, with the queue as it was.
LEMMA SameKeepsListing ==
  ASSUME TypeInv, ListingInv, UNCHANGED <<arm, dir, view, q>>, Watched' \subseteq Watched,
         \A wd \in Watched' : SameSubject(watches[wd], watches'[wd])
  PROVE  ListingInv'
<1>1. ASSUME NEW wd \in Watched' PROVE Retellable(wd)'
  <2>1. Listing(wd)' = Listing(wd)
    BY DEF Listing
  <2>2. QED
    BY <2>1, RetellableStays DEF ListingInv
<1>2. QED
  BY <1>1 DEF ListingInv

LEMMA RmKeepsListing ==
  ASSUME TypeInv, TypeInv', ListingInv, NEW wd \in Wd, RmWatch(wd)
  PROVE  ListingInv'
<1>1. /\ q' = Emit(q, wd, Self("IGNORED")) /\ watches' = Without({wd}) /\ UNCHANGED <<arm, dir, view>>
  BY DEF RmWatch, caller, files
<1>2. Self("IGNORED") \in Said /\ Self("IGNORED").kind = "IGNORED"
  BY SelfSeqs DEF Self, Rec
<1>3. q' = EmitMasked(q, wd, Self("IGNORED"))
  BY <1>1, <1>2 DEF EmitMasked
<1>4. Grows(q, q', wd)
  BY <1>2, <1>3, TableFacts, EmitGrows
<1>5. QED
  BY <1>1, <1>4, ForgetKeepsListing

LEMMA UpKeepsListing ==
  ASSUME TypeInv, TypeInv', ListingInv, NEW wd \in Wd, UpCompletion(wd) \/ ReadFails(wd)
  PROVE  ListingInv'
<1>1. /\ q' = EmitAll(q, wd, Gone) /\ watches' = Without({wd}) /\ UNCHANGED <<arm, dir, view>>
  BY DEF UpCompletion, ReadFails, caller, files
<1>2. Grows(q, q', wd)
  BY <1>1, TableFacts, GoneGrows
<1>3. QED
  BY <1>1, <1>2, ForgetKeepsListing

\* The steps that leave the queue as it is, and of each watch what it lists.
LEMMA OthersKeepListing ==
  ASSUME TypeInv, TypeInv', ListingInv,
         \/ \E wd \in Wd, mask \in Masks : NewMask(wd, mask)
         \/ \E path \in Path, mask \in Masks : AddLook(path, mask)
         \/ LookAt \/ Take \/ Drain \/ PortEmpty \/ Close \/ Init1
         \/ \E wd \in Wd : StartLook(wd) \/ UpMisses(wd) \/ UpFails(wd)
         \/ UNCHANGED vars
  PROVE  ListingInv'
<1>1. ASSUME UNCHANGED <<arm, dir, view, q, watches>> PROVE ListingInv'
  <2>1. Watched' = Watched
    BY <1>1 DEF Watched
  <2>2. \A wd \in Watched' : SameSubject(watches[wd], watches'[wd])
    BY <1>1 DEF SameSubject
  <2>3. QED
    BY <1>1, <2>1, <2>2, SameKeepsListing
<1>2. ASSUME NEW wd \in Wd, NEW mask \in Masks, NewMask(wd, mask) PROVE ListingInv'
  <2>1. /\ wd \in Watched /\ watches' = [watches EXCEPT ![wd].mask = mask]
        /\ UNCHANGED <<arm, dir, view, q>>
    BY <1>2 DEF NewMask, files, caller
  <2>2. Watched' = Watched
    BY <2>1 DEF Watched
  <2>3. ASSUME NEW o \in Watched' PROVE SameSubject(watches[o], watches'[o])
    <3>1. watches[o] \in WatchType
      BY <2>2 DEF TypeInv, TableTypes
    <3>2. watches'[o] = IF o = wd THEN [watches[o] EXCEPT !.mask = mask] ELSE watches[o]
      BY <2>1, <2>2 DEF Watched
    <3>3. QED
      BY <3>1, <3>2 DEF SameSubject, WatchType, VWatch, CWatch, TypeInv, WorldTypes
  <2>4. QED
    BY <2>1, <2>2, <2>3, SameKeepsListing
<1>3. CASE Take
  <2>1. /\ watches' = [wd \in Watched |-> [watches[wd] EXCEPT !.note = {}]] /\ arm = "vnode"
        /\ UNCHANGED <<arm, dir, view, q>>
    BY <1>3 DEF Take, files, caller
  <2>2. Watched' = Watched
    BY <2>1 DEF Watched
  <2>3. ASSUME NEW o \in Watched' PROVE SameSubject(watches[o], watches'[o])
    <3>1. watches[o] \in VWatch
      BY <2>1, <2>2 DEF TypeInv, TableTypes, WatchType
    <3>2. watches'[o] = [watches[o] EXCEPT !.note = {}]
      BY <2>1, <2>2
    <3>3. QED
      BY <2>1, <3>1, <3>2 DEF SameSubject, VWatch
  <2>4. QED
    BY <2>1, <2>2, <2>3, SameKeepsListing
<1>4. CASE Close
  <2>1. watches' = <<>>
    BY <1>4 DEF Close
  <2>2. DOMAIN watches' = {}
    BY <2>1
  <2>3. QED
    BY <2>2 DEF ListingInv, Watched
<1>5. CASE Init1
  <2>1. Watched' = {}
    BY <1>5 DEF Init1, TypeInv, PhaseTypes, Watched
  <2>2. QED
    BY <2>1 DEF ListingInv
<1>6. ASSUME NEW path \in Path, NEW mask \in Masks, AddLook(path, mask) PROVE ListingInv'
  BY <1>1, <1>6 DEF AddLook, files, caller
<1>7. ASSUME NEW wd \in Wd, StartLook(wd) PROVE ListingInv'
  BY <1>1, <1>7 DEF StartLook, files, caller
<1>8. CASE LookAt
  BY <1>1, <1>8 DEF LookAt, files, caller
<1>9. CASE Drain
  BY <1>1, <1>9 DEF Drain, files, caller
<1>10. CASE UNCHANGED vars
  BY <1>1, <1>10 DEF vars, files, caller
<1>11. CASE PortEmpty
  BY <1>1, <1>11 DEF PortEmpty, files, caller
<1>12. ASSUME NEW wd \in Wd, UpMisses(wd) PROVE ListingInv'
  <2>1. /\ watches' = [watches EXCEPT ![wd].up = FALSE] /\ arm = "changes"
        /\ UNCHANGED <<arm, dir, view, q>>
    BY <1>12 DEF UpMisses, files, caller, TypeInv, PhaseTypes
  <2>2. Watched' = Watched
    BY <2>1 DEF Watched
  <2>3. ASSUME NEW o \in Watched' PROVE SameSubject(watches[o], watches'[o])
    <3>1. watches[o] \in CWatch
      BY <2>1, <2>2, <2>3 DEF TypeInv, TableTypes, WatchType
    <3>2. watches'[o] = IF o = wd THEN [watches[o] EXCEPT !.up = FALSE] ELSE watches[o]
      BY <2>1, <2>2 DEF Watched
    <3>3. QED
      BY <2>1, <3>1, <3>2 DEF SameSubject, CWatch
  <2>4. QED
    BY <2>1, <2>2, <2>3, SameKeepsListing
<1>13. ASSUME NEW wd \in Wd, UpFails(wd) PROVE ListingInv'
  <2>1. watches' = Without({wd}) /\ UNCHANGED <<arm, dir, view, q>>
    BY <1>13 DEF UpFails, files
  <2>2. Watched' \subseteq Watched /\ \A o \in Watched' : watches'[o] = watches[o]
    BY <2>1 DEF Without, Watched
  <2>3. \A o \in Watched' : SameSubject(watches[o], watches'[o])
    BY <2>2 DEF SameSubject
  <2>4. QED
    BY <2>1, <2>2, <2>3, SameKeepsListing
<1>14. QED
  BY <1>2, <1>3, <1>4, <1>5, <1>6, <1>7, <1>8, <1>9, <1>10, <1>11, <1>12, <1>13

\* What a notification is to a listing.
Noting(n) == Plain(IF n[1] \in {"ADDED", "NEW_NAME"} THEN "CREATE"
                   ELSE IF n[1] = "MODIFIED" THEN "MODIFY" ELSE "DELETE", n[2])
Tells(names, wd, said) == Replayed(names, wd, AsRecords(wd, said))

LEMMA NotingSaid ==
  ASSUME NEW n \in Notifications
  PROVE  Noting(n) \in Said
<1>1. n[2] \in Name /\ {"CREATE", "MODIFY", "DELETE"} \subseteq AllKinds
  BY DEF Notifications, AllKinds, Kinds, NameKinds
<1>2. QED
  BY <1>1, SelfSaid DEF Noting

LEMMA AsRecordsShape ==
  ASSUME NEW wd \in Wd
  PROVE  /\ AsRecords(wd, <<>>) = <<>>
         /\ \A u \in Seq(Notifications) : AsRecords(wd, u) \in Seq(Entry)
         /\ \A u \in Seq(Notifications), n \in Notifications :
              AsRecords(wd, Append(u, n)) = Append(AsRecords(wd, u), Queued(wd, Noting(n)))
<1> DEFINE F == [n \in Notifications |-> Queued(wd, Noting(n))]
<1>1. Maps(F, Notifications, Entry) /\ \A n \in Notifications : F[n] = Queued(wd, Noting(n))
  BY NotingSaid, QueuedEntry DEF Maps
<1>2. ASSUME NEW u \in Seq(Notifications) PROVE AsRecords(wd, u) = Each(F, u)
  <2>1. \A i \in 1..Len(u) : Queued(wd, Noting(u[i])) = F[u[i]]
    BY <1>1
  <2>2. AsRecords(wd, u) = [i \in 1..Len(u) |-> Queued(wd, Noting(u[i]))]
    BY DEF AsRecords, Noting
  <2> HIDE DEF F
  <2>3. QED
    BY <2>1, <2>2 DEF Each
<1> HIDE DEF F
<1>3. \A u \in Seq(Notifications), n \in Notifications : Append(u, n) \in Seq(Notifications)
  OBVIOUS
<1>4. AsRecords(wd, <<>>) = <<>>
  BY DEF AsRecords
<1>5. \A u \in Seq(Notifications) : AsRecords(wd, u) \in Seq(Entry)
  BY <1>1, <1>2, EachShape
<1>6. ASSUME NEW u \in Seq(Notifications), NEW n \in Notifications
      PROVE  AsRecords(wd, Append(u, n)) = Append(AsRecords(wd, u), Queued(wd, Noting(n)))
  <2>1. Each(F, Append(u, n)) = Append(Each(F, u), F[n])
    BY <1>1, EachShape
  <2>2. QED
    BY <1>1, <1>2, <1>3, <2>1
<1>7. QED
  BY <1>4, <1>5, <1>6

LEMMA TellsShape ==
  ASSUME NEW wd \in Wd, NEW names \in NameSets
  PROVE  /\ Tells(names, wd, <<>>) = names
         /\ \A u \in Seq(Notifications) : Tells(names, wd, u) \in NameSets
<1>1. Tells(names, wd, <<>>) = names
  BY AsRecordsShape, ReplayedShape DEF Tells
<1>2. \A u \in Seq(Notifications) : Tells(names, wd, u) \in NameSets
  BY AsRecordsShape, ReplayedShape DEF Tells
<1>3. QED
  BY <1>1, <1>2

LEMMA TellsAppend ==
  ASSUME NEW wd \in Wd, NEW names \in NameSets, NEW u \in Seq(Notifications), NEW n \in Notifications
  PROVE  Tells(names, wd, Append(u, n)) = Effect(Tells(names, wd, u), Noting(n))
<1>1. /\ AsRecords(wd, u) \in Seq(Entry) /\ Queued(wd, Noting(n)) \in Entry
      /\ AsRecords(wd, Append(u, n)) = Append(AsRecords(wd, u), Queued(wd, Noting(n)))
  BY AsRecordsShape, NotingSaid, QueuedEntry
<1>2. Replayed(names, wd, Append(AsRecords(wd, u), Queued(wd, Noting(n))))
      = Replay(Replayed(names, wd, AsRecords(wd, u)), wd, Queued(wd, Noting(n)))
  BY <1>1, ReplayedShape
<1>3. QED
  BY <1>1, <1>2, EffectIs DEF Tells

LEMMA TellsConcat ==
  ASSUME NEW wd \in Wd, NEW names \in NameSets, NEW s \in Seq(Notifications), NEW t \in Seq(Notifications)
  PROVE  Tells(names, wd, s \o t) = Tells(Tells(names, wd, s), wd, t)
<1> DEFINE half == Tells(names, wd, s)
           T == {u \in Seq(Notifications) : Tells(names, wd, s \o u) = Tells(half, wd, u)}
<1>1. half \in NameSets
  BY TellsShape
<1>2. <<>> \in T
  <2>1. s \o <<>> = s /\ <<>> \in Seq(Notifications)
    OBVIOUS
  <2> HIDE DEF half
  <2>2. Tells(half, wd, <<>>) = half
    BY <1>1, TellsShape
  <2>3. QED
    BY <2>1, <2>2 DEF half
<1>3. ASSUME NEW u \in Seq(Notifications), NEW n \in Notifications, u \in T PROVE Append(u, n) \in T
  <2> DEFINE v == s \o u
  <2>1. s \o Append(u, n) = Append(v, n) /\ v \in Seq(Notifications) /\ Append(u, n) \in Seq(Notifications)
    OBVIOUS
  <2>2. Tells(names, wd, v) = Tells(half, wd, u)
    BY <1>3
  <2> HIDE DEF v, half
  <2>3. Tells(names, wd, Append(v, n)) = Effect(Tells(names, wd, v), Noting(n))
    BY <2>1, TellsAppend
  <2>4. Tells(half, wd, Append(u, n)) = Effect(Tells(half, wd, u), Noting(n))
    BY <1>1, TellsAppend
  <2>5. QED
    BY <2>1, <2>2, <2>3, <2>4
<1> HIDE DEF T
<1>4. t \in T
  BY <1>2, <1>3, SeqInduction
<1>5. QED
  BY <1>4 DEF T

\* A new watch starts with a listing of its own, and no record is of it yet.
LEMMA AddKeepsListing ==
  ASSUME TypeInv, TypeInv', PlaceInv, ListingInv, NEW w \in WatchType, NEW names \in NameSets,
         watches' = With(w), paths' = Append(paths, w.path), view' = [view EXCEPT ![Len(paths) + 1] = names],
         UNCHANGED <<arm, dir, q>>, asked' \in 0..MaxWd, Len(paths) < asked', pc' # "adding",
         arm = "changes" => w.done = None /\ w.held = <<>>,
         IsDir(w) => names = IF arm = "vnode" THEN NamesOf(w.kids) ELSE NamesOf(dir)
  PROVE  ListingInv'
<1>0. Len(paths) + 1 \in Wd /\ Len(paths) + 1 \notin Watched
  BY WithKeepsTable
<1> PICK n \in Wd : n = Len(paths) + 1
  BY ONLY <1>0
<1>1. /\ Watched' = Watched \cup {n} /\ n \in Wd /\ n \notin Watched /\ watches'[n] = w
      /\ \A o \in Watched : watches'[o] = watches[o]
  <2>1. watches' = [o \in Watched \cup {n} |-> IF o \in Watched THEN watches[o] ELSE w]
    BY DEF With
  <2>2. n \notin Watched
    BY <1>0
  <2>3. QED
    BY ONLY <2>1, <2>2, n \in Wd DEF Watched
<1>2. NoneOf(q.queue, n)
  <2>1. n \notin 1..Len(paths) /\ n # -1
    BY TableFacts
  <2>2. QED
    BY <2>1 DEF PlaceInv, NoneOf
<1>3. view \in [Wd -> NameSets] /\ view' = [view EXCEPT ![n] = names] /\ q.queue \in Seq(Entry)
  BY TableFacts DEF TypeInv, StreamTypes
<1>4. view'[n] = names /\ \A o \in Wd : o # n => view'[o] = view[o]
  BY <1>1, <1>3
<1>5. Retellable(n)'
  <2>1. Listing(n)' = names
    BY <1>1, <1>2, <1>3, <1>4, NoneReplays DEF Listing
  <2>2. ASSUME IsDir(w) PROVE Listed(n)'
    <3>1. CASE arm = "vnode"
      BY <1>1, <2>1, <2>2, <3>1 DEF Listed
    <3>2. CASE arm # "vnode" /\ arm = "changes"
      <4>1. Held(w) = <<>>
        <5>1. <<>> \o <<>> = <<>>
          OBVIOUS
        <5>2. QED
          BY <3>2, <5>1 DEF Held
      <4>2. AsRecords(n, <<>>) = <<>>
        BY DEF AsRecords
      <4>3. Replayed(names, n, AsRecords(n, Held(w))) = names
        BY <1>1, <4>1, <4>2, ReplayedShape, SMTT(30)
      <4>4. (Replayed(Listing(n), n, AsRecords(n, Held(watches[n]))))' = names
        BY <1>1, <2>1, <4>3 DEF AsRecords, Held
      <4>5. QED
        BY <2>2, <3>2, <4>4 DEF Listed
    <3>3. QED
      BY <3>1, <3>2 DEF TypeInv, WorldTypes
  <2>3. IsDir(watches[n])' = IsDir(w)
    BY <1>1 DEF IsDir
  <2>4. QED
    BY <1>1, <2>2, <2>3 DEF Retellable
<1>6. ASSUME NEW o \in Watched PROVE Retellable(o)'
  <2>1. o \in Wd /\ o # n /\ Retellable(o)
    BY <1>1, TableFacts DEF ListingInv
  <2>2. Listing(o)' = Listing(o)
    BY <1>4, <2>1 DEF Listing
  <2>3. SameSubject(watches[o], watches'[o])
    BY <1>1 DEF SameSubject
  <2>4. QED
    BY <2>1, <2>2, <2>3, RetellableStays
<1>7. QED
  BY <1>1, <1>5, <1>6 DEF ListingInv

LEMMA RegisterKeepsListing ==
  ASSUME TypeInv, TypeInv', PlaceInv, ListingInv, Register
  PROVE  ListingInv'
<1>1. PICK w \in WatchType :
         /\ watches' = With(w) /\ paths' = Append(paths, w.path) /\ w.kids = look.fresh
         /\ view' = [view EXCEPT ![Len(paths) + 1] = NamesOf(look.fresh)] /\ arm = "vnode"
  BY RegisterShape
<1>2. UNCHANGED <<arm, dir, q, asked>> /\ pc = "adding" /\ pc' = "idle"
  BY DEF Register, files
<1>3. asked' \in 0..MaxWd /\ Len(paths) < asked'
  BY <1>2 DEF TypeInv, TableTypes
<1>4. NamesOf(look.fresh) \in NameSets
  BY DEF NamesOf, NameSets
<1>5. QED
  BY <1>1, <1>2, <1>3, <1>4, AddKeepsListing

LEMMA AddWatchKeepsListing ==
  ASSUME TypeInv, TypeInv', PlaceInv, ListingInv, NEW path \in Path, NEW mask \in Masks, AddWatch(path, mask)
  PROVE  ListingInv'
<1> DEFINE w == [path |-> path, mask |-> mask, of |-> "dir", done |-> None,
                 held |-> <<>>, up |-> FALSE, dead |-> FALSE]
           names == IF path = "dir" THEN NamesOf(dir) ELSE {}
<1>1. /\ watches' = With(w) /\ paths' = Append(paths, path)
      /\ view' = [view EXCEPT ![Len(paths) + 1] = names]
      /\ UNCHANGED <<arm, dir, q, pc>>
      /\ arm = "changes" /\ pc = "idle" /\ asked < MaxWd /\ asked' = asked + 1
  BY DEF AddWatch, CanAdd, files
<1>2. w \in WatchType /\ w.path = path /\ w.done = None /\ w.held = <<>>
  <2>1. <<>> \in Seq(Notifications)
    OBVIOUS
  <2>2. QED
    BY <1>1, <2>1 DEF WatchType, CWatch
<1>3. names \in NameSets /\ (IsDir(w) => names = NamesOf(dir))
  BY <1>2 DEF NamesOf, NameSets, IsDir
<1>4. asked' \in 0..MaxWd /\ Len(paths) < asked' /\ pc' # "adding"
  BY <1>1, TableFacts DEF TypeInv, TableTypes
<1> HIDE DEF w, names
<1>5. QED
  BY <1>1, <1>2, <1>3, <1>4, AddKeepsListing

\* What is read goes from the queue into the listing.
LEMMA ReadKeepsListing ==
  ASSUME TypeInv, TypeInv', PlaceInv, ListingInv, NEW len \in Buffers, ReadRecords(len)
  PROVE  ListingInv'
<1>1. PICK n \in 1..Len(q.queue), got \in Seq(Entry), rest \in Seq(Entry) :
           /\ got = SubSeq(q.queue, 1, n) /\ q.queue = got \o rest
           /\ q' = [q EXCEPT !.queue = rest, !.qlen = q.qlen - Used(got)]
           /\ view' = [wd \in Wd |-> IF wd \in Over(got) THEN {} ELSE Replayed(view[wd], wd, got)]
  BY ReadShape
<1>2. UNCHANGED <<arm, dir, watches>>
  BY DEF ReadRecords, files
<1>3. q \in QSet /\ q.queue \in Seq(Entry) /\ Len(q.queue) \in Nat
  BY TableFacts
<1>4. q'.queue = rest /\ q'.lost = q.lost
  BY <1>1, <1>3 DEF QSet
<1>5. ASSUME NEW o \in Over(got) PROVE HasEnd(q.queue, o)
  <2>1. PICK i \in DOMAIN got : got[i].wd = o /\ got[i].kind = "IGNORED"
    BY <1>5 DEF Over, Range
  <2>2. DOMAIN got = 1..n /\ \A k \in 1..n : got[k] = q.queue[k] /\ k \in 1..Len(q.queue)
    BY <1>1, <1>3
  <2>3. QED
    BY <2>1, <2>2 DEF HasEnd, EndAt
<1>6. ASSUME NEW wd \in Watched PROVE Retellable(wd)'
  <2>1. wd \in Wd /\ wd \in 1..Len(paths) /\ Retellable(wd) /\ view[wd] \in NameSets
    BY TableFacts DEF ListingInv, TypeInv, StreamTypes
  <2>2. ASSUME IsDir(watches[wd]) PROVE Listing(wd)' = Listing(wd)
    <3>1. Strict(wd)
      BY <2>2 DEF Strict, IsDir, TypeInv, TableTypes
    <3>2. wd \notin Over(got)
      BY <1>5, <2>1, <3>1 DEF PlaceInv
    <3>3. view'[wd] = Replayed(view[wd], wd, got)
      BY <1>1, <2>1, <3>2
    <3>4. Replayed(view[wd], wd, got \o rest) = Replayed(Replayed(view[wd], wd, got), wd, rest)
      BY <2>1, ReplayedConcat
    <3>5. QED
      BY <1>1, <1>4, <3>3, <3>4 DEF Listing
  <2>3. SameSubject(watches[wd], watches'[wd])
    BY <1>2 DEF SameSubject
  <2>4. QED
    BY <1>2, <1>4, <2>1, <2>2, <2>3, RetellableStays
<1>7. QED
  BY <1>2, <1>6, SMTT(30) DEF ListingInv, Watched

\* The records of a look make of the last listing the one that was found.
LEMMA LookRetold ==
  ASSUME TypeInv, NEW wd \in Wd, NEW written, Translate(wd, written), IsDir(watches[wd])
  PROVE  Retold(NamesOf(watches[wd].kids), wd, Diff(wd, written).recs \o OfItself(wd))
         = NamesOf(IF SomeSeen THEN look.fresh ELSE watches[wd].kids)
<1> DEFINE recs == Diff(wd, written).recs
           kids == watches[wd].kids
           X == NamesOf(kids)
           move == Self("MOVE_SELF")
<1>1. /\ watches[wd] \in VWatch /\ recs \in Quiets /\ recs \in Seq(Said)
      /\ kids \in Listings /\ look.fresh \in Listings /\ cookie \in Cookie
  BY TranslateShape, QuietSaid DEF VWatch, Listings, Quiets, TypeInv, PhaseTypes, StreamTypes
<1>2. X \in NameSets
  BY DEF NamesOf, NameSets
<1>3. Retold(X, wd, recs) = NamesOf(IF SomeSeen THEN look.fresh ELSE kids)
  <2>1. CASE SomeSeen
    BY <1>1, <2>1, DifferencesRetold DEF Diff
  <2>2. CASE ~SomeSeen
    <3>1. recs = <<>>
      BY <2>2 DEF Diff
    <3> HIDE DEF X, recs
    <3>2. Retold(X, wd, <<>>) = X
      BY <1>2, RetoldShape
    <3>3. QED
      BY <2>2, <3>1, <3>2 DEF X
  <2>3. QED
    BY <2>1, <2>2
<1>4. move \in Said /\ move.name = None
  BY SelfSeqs, QuietSaid DEF Self, Rec
<1>5. recs \o OfItself(wd) = recs \/ recs \o OfItself(wd) = Append(recs, move)
  <2>1. OfItself(wd) = <<>> \/ OfItself(wd) = <<move>>
    <3>1. <<>> \o <<>> = <<>> /\ <<>> \o <<move>> = <<move>>
      BY <1>4
    <3>2. QED
      BY <3>1 DEF OfItself
  <2>2. \A s \in Seq(Said), r \in Said : s \o <<>> = s /\ s \o <<r>> = Append(s, r)
    OBVIOUS
  <2>3. QED
    BY <1>1, <1>4, <2>1, <2>2
<1> HIDE DEF X, recs, move, kids
<1>6. Retold(X, wd, recs) \in NameSets
  BY <1>1, <1>2, RetoldShape
<1>7. Retold(X, wd, Append(recs, move)) = Retold(X, wd, recs)
  <2>1. Retold(X, wd, Append(recs, move)) = Effect(Retold(X, wd, recs), move)
    BY <1>1, <1>2, <1>4, RetoldAppend
  <2>2. Effect(Retold(X, wd, recs), move) = Retold(X, wd, recs)
    BY <1>4, <1>6, EffectStays
  <2>3. QED
    BY <2>1, <2>2
<1>8. Retold(X, wd, recs \o OfItself(wd)) = NamesOf(IF SomeSeen THEN look.fresh ELSE kids)
  BY <1>3, <1>5, <1>7
<1>9. QED
  BY <1>8 DEF X, kids, recs

LEMMA TranslateKeepsListing ==
  ASSUME TypeInv, TypeInv', ListingInv, NEW wd \in Wd, NEW written, Translate(wd, written)
  PROVE  ListingInv'
<1> DEFINE quiet == Diff(wd, written).recs \o OfItself(wd)
<1>1. /\ arm = "vnode" /\ wd \in Watched /\ quiet \in Quiets /\ q' = EmitAll(q, wd, AllOf(wd, written))
      /\ watches[wd] \in VWatch
      /\ watches' = IF "delete" \in taken[wd] THEN Without({wd})
                    ELSE [watches EXCEPT ![wd] = IF SomeSeen THEN Kept(watches[wd], look.fresh) ELSE watches[wd]]
  BY TranslateShape
<1>2. UNCHANGED <<arm, dir, view>>
  BY DEF Translate, caller, files
<1>3. q \in QSet
  BY TableFacts
<1>4. AllOf(wd, written) = quiet \o OfEnd(wd)
  BY DEF AllOf
<1>5. IsDir(watches[wd]) => Retold(NamesOf(watches[wd].kids), wd, quiet)
                            = NamesOf(IF SomeSeen THEN look.fresh ELSE watches[wd].kids)
  BY LookRetold
<1> HIDE DEF quiet
<1>6. CASE "delete" \in taken[wd]
  <2>1. q' = EmitAll(q, wd, quiet \o Gone)
    BY <1>1, <1>4, <1>6 DEF OfEnd
  <2>2. Grows(q, q', wd)
    BY <1>1, <1>3, <2>1, EndGrows
  <2>3. QED
    BY <1>1, <1>2, <1>6, <2>2, ForgetKeepsListing
<1>7. CASE "delete" \notin taken[wd]
  <2>1. quiet \o <<>> = quiet
    BY <1>1 DEF Quiets
  <2>2. q' = EmitAll(q, wd, quiet)
    BY <1>1, <1>4, <1>7, <2>1 DEF OfEnd
  <2>3. Grows(q, q', wd)
    BY <1>1, <1>3, <2>2, AllQuietGrow
  <2>4. Watched' = Watched
    BY <1>1, <1>7 DEF Watched
  <2>5. ASSUME NEW o \in Watched, o # wd PROVE Retellable(o)'
    <3>1. watches'[o] = watches[o]
      BY <1>1, <1>7, <2>5 DEF Watched
    <3>2. QED
      BY <1>2, <2>3, <2>5, <3>1, OtherRetellable DEF ListingInv
  <2>6. watches'[wd] = IF SomeSeen THEN Kept(watches[wd], look.fresh) ELSE watches[wd]
    BY <1>1, <1>7 DEF Watched
  <2>7. watches'[wd].path = watches[wd].path
        /\ watches'[wd].kids = IF SomeSeen THEN look.fresh ELSE watches[wd].kids
    <3>1. Kept(watches[wd], look.fresh).path = watches[wd].path
          /\ Kept(watches[wd], look.fresh).kids = look.fresh
      BY <1>1 DEF Kept, VWatch
    <3>2. QED
      BY <2>6, <3>1
  <2>8. ASSUME wd \notin q'.lost, IsDir(watches'[wd]) PROVE Listed(wd)'
    <3>1. IsDir(watches[wd]) /\ view[wd] \in NameSets /\ quiet \in Seq(Said)
      BY <1>1, <2>7, <2>8, QuietSaid DEF IsDir, TypeInv, StreamTypes, Quiets
    <3>2. wd \notin q.lost /\ Replayed(view[wd], wd, q'.queue) = Retold(Listing(wd), wd, quiet)
      BY <1>3, <2>2, <2>8, <3>1, AllReplay DEF Listing
    <3>3. Listing(wd) = NamesOf(watches[wd].kids)
      BY <1>1, <3>1, <3>2 DEF ListingInv, Retellable, Listed
    <3>4. Listing(wd)' = NamesOf(watches'[wd].kids)
      BY <1>2, <1>5, <2>7, <3>1, <3>2, <3>3 DEF Listing
    <3>5. QED
      BY <1>1, <1>2, <3>4 DEF Listed
  <2>9. Retellable(wd)'
    BY <1>1, <1>2, <2>8 DEF Retellable
  <2>10. QED
    BY <2>4, <2>5, <2>9 DEF ListingInv
<1>8. QED
  BY <1>6, <1>7

(***************************************************************************)
(* What is heard of a directory.                                           *)
(***************************************************************************)
\* With no notification to be completed none is held.
InOrder(w) == w.done = None => w.held = <<>>
\* v is w once it has heard more: what it missed, it says.
HeardOn(w, v, more) ==
  /\ InOrder(v)
  /\ (v.held # None /\ v.done # <<>>) => /\ w.held # None /\ w.done # <<>>
                                         /\ Held(v) = Held(w) \o more

LEMMA HeldSeq ==
  ASSUME NEW w \in CWatch, w.held # None
  PROVE  Held(w) \in Seq(Notifications)
<1>1. w.held \in Seq(Notifications) /\ (w.done = None \/ w.done \in Seq(Notifications))
  BY DEF CWatch
<1>2. \A s, t \in Seq(Notifications) : s \o t \in Seq(Notifications) /\ <<>> \o t = t
  OBVIOUS
<1>3. QED
  BY <1>1, <1>2 DEF Held

LEMMA OneMore ==
  ASSUME NEW D, NEW s \in Seq(D), NEW t \in Seq(D), NEW e \in D
  PROVE  s \o Append(t, e) = (s \o t) \o <<e>>
  OBVIOUS

LEMMA HearsOne ==
  ASSUME NEW w \in CWatch, InOrder(w), NEW n \in Notifications
  PROVE  HeardOn(w, Hears(w, n), <<n>>)
<1> DEFINE N == Notifications
           v == Hears(w, n)
<1>1. None \notin Seq(N) /\ <<>> \in Seq(N)
  BY WatchAssumption
<1>2. /\ w.done = None \/ w.done \in Seq(N)
      /\ w.held = None \/ w.held \in Seq(N)
  BY DEF CWatch
<1>3. CASE w.done = None
  <2>1. v = [w EXCEPT !.done = <<n>>] /\ w.held = <<>>
    BY <1>3 DEF Hears, InOrder
  <2>2. v.done = <<n>> /\ v.held = <<>>
    BY <2>1 DEF CWatch
  <2>3. <<n>> # None /\ <<n>> \o <<>> = <<n>> /\ (<<>> \o <<>>) \o <<n>> = <<n>> /\ <<>> # None /\ None # <<>>
    <3>1. <<n>> \in Seq(N)
      OBVIOUS
    <3>2. <<n>> \o <<>> = <<n>> /\ (<<>> \o <<>>) \o <<n>> = <<n>>
      OBVIOUS
    <3>3. QED
      BY <1>1, <3>1, <3>2
  <2> HIDE DEF v
  <2>4. QED
    BY <1>3, <2>1, <2>2, <2>3 DEF HeardOn, InOrder, Held, v
<1>4. CASE w.done # None /\ (w.held = None \/ Len(w.held) = ReadMax)
  <2>1. v = [w EXCEPT !.held = None]
    BY <1>4 DEF Hears
  <2>2. v.held = None /\ v.done = w.done
    BY <2>1 DEF CWatch
  <2> HIDE DEF v
  <2>3. QED
    BY <1>4, <2>2 DEF HeardOn, InOrder, v
<1>5. CASE w.done # None /\ ~(w.held = None \/ Len(w.held) = ReadMax)
  <2>1. v = [w EXCEPT !.held = Append(w.held, n)]
    BY <1>5 DEF Hears
  <2>2. v.held = Append(w.held, n) /\ v.done = w.done
    BY <2>1 DEF CWatch
  <2>3. \A d, h \in Seq(N) : d \o Append(h, n) = (d \o h) \o <<n>>
    BY ONLY n \in N, OneMore
  <2>4. w.done \in Seq(N) /\ w.held \in Seq(N)
    BY <1>2, <1>5
  <2> HIDE DEF v
  <2>5. Held(v) = Held(w) \o <<n>>
    BY <1>5, <2>2, <2>3, <2>4 DEF Held
  <2>6. QED
    BY <1>5, <2>2, <2>5 DEF HeardOn, InOrder, v
<1>6. QED
  BY <1>3, <1>4, <1>5

LEMMA HeardHeld ==
  ASSUME NEW w \in CWatch, InOrder(w), NEW said \in Seq(Notifications)
  PROVE  HeardOn(w, Heard(w, said), said)
<1> DEFINE N == Notifications
           T == {u \in Seq(N) : HeardOn(w, Heard(w, u), u)}
<1>1. <<>> \in T
  <2>1. Heard(w, <<>>) = w
    BY HeardShape
  <2>2. w.held # None => Held(w) \o <<>> = Held(w)
    <3>1. \A s \in Seq(N) : s \o <<>> = s
      OBVIOUS
    <3>2. QED
      BY <3>1, HeldSeq
  <2>3. <<>> \in Seq(N)
    OBVIOUS
  <2>4. QED
    BY <2>1, <2>2, <2>3 DEF HeardOn
<1>2. ASSUME NEW u \in Seq(N), NEW n \in N, u \in T PROVE Append(u, n) \in T
  <2> DEFINE a == Heard(w, u)
             b == Heard(w, Append(u, n))
  <2>1. a \in CWatch /\ b = Hears(a, n) /\ Append(u, n) \in Seq(N)
    BY HeardShape
  <2>2. HeardOn(w, a, u)
    BY <1>2
  <2> HIDE DEF a, b
  <2>3. HeardOn(a, b, <<n>>)
    BY <2>1, <2>2, HearsOne DEF HeardOn
  <2>4. \A s \in Seq(N) : (s \o u) \o <<n>> = s \o Append(u, n)
    BY ONLY u \in Seq(N), n \in N, OneMore
  <2>5. w.held # None => (Held(w) \o u) \o <<n>> = Held(w) \o Append(u, n)
    BY <2>4, HeldSeq
  <2>6. HeardOn(w, b, Append(u, n))
    BY <2>2, <2>3, <2>5 DEF HeardOn
  <2>7. QED
    BY <2>1, <2>6 DEF b
<1> HIDE DEF T
<1>3. said \in T
  BY <1>1, <1>2, SeqInduction
<1>4. QED
  BY <1>3 DEF T

\* What a change says makes of the names there were the names there are.
More(X, n) == X \cup {n}
Less(X, n) == X \ {n}
OneSaid(X, wd, n) ==
  /\ Tells(X, wd, <<<<"ADDED", n>>>>) = More(X, n)
  /\ Tells(X, wd, <<<<"REMOVED", n>>>>) = Less(X, n)
  /\ Tells(X, wd, <<<<"MODIFIED", n>>>>) = X
RenameSaid(X, wd, n, m) ==
  /\ Tells(X, wd, <<>> \o <<<<"OLD_NAME", n>>, <<"NEW_NAME", m>>>>) = More(Less(X, n), m)
  /\ Tells(X, wd, <<<<"REMOVED", m>>>> \o <<<<"OLD_NAME", n>>, <<"NEW_NAME", m>>>>)
     = More(Less(Less(X, m), n), m)

LEMMA SaidTells ==
  ASSUME NEW wd \in Wd, NEW X \in NameSets, NEW n \in Name, NEW m \in Name
  PROVE  OneSaid(X, wd, n) /\ RenameSaid(X, wd, n, m)
<1> DEFINE N == Notifications
           add(x) == <<"ADDED", x>>
           rem(x) == <<"REMOVED", x>>
           mod(x) == <<"MODIFIED", x>>
           old(x) == <<"OLD_NAME", x>>
           new(x) == <<"NEW_NAME", x>>
<1>1. \A x \in Name : add(x) \in N /\ rem(x) \in N /\ mod(x) \in N /\ old(x) \in N /\ new(x) \in N
  BY SaidNotifications
<1>2. \A x \in Name : /\ Noting(add(x)) = Plain("CREATE", x) /\ Noting(rem(x)) = Plain("DELETE", x)
                      /\ Noting(mod(x)) = Plain("MODIFY", x) /\ Noting(old(x)) = Plain("DELETE", x)
                      /\ Noting(new(x)) = Plain("CREATE", x)
  BY DEF Noting
<1> HIDE DEF N, add, rem, mod, old, new
<1>3. ASSUME NEW Y \in NameSets, NEW x \in Name
      PROVE  /\ Effect(Y, Noting(add(x))) = Y \cup {x} /\ Effect(Y, Noting(rem(x))) = Y \ {x}
             /\ Effect(Y, Noting(mod(x))) = Y /\ Effect(Y, Noting(old(x))) = Y \ {x}
             /\ Effect(Y, Noting(new(x))) = Y \cup {x}
  BY <1>2, EffectOf
<1>4. ASSUME NEW a \in N PROVE <<a>> = Append(<<>>, a) /\ <<>> \in Seq(N) /\ <<a>> \in Seq(N)
  OBVIOUS
<1>5. ASSUME NEW a \in N PROVE Tells(X, wd, <<a>>) = Effect(X, Noting(a))
  <2>1. Tells(X, wd, Append(<<>>, a)) = Effect(Tells(X, wd, <<>>), Noting(a))
    BY <1>4, TellsAppend DEF N
  <2>2. Tells(X, wd, <<>>) = X
    BY TellsShape
  <2>3. QED
    BY <1>4, <2>1, <2>2
<1>6. ASSUME NEW s \in Seq(N), NEW a \in N, NEW b \in N
      PROVE  Tells(X, wd, s \o <<a, b>>) = Effect(Effect(Tells(X, wd, s), Noting(a)), Noting(b))
  <2>1. s \o <<a, b>> = Append(Append(s, a), b) /\ Append(s, a) \in Seq(N)
    BY ONLY s \in Seq(N), a \in N, b \in N, TwoMore
  <2>2. /\ Tells(X, wd, Append(Append(s, a), b)) = Effect(Tells(X, wd, Append(s, a)), Noting(b))
        /\ Tells(X, wd, Append(s, a)) = Effect(Tells(X, wd, s), Noting(a))
    BY <2>1, TellsAppend DEF N
  <2>3. QED
    BY <2>1, <2>2
<1>7. Tells(X, wd, <<add(n)>>) = X \cup {n} /\ Tells(X, wd, <<rem(n)>>) = X \ {n} /\ Tells(X, wd, <<mod(n)>>) = X
  BY <1>1, <1>3, <1>5
<1>8. Tells(X, wd, <<>> \o <<old(n), new(m)>>) = (X \ {n}) \cup {m}
  <2>1. Tells(X, wd, <<>> \o <<old(n), new(m)>>) = Effect(Effect(Tells(X, wd, <<>>), Noting(old(n))), Noting(new(m)))
    BY <1>1, <1>4, <1>6
  <2>2. Tells(X, wd, <<>>) = X /\ X \ {n} \in NameSets
    BY TellsShape DEF NameSets
  <2>3. Effect(X, Noting(old(n))) = X \ {n}
    BY <1>3
  <2> DEFINE Y == X \ {n}
  <2>4. Y \in NameSets /\ Effect(X, Noting(old(n))) = Y /\ (X \ {n}) \cup {m} = Y \cup {m}
    BY <2>2, <2>3
  <2> HIDE DEF Y
  <2>5. Effect(Y, Noting(new(m))) = Y \cup {m}
    BY <1>3, <2>4
  <2>6. Tells(X, wd, <<>> \o <<old(n), new(m)>>) = Y \cup {m}
    BY <2>1, <2>2, <2>4, <2>5
  <2>7. QED
    BY <2>4, <2>6
<1>9. Tells(X, wd, <<rem(m)>> \o <<old(n), new(m)>>) = ((X \ {m}) \ {n}) \cup {m}
  <2>1. Tells(X, wd, <<rem(m)>> \o <<old(n), new(m)>>)
        = Effect(Effect(Tells(X, wd, <<rem(m)>>), Noting(old(n))), Noting(new(m)))
    BY <1>1, <1>4, <1>6
  <2>2. Tells(X, wd, <<rem(m)>>) = X \ {m}
    BY <1>1, <1>3, <1>5
  <2>3. X \ {m} \in NameSets /\ (X \ {m}) \ {n} \in NameSets
    BY DEF NameSets
  <2> DEFINE Z == X \ {m}
             Y == Z \ {n}
  <2>4. Y \in NameSets /\ Z \in NameSets /\ Tells(X, wd, <<rem(m)>>) = Z
        /\ ((X \ {m}) \ {n}) \cup {m} = Y \cup {m}
    BY <2>2, <2>3
  <2> HIDE DEF Z
  <2>5. Effect(Z, Noting(old(n))) = Y
    BY <1>3, <2>4
  <2> HIDE DEF Y
  <2>6. Effect(Y, Noting(new(m))) = Y \cup {m}
    BY <1>3, <2>4
  <2>7. Tells(X, wd, <<rem(m)>> \o <<old(n), new(m)>>) = Y \cup {m}
    BY <2>1, <2>4, <2>5, <2>6
  <2>8. QED
    BY <2>4, <2>7
<1>10. QED
  BY <1>7, <1>8, <1>9 DEF OneSaid, RenameSaid, More, Less, add, rem, mod, old, new

\* A change of the directory, and all that hear of it.
LEMMA HappensKeepsListing ==
  ASSUME TypeInv, TypeInv', ListingInv, NEW notes, NEW said \in Seq(Notifications), Happens(notes, said),
         \A wd \in Wd : Tells(NamesOf(dir), wd, said) = NamesOf(dir')
  PROVE  ListingInv'
<1>1. UNCHANGED <<arm, q, view>> /\ Watched' = Watched
      /\ \A wd \in Watched : watches'[wd] = IF watches[wd].dead THEN watches[wd]
                                            ELSE IF arm = "vnode" THEN Noted(watches[wd], notes)
                                            ELSE Heard(watches[wd], said)
  BY DEF Happens, caller, Watched
<1>2. ASSUME NEW wd \in Watched PROVE Retellable(wd)'
  <2>1. Retellable(wd) /\ wd \in Wd /\ view[wd] \in NameSets /\ Listing(wd)' = Listing(wd)
    BY <1>1, TableFacts DEF ListingInv, TypeInv, StreamTypes, Listing
  <2>2. CASE arm = "vnode"
    <3>1. watches[wd] \in VWatch
      BY <2>2 DEF TypeInv, TableTypes, WatchType
    <3>2. SameSubject(watches[wd], watches'[wd])
      BY <1>1, <2>2, <3>1, NotedStill DEF SameSubject, StillOf
    <3>3. QED
      BY <1>1, <2>1, <2>2, <3>2, RetellableStays
  <2>3. CASE arm = "changes"
    <3> DEFINE w == watches[wd]
    <3>1. w \in CWatch /\ InOrder(w)
      BY <2>1, <2>3 DEF TypeInv, TableTypes, WatchType, InOrder, Retellable
    <3>2. CASE w.dead
      <4>1. watches'[wd] = w
        BY <1>1, <3>2
      <4>2. (arm = "changes" /\ watches[wd].done = None => watches[wd].held = <<>>)'
        BY <3>1, <4>1 DEF InOrder
      <4>3. Listed(wd)'
        BY <1>1, <2>3, <3>2, <4>1 DEF Listed
      <4>4. QED
        BY <4>2, <4>3 DEF Retellable
    <3>3. CASE ~w.dead
      <4>1. watches'[wd] = Heard(w, said)
        BY <1>1, <2>3, <3>3
      <4>2. HeardOn(w, watches'[wd], said) /\ SameButHeard(w, watches'[wd])
        BY <3>1, <4>1, HeardHeld, HeardIn
      <4>3. (arm = "changes" /\ watches[wd].done = None => watches[wd].held = <<>>)'
        BY <4>2 DEF HeardOn, InOrder
      <4>4. ASSUME wd \notin q'.lost, IsDir(watches'[wd]),
                   watches'[wd].held # None, watches'[wd].done # <<>>
            PROVE  Tells(Listing(wd), wd, Held(watches'[wd])) = NamesOf(dir')
        <5>1. IsDir(w) /\ wd \notin q.lost /\ w.held # None /\ w.done # <<>>
              /\ Held(watches'[wd]) = Held(w) \o said
          BY <1>1, <4>2, <4>4 DEF HeardOn, SameButHeard, IsDir
        <5>2. Tells(Listing(wd), wd, Held(w)) = NamesOf(dir)
          BY <2>1, <2>3, <3>3, <5>1 DEF Retellable, Listed, Tells
        <5>3. Listing(wd) \in NameSets /\ Held(w) \in Seq(Notifications)
          BY <2>1, <3>1, <5>1, TableFacts, ReplayedShape, HeldSeq DEF Listing
        <5>4. Tells(Listing(wd), wd, Held(w) \o said) = Tells(Tells(Listing(wd), wd, Held(w)), wd, said)
          BY <2>1, <5>3, TellsConcat
        <5>5. QED
          BY <2>1, <5>1, <5>2, <5>4
      <4>5. (wd \notin q.lost /\ IsDir(watches[wd]) => Listed(wd))'
        <5>1. SUFFICES ASSUME wd \notin q'.lost, IsDir(watches'[wd]) PROVE Listed(wd)'
          BY DEF IsDir
        <5>2. (Replayed(Listing(wd), wd, AsRecords(wd, Held(watches[wd]))))'
              = Tells(Listing(wd), wd, Held(watches'[wd]))
          BY <2>1 DEF Tells, AsRecords, Held
        <5>3. QED
          BY <1>1, <2>3, <4>4, <5>1, <5>2 DEF Listed
      <4>6. QED
        BY <4>3, <4>5 DEF Retellable
    <3>4. QED
      BY <3>2, <3>3
  <2>4. QED
    BY <2>2, <2>3 DEF TypeInv, WorldTypes
<1>3. QED
  BY <1>1, <1>2 DEF ListingInv

LEMMA WorldKeepsListing ==
  ASSUME TypeInv, TypeInv', ListingInv, World
  PROVE  ListingInv'
<1> DEFINE X == NamesOf(dir)
<1>1. dir \in Listings /\ X \in NameSets /\ \A i \in Ino : i # None
  BY WatchAssumption DEF TypeInv, WorldTypes, NamesOf, NameSets
<1>2. ASSUME NEW n \in Name, NEW i \in Ino, dir' = [dir EXCEPT ![n] = i],
             Happens({<<"dir", "write">>}, <<<<"ADDED", n>>>>)
      PROVE  ListingInv'
  <2>1. NamesOf(dir') = More(X, n)
    BY <1>1, <1>2 DEF NamesOf, Listings, More
  <2> HIDE DEF X
  <2>2. \A wd \in Wd : OneSaid(X, wd, n)
    BY <1>1, SaidTells
  <2>3. \A wd \in Wd : Tells(NamesOf(dir), wd, <<<<"ADDED", n>>>>) = NamesOf(dir')
    BY <2>1, <2>2 DEF X, OneSaid
  <2>4. QED
    BY <1>2, <2>3, SaidNotifications, HappensKeepsListing
<1>3. ASSUME NEW n \in Name, dir' = [dir EXCEPT ![n] = None],
             Happens({<<"dir", "write">>, <<dir[n], "delete">>}, <<<<"REMOVED", n>>>>)
      PROVE  ListingInv'
  <2>1. NamesOf(dir') = Less(X, n)
    BY <1>1, <1>3 DEF NamesOf, Listings, Less
  <2> HIDE DEF X
  <2>2. \A wd \in Wd : OneSaid(X, wd, n)
    BY <1>1, SaidTells
  <2>3. \A wd \in Wd : Tells(NamesOf(dir), wd, <<<<"REMOVED", n>>>>) = NamesOf(dir')
    BY <2>1, <2>2 DEF X, OneSaid
  <2>4. QED
    BY <1>3, <2>3, SaidNotifications, HappensKeepsListing
<1>4. ASSUME NEW n \in Name, UNCHANGED dir, Happens({<<dir[n], "write">>}, <<<<"MODIFIED", n>>>>)
      PROVE  ListingInv'
  <2> HIDE DEF X
  <2>1. \A wd \in Wd : OneSaid(X, wd, n)
    BY <1>1, SaidTells
  <2>2. \A wd \in Wd : Tells(NamesOf(dir), wd, <<<<"MODIFIED", n>>>>) = NamesOf(dir')
    BY <1>4, <2>1 DEF X, OneSaid
  <2>3. QED
    BY <1>4, <2>2, SaidNotifications, HappensKeepsListing
<1>5. ASSUME NEW n \in Name, NEW m \in Name, n # m, dir[n] # None,
             dir' = [dir EXCEPT ![n] = None, ![m] = dir[n]],
             Happens({<<"dir", "write">>, <<dir[n], "rename">>, <<dir[m], "delete">>},
                     (IF dir[m] = None THEN <<>> ELSE <<<<"REMOVED", m>>>>)
                       \o <<<<"OLD_NAME", n>>, <<"NEW_NAME", m>>>>)
      PROVE  ListingInv'
  <2> DEFINE said == (IF dir[m] = None THEN <<>> ELSE <<<<"REMOVED", m>>>>)
                       \o <<<<"OLD_NAME", n>>, <<"NEW_NAME", m>>>>
             notes == {<<"dir", "write">>, <<dir[n], "rename">>, <<dir[m], "delete">>}
  <2>1. NamesOf(dir') = More(Less(X, n), m) /\ NamesOf(dir') = More(Less(Less(X, m), n), m)
    BY <1>1, <1>5 DEF NamesOf, Listings, More, Less
  <2>2. Happens(notes, said) /\ said \in Seq(Notifications)
    BY <1>5, SaidNotifications
  <2> HIDE DEF X, notes
  <2>3. ASSUME NEW wd \in Wd PROVE Tells(X, wd, said) = NamesOf(dir')
    <3>1. RenameSaid(X, wd, n, m)
      BY <1>1, SaidTells
    <3>2. CASE dir[m] = None
      BY <2>1, <3>1, <3>2 DEF RenameSaid
    <3>3. CASE dir[m] # None
      BY <2>1, <3>1, <3>3 DEF RenameSaid
    <3>4. QED
      BY <3>2, <3>3
  <2> HIDE DEF said
  <2>4. \A wd \in Wd : Tells(NamesOf(dir), wd, said) = NamesOf(dir')
    BY <2>3 DEF X
  <2>5. QED
    BY <2>2, <2>4, HappensKeepsListing
<1>6. ASSUME UNCHANGED dir, Happens({<<"dir", "delete">>}, <<>>) PROVE ListingInv'
  <2> HIDE DEF X
  <2>1. \A wd \in Wd : Tells(X, wd, <<>>) = X /\ <<>> \in Seq(Notifications)
    BY <1>1, TellsShape, SaidNotifications
  <2>2. \A wd \in Wd : Tells(NamesOf(dir), wd, <<>>) = NamesOf(dir')
    BY <1>6, <2>1 DEF X
  <2>3. <<>> \in Seq(Notifications)
    OBVIOUS
  <2>4. QED
    BY <1>6, <2>2, <2>3, HappensKeepsListing
<1>7. ASSUME NEW up \in BOOLEAN, arm = "changes", UNCHANGED <<arm, dir, q, view>>,
             watches' = [wd \in Watched |-> IF watches[wd].dead THEN watches[wd] ELSE Removed(watches[wd], up)]
      PROVE  ListingInv'
  <2>1. Watched' = Watched
    BY <1>7 DEF Watched
  <2>2. ASSUME NEW wd \in Watched' PROVE SameSubject(watches[wd], watches'[wd])
    <3>1. watches[wd] \in CWatch /\ wd \in Watched
      BY <1>7, <2>1 DEF TypeInv, TableTypes, WatchType
    <3>2. /\ Removed(watches[wd], up).path = watches[wd].path /\ Removed(watches[wd], up).done = watches[wd].done
          /\ Removed(watches[wd], up).held = watches[wd].held /\ Removed(watches[wd], up).dead
      BY <3>1 DEF Removed, CWatch
    <3>3. watches'[wd] = IF watches[wd].dead THEN watches[wd] ELSE Removed(watches[wd], up)
      BY <1>7, <3>1
    <3>4. QED
      BY <1>7, <3>2, <3>3 DEF SameSubject
  <2>3. QED
    BY <1>7, <2>1, <2>2, SameKeepsListing
<1>8. ASSUME UNCHANGED <<arm, dir, watches, q, view>> PROVE ListingInv'
  <2>1. Watched' = Watched /\ \A wd \in Watched' : SameSubject(watches[wd], watches'[wd])
    BY <1>8 DEF Watched, SameSubject
  <2>2. QED
    BY <1>8, <2>1, SameKeepsListing
<1> HIDE DEF X
<1>9. \/ \E n \in Name, i \in Ino : dir' = [dir EXCEPT ![n] = i] /\ Happens({<<"dir", "write">>}, <<<<"ADDED", n>>>>)
      \/ \E n \in Name : /\ dir' = [dir EXCEPT ![n] = None]
                         /\ Happens({<<"dir", "write">>, <<dir[n], "delete">>}, <<<<"REMOVED", n>>>>)
      \/ \E n \in Name : UNCHANGED dir /\ Happens({<<dir[n], "write">>}, <<<<"MODIFIED", n>>>>)
      \/ \E n, m \in Name :
           /\ n # m /\ dir[n] # None /\ dir' = [dir EXCEPT ![n] = None, ![m] = dir[n]]
           /\ Happens({<<"dir", "write">>, <<dir[n], "rename">>, <<dir[m], "delete">>},
                      (IF dir[m] = None THEN <<>> ELSE <<<<"REMOVED", m>>>>)
                        \o <<<<"OLD_NAME", n>>, <<"NEW_NAME", m>>>>)
      \/ UNCHANGED dir /\ Happens({<<"dir", "delete">>}, <<>>)
      \/ \E up \in BOOLEAN :
           /\ arm = "changes" /\ UNCHANGED <<arm, dir, q, view>>
           /\ watches' = [wd \in Watched |-> IF watches[wd].dead THEN watches[wd] ELSE Removed(watches[wd], up)]
      \/ UNCHANGED <<arm, dir, watches, q, view>>
  BY WorldCases, Zenon DEF caller
<1>10. QED
  BY <1>2, <1>3, <1>4, <1>5, <1>6, <1>7, <1>8, <1>9

\* What a notification is translated to does to a listing what the notification does.
LEMMA RecsOfEffect ==
  ASSUME NEW wd, IsDir(watches[wd]), NEW s, NEW n \in Notifications
  PROVE  \E r : RecsOf(wd, s, n) = <<r>> /\ \A X \in NameSets : Effect(X, r) = Effect(X, Noting(n))
<1>1. n[2] \in Name /\ n[1] \in {"ADDED", "REMOVED", "MODIFIED", "OLD_NAME", "NEW_NAME"}
  BY DEF Notifications
<1> DEFINE m == n[2]
           c == Opened(s, n)
<1>2. ASSUME NEW X \in NameSets
      PROVE  /\ Effect(X, Rec("MOVED_FROM", m, c)) = Effect(X, Plain("DELETE", m))
             /\ Effect(X, Rec("MOVED_TO", m, c)) = Effect(X, Plain("CREATE", m))
  <2> DEFINE Y == X \cup {m}
             Z == X \ {m}
  <2>1. m \in Name
    BY <1>1
  <2> HIDE DEF m, c
  <2>2. /\ Effect(X, Rec("MOVED_FROM", m, c)) = Z /\ Effect(X, Plain("DELETE", m)) = Z
        /\ Effect(X, Rec("MOVED_TO", m, c)) = Y /\ Effect(X, Plain("CREATE", m)) = Y
    BY <2>1, EffectOf
  <2> HIDE DEF Y, Z
  <2>3. QED
    BY <2>2
<1>3. \/ RecsOf(wd, s, n) = <<Plain("CREATE", m)>> /\ Noting(n) = Plain("CREATE", m)
      \/ RecsOf(wd, s, n) = <<Plain("DELETE", m)>> /\ Noting(n) = Plain("DELETE", m)
      \/ RecsOf(wd, s, n) = <<Plain("MODIFY", m)>> /\ Noting(n) = Plain("MODIFY", m)
      \/ RecsOf(wd, s, n) = <<Rec("MOVED_FROM", m, c)>> /\ Noting(n) = Plain("DELETE", m)
      \/ RecsOf(wd, s, n) = <<Rec("MOVED_TO", m, c)>> /\ Noting(n) = Plain("CREATE", m)
  <2> DEFINE k == n[1]
  <2>1. k \in {"ADDED", "REMOVED", "MODIFIED", "OLD_NAME", "NEW_NAME"}
    BY <1>1
  <2> HIDE DEF m, c
  <2>2. RecsOf(wd, s, n) = CASE k = "ADDED" -> <<Plain("CREATE", m)>>
                             [] k = "REMOVED" -> <<Plain("DELETE", m)>>
                             [] k = "MODIFIED" -> <<Plain("MODIFY", m)>>
                             [] k = "OLD_NAME" -> <<Rec("MOVED_FROM", m, c)>>
                             [] OTHER -> <<Rec("MOVED_TO", m, c)>>
    BY DEF RecsOf, m, c
  <2>3. Noting(n) = Plain(IF k \in {"ADDED", "NEW_NAME"} THEN "CREATE"
                          ELSE IF k = "MODIFIED" THEN "MODIFY" ELSE "DELETE", m)
    BY DEF Noting, m
  <2> HIDE DEF k
  <2>4. QED
    BY <2>1, <2>2, <2>3
<1> HIDE DEF m, c
<1>4. QED
  BY <1>2, <1>3

LEMMA TranslatedTells ==
  ASSUME NEW wd \in Wd, IsDir(watches[wd]), NEW s \in Emissions, NEW said \in Seq(Notifications),
         NEW v \in NameSets, wd \notin TranslatedAll(wd, s, said).q.lost
  PROVE  /\ wd \notin s.q.lost
         /\ Replayed(v, wd, TranslatedAll(wd, s, said).q.queue) = Tells(Replayed(v, wd, s.q.queue), wd, said)
<1> DEFINE N == Notifications
           base == Replayed(v, wd, s.q.queue)
           T == {u \in Seq(N) : wd \notin TranslatedAll(wd, s, u).q.lost =>
                   /\ wd \notin s.q.lost
                   /\ Replayed(v, wd, TranslatedAll(wd, s, u).q.queue) = Tells(base, wd, u)}
<1>1. base \in NameSets
  BY ReplayedShape DEF Emissions, QSet
<1> HIDE DEF base
<1>2. <<>> \in T
  <2>1. TranslatedAll(wd, s, <<>>) = s /\ Tells(base, wd, <<>>) = base /\ <<>> \in Seq(N)
    BY <1>1, TranslatedShape, TellsShape
  <2>2. QED
    BY <2>1 DEF base
<1>3. ASSUME NEW u \in Seq(N), NEW n \in N, u \in T PROVE Append(u, n) \in T
  <2> DEFINE a == TranslatedAll(wd, s, u)
             b == TranslatedAll(wd, s, Append(u, n))
             w == Replayed(v, wd, a.q.queue)
  <2>1. a \in Emissions /\ b = Translated(a, wd, n) /\ Append(u, n) \in Seq(N)
    BY TranslatedShape
  <2>2. wd \notin a.q.lost => wd \notin s.q.lost /\ w = Tells(base, wd, u)
    BY <1>3
  <2>3. Tells(base, wd, Append(u, n)) = Effect(Tells(base, wd, u), Noting(n))
    BY <1>1, TellsAppend
  <2> HIDE DEF a
  <2>4. PICK r : RecsOf(wd, a, n) = <<r>> /\ \A X \in NameSets : Effect(X, r) = Effect(X, Noting(n))
    BY RecsOfEffect
  <2>5. b.q = EmitAll(a.q, wd, <<r>>) /\ a.q \in QSet /\ a.q.queue \in Seq(Entry)
    <3>1. a.q \in QSet /\ a.q.queue \in Seq(Entry)
      BY <2>1 DEF Emissions, QSet
    <3>2. Translated(a, wd, n).q = EmitAll(a.q, wd, RecsOf(wd, a, n))
      BY TranslatedIs
    <3>3. QED
      BY <2>1, <2>4, <3>1, <3>2
  <2>6. r \in Said
    <3>1. <<r>> \in Seq(Said)
      BY <2>1, <2>4, RecsOfSaid
    <3>2. <<r>>[1] = r /\ 1 \in 1..Len(<<r>>)
      OBVIOUS
    <3>3. \A x \in Seq(Said) : \A i \in 1..Len(x) : x[i] \in Said
      OBVIOUS
    <3>4. QED
      BY <3>1, <3>2, <3>3
  <2>7. w \in NameSets
    BY <2>5, ReplayedShape
  <2>8. Retold(w, wd, <<r>>) = Effect(w, r)
    <3>1. <<r>> = Append(<<>>, r) /\ <<>> \in Seq(Said)
      OBVIOUS
    <3> HIDE DEF w
    <3>2. Retold(w, wd, Append(<<>>, r)) = Effect(Retold(w, wd, <<>>), r)
      BY <2>6, <2>7, <3>1, RetoldAppend
    <3>3. Retold(w, wd, <<>>) = w
      BY <2>7, RetoldShape
    <3>4. QED
      BY <3>1, <3>2, <3>3
  <2>9. wd \notin b.q.lost => wd \notin a.q.lost /\ Replayed(v, wd, b.q.queue) = Retold(w, wd, <<r>>)
    <3>1. <<r>> \in Seq(Said)
      BY <2>6
    <3>2. wd \notin EmitAll(a.q, wd, <<r>>).lost =>
            wd \notin a.q.lost /\ Replayed(v, wd, EmitAll(a.q, wd, <<r>>).queue) = Retold(w, wd, <<r>>)
      BY <2>5, <3>1, AllReplay
    <3>3. QED
      BY <2>5, <3>2
  <2>10. Effect(w, r) = Effect(w, Noting(n))
    BY <2>4, <2>7
  <2> HIDE DEF w, b
  <2>11. wd \notin b.q.lost => wd \notin s.q.lost /\ Replayed(v, wd, b.q.queue) = Tells(base, wd, Append(u, n))
    BY <2>2, <2>3, <2>8, <2>9, <2>10
  <2>12. QED
    BY <2>1, <2>11 DEF b
<1> HIDE DEF T
<1>4. said \in T
  BY <1>2, <1>3, SeqInduction
<1>5. QED
  BY <1>4 DEF T, base

\* What was held is completed next, or known to be lost.
LEMMA RearmedListing ==
  ASSUME NEW w \in CWatch, w.done # None
  PROVE  /\ Rearmed(w).path = w.path /\ Rearmed(w).dead = w.dead /\ Rearmed(w).held = <<>>
         /\ (~w.dead /\ Rearmed(w).done # <<>>) =>
               /\ w.held # None /\ Held(Rearmed(w)) = w.held /\ Held(w) = w.done \o w.held
               /\ w.held \in Seq(Notifications)
<1> DEFINE N == Notifications
           v == Rearmed(w)
           done == CASE w.dead \/ w.held = <<>> -> None
                     [] w.held = None -> <<>>
                     [] OTHER -> w.held
<1>1. v = [w EXCEPT !.done = done, !.held = <<>>]
  BY DEF Rearmed
<1>2. w.held = None \/ w.held \in Seq(N)
  BY DEF CWatch
<1>3. (~w.dead /\ done # <<>>) => (w.held # None /\ done = IF w.held = <<>> THEN None ELSE w.held)
  <2>1. None # <<>>
    <3>1. <<>> \in Seq(Notifications)
      OBVIOUS
    <3>2. QED
      BY <3>1, WatchAssumption
  <2>2. QED
    BY <2>1
<1> HIDE DEF done, v
<1>4. v.path = w.path /\ v.dead = w.dead /\ v.held = <<>> /\ v.done = done
  BY <1>1 DEF CWatch
<1>5. ASSUME ~w.dead, v.done # <<>>
      PROVE  /\ w.held # None /\ Held(v) = w.held /\ Held(w) = w.done \o w.held
             /\ w.held \in Seq(N)
  <2>1. w.held # None /\ w.held \in Seq(N) /\ v.done = IF w.held = <<>> THEN None ELSE w.held
    BY <1>2, <1>3, <1>4, <1>5
  <2>2. \A s \in Seq(N) : s \o <<>> = s
    OBVIOUS
  <2>3. Held(v) = w.held
    <3>1. CASE w.held = <<>>
      <4>1. <<>> \o <<>> = <<>>
        OBVIOUS
      <4>2. QED
        BY <1>4, <2>1, <3>1, <4>1 DEF Held
    <3>2. CASE w.held # <<>>
      BY <1>4, <2>1, <2>2, <3>2 DEF Held
    <3>3. QED
      BY <3>1, <3>2
  <2>4. Held(w) = w.done \o w.held
    BY DEF Held
  <2>5. QED
    BY <2>1, <2>3, <2>4
<1>6. QED
  BY <1>4, <1>5 DEF v, N

LEMMA CompletionKeepsListing ==
  ASSUME TypeInv, TypeInv', ListingInv, NEW wd \in Wd, NEW resolves, Completion(wd, resolves)
  PROVE  ListingInv'
<1>1. /\ arm = "changes" /\ wd \in Watched /\ watches[wd] \in CWatch
      /\ watches[wd].done \in Seq(Notifications) /\ Stream \in Emissions
      /\ Ended(wd) \/ Told(wd)
      /\ UNCHANGED <<arm, dir, view>>
  BY CompletionShape DEF caller, files
<1>2. q \in QSet
  BY TableFacts
<1>3. CASE Ended(wd)
  <2>1. Grows(q, q', wd)
    BY <1>2, <1>3, GoneGrows DEF Ended
  <2>2. QED
    BY <1>1, <1>3, <2>1, ForgetKeepsListing DEF Ended
<1>4. CASE Told(wd)
  <2> DEFINE s == TranslatedAll(wd, Stream, watches[wd].done)
             w == watches[wd]
  <2>1. /\ q'.queue = s.q.queue /\ Grows(q, q', wd)
        /\ q'.lost = IF watches[wd].done = <<>> THEN s.q.lost \cup {wd} ELSE s.q.lost
    BY <1>1, <1>4, ToldGrows
  <2>2. Watched' = Watched /\ watches'[wd] = Rearmed(w) /\ \A o \in Watched : o # wd => watches'[o] = watches[o]
    BY <1>1, <1>4 DEF Told, Watched
  <2>3. ASSUME NEW o \in Watched, o # wd PROVE Retellable(o)'
    BY <1>1, <2>1, <2>2, <2>3, OtherRetellable DEF ListingInv
  <2>4. w.done # None
    BY <1>1, WatchAssumption
  <2>5. /\ Rearmed(w).path = w.path /\ Rearmed(w).dead = w.dead /\ Rearmed(w).held = <<>>
        /\ (~w.dead /\ Rearmed(w).done # <<>>) =>
               /\ w.held # None /\ Held(Rearmed(w)) = w.held /\ Held(w) = w.done \o w.held
               /\ w.held \in Seq(Notifications)
    BY <1>1, <2>4, RearmedListing
  <2>6. (arm = "changes" /\ watches[wd].done = None => watches[wd].held = <<>>)'
    BY <2>2, <2>5
  <2>7. ASSUME wd \notin q'.lost, IsDir(watches'[wd]), ~watches'[wd].dead, watches'[wd].done # <<>>
        PROVE  Tells(Listing(wd)', wd, Held(watches'[wd])) = NamesOf(dir)
    <3>1. /\ IsDir(w) /\ ~w.dead /\ w.done # <<>> /\ wd \notin s.q.lost
          /\ w.held # None /\ Held(watches'[wd]) = w.held /\ Held(w) = w.done \o w.held
          /\ w.held \in Seq(Notifications) /\ w.done \in Seq(Notifications)
      BY <1>1, <2>1, <2>2, <2>5, <2>7 DEF IsDir
    <3>2. view[wd] \in NameSets /\ Stream.q = q
      BY DEF TypeInv, StreamTypes, Stream
    <3>3. /\ wd \notin q.lost
          /\ Replayed(view[wd], wd, s.q.queue) = Tells(Replayed(view[wd], wd, q.queue), wd, w.done)
      BY <1>1, <3>1, <3>2, TranslatedTells
    <3>4. Listing(wd)' = Tells(Listing(wd), wd, w.done) /\ Listing(wd) \in NameSets
      <4>1. Replayed(view[wd], wd, q.queue) \in NameSets
        BY <1>2, <3>2, ReplayedShape DEF QSet
      <4>2. QED
        BY <1>1, <2>1, <3>3, <4>1 DEF Listing
    <3>5. Tells(Listing(wd), wd, Held(w)) = NamesOf(dir)
      BY <1>1, <3>1, <3>3 DEF ListingInv, Retellable, Listed, Tells
    <3> HIDE DEF w
    <3>6. Tells(Listing(wd), wd, w.done \o w.held) = Tells(Tells(Listing(wd), wd, w.done), wd, w.held)
      BY <3>1, <3>4, TellsConcat
    <3>7. QED
      BY <3>1, <3>4, <3>5, <3>6
  <2>8. (wd \notin q.lost /\ IsDir(watches[wd]) => Listed(wd))'
    <3>1. SUFFICES ASSUME wd \notin q'.lost, IsDir(watches'[wd]) PROVE Listed(wd)'
      BY DEF IsDir
    <3>2. (Replayed(Listing(wd), wd, AsRecords(wd, Held(watches[wd]))))'
          = Tells(Listing(wd)', wd, Held(watches'[wd]))
      BY DEF Tells, AsRecords, Held
    <3>3. QED
      BY <1>1, <2>7, <3>1, <3>2 DEF Listed
  <2>9. Retellable(wd)'
    BY <2>6, <2>8 DEF Retellable
  <2>10. QED
    BY <2>2, <2>3, <2>9 DEF ListingInv
<1>5. QED
  BY <1>1, <1>3, <1>4

\* The ends that check_gone tells of are of others.
LEMMA CheckGoneKeepsListing ==
  ASSUME TypeInv, TypeInv', ListingInv, CheckGone
  PROVE  ListingInv'
<1>1. /\ LastFirst \in Seq(Wd) /\ GoneNow \subseteq Watched
      /\ q' = EndsAll(GoneNow, q, LastFirst) /\ watches' = Without(GoneNow)
      /\ UNCHANGED <<arm, dir, view>>
  BY CheckGoneShape DEF caller, files
<1>2. Watched' = Watched \ GoneNow /\ \A o \in Watched' : watches'[o] = watches[o]
  BY <1>1 DEF Without, Watched
<1>3. q \in QSet /\ q' \in QSet /\ Watched \subseteq Wd
  BY TableFacts DEF TypeInv, StreamTypes, QGood
<1>4. ASSUME NEW o \in Watched', q.queue = <<>>
      PROVE  (o \notin q'.lost => o \notin q.lost) /\ Listing(o)' = Listing(o)
  <2>1. EndsOf(GoneNow, q, q', LastFirst)
    BY <1>1, <1>3, <1>4, LastFirstIs, EndsGrow
  <2>2. o \in Wd /\ o # -1 /\ o \notin GoneNow /\ view[o] \in NameSets /\ view'[o] = view[o]
    <3>1. o \in Wd /\ o \notin GoneNow
      BY <1>2, <1>3
    <3>2. o # -1
      BY <3>1 DEF Wd
    <3>3. QED
      BY <1>1, <3>1, <3>2 DEF TypeInv, StreamTypes
  <2>3. NoneOf(q'.queue, o) /\ NoneOf(q.queue, o)
    <3>1. Len(q.queue) = 0
      BY <1>4
    <3>2. QED
      BY <2>1, <2>2, <3>1 DEF EndsOf, NoneOf
  <2>4. Replayed(view[o], o, q'.queue) = view[o] /\ Replayed(view[o], o, q.queue) = view[o]
    BY <1>3, <2>2, <2>3, NoneReplays DEF QSet
  <2>5. QED
    BY <2>1, <2>2, <2>4 DEF EndsOf, Listing
<1>5. ASSUME NEW o \in Watched', q.queue # <<>>
      PROVE  q' = q /\ Listing(o)' = Listing(o)
  <2>1. GoneNow = {}
    BY <1>5 DEF GoneNow
  <2>2. q' = q
    BY <1>1, <1>3, <2>1, NoEnds
  <2>3. QED
    BY <1>1, <2>2 DEF Listing
<1>6. ASSUME NEW o \in Watched' PROVE Retellable(o)'
  <2>1. Retellable(o) /\ SameSubject(watches[o], watches'[o])
    BY <1>2 DEF ListingInv, SameSubject
  <2>2. QED
    BY <1>1, <1>4, <1>5, <2>1, RetellableStays
<1>7. QED
  BY <1>6 DEF ListingInv

LEMMA InitListing == Init => ListingInv
<1> SUFFICES ASSUME Init PROVE ListingInv
  OBVIOUS
<1>1. Watched = {}
  BY DEF Init, Watched
<1>2. QED
  BY <1>1 DEF ListingInv

LEMMA NextKeepsListing ==
  ASSUME TypeInv, PlaceInv, ListingInv, TypeInv', [Next]_vars
  PROVE  ListingInv'
<1>1. CASE World
  BY <1>1, WorldKeepsListing
<1>2. CASE Asks
  BY <1>2, RmKeepsListing, AddWatchKeepsListing, OthersKeepListing DEF Asks
<1>3. CASE Reads
  BY <1>3, ReadKeepsListing, RegisterKeepsListing, TranslateKeepsListing, UpKeepsListing,
     CompletionKeepsListing, CheckGoneKeepsListing, OthersKeepListing DEF Reads
<1>4. CASE UNCHANGED vars
  BY <1>4, OthersKeepListing
<1>5. QED
  BY <1>1, <1>2, <1>3, <1>4 DEF Next

(***************************************************************************)
(* In every state the records still to be read turn the listing of a       *)
(* watch's caller into the one the arm has, and the notifications still in *)
(* the kernel's hands turn that into what is there (directory_changed,     *)
(* translate, arm_read).                                                   *)
(***************************************************************************)
THEOREM ReplaysHold == Spec => []ListingInv
<1>1. TypeInv /\ PlaceInv /\ ListingInv /\ TypeInv' /\ [Next]_vars => ListingInv'
  BY NextKeepsListing
<1>2. QED
  BY <1>1, InitListing, TypesHold, PlacesHold, PTL DEF Spec

(***************************************************************************)
(* Who keeps a listing by the records it reads has, once it has read all,  *)
(* what the arm last saw (EVFILT_VNODE), or with what the kernel still     *)
(* holds what is there (Windows): directory_changed and translate leave    *)
(* out no name that matters to it, whatever was renamed, replaced or given *)
(* an old inode number in between, unless records were lost.               *)
(***************************************************************************)
THEOREM ListingRetold == Spec => []ReplayGivesListing
<1>1. TypeInv /\ ListingInv => ReplayGivesListing
  BY DEF TypeInv, WorldTypes, ListingInv, Retellable, Listed, ReplayGivesListing
<1>2. QED
  BY <1>1, TypesHold, ReplaysHold, PTL

-----------------------------------------------------------------------------
(***************************************************************************)
(* The two halves of a rename.                                             *)
(***************************************************************************)
LEMMA GrowthKeepsPairs ==
  ASSUME NEW s \in QSet, NEW t \in QSet, NEW wd, Grows(s, t, wd), NEW o \in Wd, o # wd, PairsIn(s, o)
  PROVE  PairsIn(t, o)
<1> DEFINE m == Len(s.queue)
           n == Len(t.queue)
<1>1. m \in Nat /\ n \in Nat /\ n >= m /\ o # -1
  BY DEF QSet, Grows, Wd
<1>2. (\A i \in 1..m : t.queue[i] = s.queue[i]) /\ (\A i \in (m + 1)..n : t.queue[i].wd \in {wd, -1})
  BY DEF Grows
<1> SUFFICES ASSUME o \notin t.lost, NEW i \in 2..n, t.queue[i].wd = o, t.queue[i].kind = "MOVED_TO"
             PROVE  Half(t.queue[i - 1], o, t.queue[i].cookie)
  BY DEF PairsIn, PairsOf
<1> HIDE DEF m, n
<1>3. i \in 2..m
  <2>1. i \in (m + 1)..n \/ i \in 2..m
    BY <1>1
  <2>2. QED
    BY <1>1, <1>2, <2>1
<1>4. i \in 1..m /\ i - 1 \in 1..m
  BY <1>1, <1>3
<1>5. t.queue[i] = s.queue[i] /\ t.queue[i - 1] = s.queue[i - 1]
  BY <1>2, <1>4
<1>6. PairsOf(s.queue, o)
  BY DEF PairsIn, Grows
<1>7. QED
  BY <1>3, <1>5, <1>6 DEF PairsOf, m

\* A record that is no second half, or comes where the first waits, breaks no pair.
LEMMA OneKeepsPairs ==
  ASSUME NEW s \in QSet, NEW t \in QSet, NEW wd \in Wd, NEW r \in Said,
         Through(s, t, wd, r) \/ Warned(s, t, wd) \/ Dropped(s, t, wd) \/ Hidden(s, t, wd, r),
         PairsIn(s, wd), r.kind = "MOVED_TO" => Waits(s, wd, r.cookie)
  PROVE  PairsIn(t, wd) /\ (r.kind = "MOVED_FROM" => Waits(t, wd, r.cookie))
<1> SUFFICES ASSUME wd \notin t.lost
             PROVE  PairsOf(t.queue, wd) /\ (r.kind = "MOVED_FROM" => Waits(t, wd, r.cookie))
  BY DEF PairsIn, Waits
<1>1. s.queue \in Seq(Entry) /\ Queued(wd, r) \in Entry
  BY QueuedEntry DEF QSet
<1>2. CASE Through(s, t, wd, r)
  <2> DEFINE e == Queued(wd, r)
             m == Len(s.queue)
             n == Len(t.queue)
  <2>1. e.wd = wd /\ e.kind = r.kind /\ e.cookie = r.cookie /\ e \in Entry
    BY <1>1 DEF Queued
  <2> HIDE DEF e
  <2>2. t.queue = Append(s.queue, e) /\ t.lost = s.lost
    BY <1>2 DEF Through, e
  <2>3. m \in Nat /\ n = m + 1 /\ t.queue[m + 1] = e /\ \A i \in 1..m : t.queue[i] = s.queue[i]
    BY <1>1, <2>1, <2>2, AppendFacts
  <2>4. m >= 1 => s.queue # <<>>
    OBVIOUS
  <2> HIDE DEF m, n
  <2>5. ASSUME NEW i \in 2..n, t.queue[i].wd = wd, t.queue[i].kind = "MOVED_TO"
        PROVE  Half(t.queue[i - 1], wd, t.queue[i].cookie)
    <3>1. CASE i \in 2..m
      <4>1. t.queue[i] = s.queue[i] /\ t.queue[i - 1] = s.queue[i - 1]
        BY <2>3, <3>1
      <4>2. PairsOf(s.queue, wd)
        BY <2>2 DEF PairsIn
      <4>3. QED
        BY <2>5, <3>1, <4>1, <4>2 DEF PairsOf, m
    <3>2. CASE i = m + 1
      <4>1. i - 1 = m /\ m \in 1..m /\ m >= 1
        BY <2>3, <3>2
      <4>2. t.queue[i] = e /\ t.queue[i - 1] = s.queue[m]
        BY <2>3, <3>2, <4>1
      <4>3. Half(s.queue[m], wd, r.cookie)
        BY <2>1, <2>2, <2>4, <2>5, <4>1, <4>2 DEF Waits, m
      <4>4. QED
        BY <2>1, <4>2, <4>3
    <3>3. QED
      BY <2>3, <3>1, <3>2
  <2>6. t.queue[n] = e
    BY <2>3
  <2>7. QED
    BY <2>1, <2>5, <2>6 DEF PairsOf, Waits, Half, n
<1>3. CASE Hidden(s, t, wd, r)
  <2>1. t.queue = s.queue /\ r.kind \notin NameKinds /\ t.lost = s.lost
    BY <1>3 DEF Hidden
  <2>2. QED
    BY <2>1 DEF PairsIn, NameKinds
<1>4. CASE Warned(s, t, wd) \/ Dropped(s, t, wd)
  BY <1>4 DEF Warned, Dropped
<1>5. QED
  BY <1>2, <1>3, <1>4

LEMMA EmitKeepsPairs ==
  ASSUME NEW s \in QSet, NEW wd \in Wd, NEW r \in Said,
         PairsIn(s, wd), r.kind = "MOVED_TO" => Waits(s, wd, r.cookie)
  PROVE  LET t == EmitMasked(s, wd, r)
         IN t \in QSet /\ PairsIn(t, wd) /\ (r.kind = "MOVED_FROM" => Waits(t, wd, r.cookie))
<1> DEFINE t == EmitMasked(s, wd, r)
<1>1. t \in QSet /\ (Through(s, t, wd, r) \/ Warned(s, t, wd) \/ Dropped(s, t, wd) \/ Hidden(s, t, wd, r))
  BY EmitMaskedCases
<1> HIDE DEF t
<1>2. QED
  BY <1>1, OneKeepsPairs DEF t

\* Records that break no pair, whatever is queued.
Pairable(wd) == {u \in Seq(Said) : \A s \in QSet : PairsIn(s, wd) => PairsIn(EmitAll(s, wd, u), wd)}

LEMMA PairableShape ==
  ASSUME NEW wd \in Wd
  PROVE  /\ <<>> \in Pairable(wd)
         /\ \A u \in Pairable(wd), r \in Said : r.kind # "MOVED_TO" => Append(u, r) \in Pairable(wd)
         /\ \A u \in Pairable(wd), a, b \in Said :
              (a.kind = "MOVED_FROM" /\ b.kind = "MOVED_TO" /\ a.cookie = b.cookie)
                => Append(Append(u, a), b) \in Pairable(wd)
<1>1. <<>> \in Pairable(wd)
  <2>1. <<>> \in Seq(Said)
    OBVIOUS
  <2>2. \A s \in QSet : EmitAll(s, wd, <<>>) = s
    BY EmitAllShape
  <2>3. QED
    BY <2>1, <2>2 DEF Pairable
<1>2. ASSUME NEW s \in QSet, NEW u \in Seq(Said), NEW r \in Said
      PROVE  /\ EmitAll(s, wd, u) \in QSet /\ Append(u, r) \in Seq(Said)
             /\ EmitAll(s, wd, Append(u, r)) = EmitMasked(EmitAll(s, wd, u), wd, r)
  <2>1. Append(u, r) \in Seq(Said)
    OBVIOUS
  <2>2. QED
    BY <2>1, EmitAllShape
<1>3. ASSUME NEW u \in Pairable(wd), NEW r \in Said, r.kind # "MOVED_TO" PROVE Append(u, r) \in Pairable(wd)
  <2>1. u \in Seq(Said) /\ \A s \in QSet : PairsIn(s, wd) => PairsIn(EmitAll(s, wd, u), wd)
    BY DEF Pairable
  <2>2. ASSUME NEW s \in QSet, PairsIn(s, wd) PROVE PairsIn(EmitAll(s, wd, Append(u, r)), wd)
    BY <1>2, <1>3, <2>1, <2>2, EmitKeepsPairs
  <2>3. Append(u, r) \in Seq(Said)
    BY <2>1
  <2>4. QED
    BY <2>2, <2>3 DEF Pairable
<1>4. ASSUME NEW u \in Pairable(wd), NEW a \in Said, NEW b \in Said,
             a.kind = "MOVED_FROM", b.kind = "MOVED_TO", a.cookie = b.cookie
      PROVE  Append(Append(u, a), b) \in Pairable(wd)
  <2>1. u \in Seq(Said) /\ \A s \in QSet : PairsIn(s, wd) => PairsIn(EmitAll(s, wd, u), wd)
    BY DEF Pairable
  <2> DEFINE v == Append(u, a)
             w == Append(v, b)
  <2>2. v \in Seq(Said) /\ w \in Seq(Said)
    BY <2>1
  <2>3. ASSUME NEW s \in QSet, PairsIn(s, wd) PROVE PairsIn(EmitAll(s, wd, w), wd)
    <3>1. EmitAll(s, wd, u) \in QSet /\ EmitAll(s, wd, v) = EmitMasked(EmitAll(s, wd, u), wd, a)
      BY <1>2, <2>1
    <3>2. EmitAll(s, wd, v) \in QSet /\ EmitAll(s, wd, w) = EmitMasked(EmitAll(s, wd, v), wd, b)
      BY <1>2, <2>2
    <3>3. PairsIn(EmitAll(s, wd, v), wd) /\ Waits(EmitAll(s, wd, v), wd, b.cookie)
      BY <1>4, <2>1, <2>3, <3>1, EmitKeepsPairs
    <3> HIDE DEF v, w
    <3>4. QED
      BY <3>2, <3>3, EmitKeepsPairs
  <2>4. QED
    BY <2>2, <2>3 DEF Pairable
<1>5. QED
  BY <1>1, <1>3, <1>4

LEMMA GonePairs ==
  ASSUME NEW wd \in Wd
  PROVE  /\ Gone \in Pairable(wd)
         /\ \A u \in Pairable(wd) : u \o Gone \in Pairable(wd) /\ u \o <<>> = u
         /\ \A u \in Pairable(wd), r \in Said : r.kind # "MOVED_TO" => u \o <<r>> \in Pairable(wd)
<1> DEFINE d == Self("DELETE_SELF")
           e == Self("IGNORED")
<1>1. d \in Said /\ e \in Said /\ d.kind # "MOVED_TO" /\ e.kind # "MOVED_TO"
  BY SelfSeqs, QuietSaid DEF Self, Rec
<1>2. Gone = <<d, e>>
  BY DEF Gone
<1> HIDE DEF d, e
<1>3. <<d, e>> = Append(Append(<<>>, d), e)
  OBVIOUS
<1>4. Gone \in Pairable(wd)
  BY <1>1, <1>2, <1>3, PairableShape
<1>5. ASSUME NEW u \in Pairable(wd) PROVE u \o Gone \in Pairable(wd) /\ u \o <<>> = u
  <2>1. u \in Seq(Said)
    BY DEF Pairable
  <2>2. u \o <<d, e>> = Append(Append(u, d), e)
    BY <1>1, <2>1, TwoMore
  <2>3. u \o <<>> = u
    BY <2>1
  <2>4. QED
    BY <1>1, <1>2, <2>2, <2>3, PairableShape
<1>6. ASSUME NEW u \in Pairable(wd), NEW r \in Said, r.kind # "MOVED_TO" PROVE u \o <<r>> \in Pairable(wd)
  <2>1. u \in Seq(Said)
    BY DEF Pairable
  <2>2. u \o <<r>> = Append(u, r)
    BY <2>1
  <2>3. QED
    BY <1>6, <2>2, PairableShape
<1>7. QED
  BY <1>4, <1>5, <1>6

\* What a look finds is told in whole pairs.
LEMMA DifferencesPair ==
  ASSUME NEW wd \in Wd, NEW had \in Listings, NEW fresh \in Listings, NEW written, cookie \in Cookie
  PROVE  Differences(had, fresh, written).recs \in Pairable(wd)
<1> DEFINE K == {u \in Quiets : u \in Pairable(wd)}
           F == {s \in Finds : s.recs \in Pairable(wd)}
           stay == Stays(had, fresh, written, <<>>, Names)
           start == [recs |-> stay, landed |-> {}, cookie |-> cookie]
           left == Leaves(had, fresh, start, Names)
           new == Arrives(had, fresh, left.landed, left.recs, Names)
<1>1. Names \in Seq(Name)
  BY WatchAssumption
<1>2. <<>> \in K
  BY SelfSeqs, PairableShape
<1>3. ASSUME NEW u \in K, NEW r \in Quiet, r.kind # "MOVED_TO" PROVE u \o <<r>> \in K /\ Append(u, r) \in K
  <2>1. u \in Seq(Quiet) /\ u \in Pairable(wd) /\ r \in Said
    BY QuietSaid DEF Quiets
  <2>2. Append(u, r) \in Seq(Quiet) /\ u \o <<r>> = Append(u, r)
    BY <2>1
  <2>3. QED
    BY <1>3, <2>1, <2>2, PairableShape DEF Quiets
<1>4. ASSUME NEW u \in K, NEW n \in Name PROVE AfterStay(u, n, had, fresh, written) \in K
  <2> DEFINE d == Plain("DELETE", n)
             c == Plain("CREATE", n)
             m == Plain("MODIFY", n)
  <2>1. /\ d \in Quiet /\ c \in Quiet /\ m \in Quiet
        /\ d.kind # "MOVED_TO" /\ c.kind # "MOVED_TO" /\ m.kind # "MOVED_TO"
    BY InPlaceSaid DEF Plain, Rec
  <2>2. InPlace(n, had, fresh, written) \in {<<>>, <<d, c>>, <<m>>}
    BY InPlaceSaid
  <2> HIDE DEF d, c, m
  <2>3. u \in Seq(Quiet)
    BY DEF Quiets
  <2>4. u \o <<>> = u /\ u \o <<d, c>> = Append(Append(u, d), c) /\ u \o <<m>> = Append(u, m)
    BY <2>1, <2>3, TwoMore
  <2> HIDE DEF K
  <2>5. u \o <<>> \in K /\ u \o <<d, c>> \in K /\ u \o <<m>> \in K
    BY <1>3, <2>1, <2>4
  <2>6. QED
    BY <2>2, <2>5 DEF AfterStay
<1>5. ASSUME NEW u \in K, NEW n \in Name, NEW landed PROVE AfterArrival(u, n, had, fresh, landed) \in K
  <2> DEFINE c == Plain("CREATE", n)
  <2>1. c \in Quiet /\ c.kind # "MOVED_TO"
    BY InPlaceSaid DEF Plain, Rec
  <2>2. Arrival(n, had, fresh, landed) \in {<<>>, <<c>>}
    BY DEF Arrival
  <2> HIDE DEF c
  <2>3. u \o <<>> = u
    BY DEF Quiets
  <2> HIDE DEF K
  <2>4. QED
    BY <1>3, <2>1, <2>2, <2>3 DEF AfterArrival
<1>6. ASSUME NEW s \in F, NEW n \in Name PROVE Departure(s, n, had, fresh) \in F
  <2> DEFINE t == Departure(s, n, had, fresh)
  <2>1. s \in Finds /\ s.recs \in Pairable(wd) /\ s.recs \in Quiets /\ s.recs \in K /\ Bumped(s.cookie) \in Cookie
    BY BumpedCookie DEF Finds
  <2>2. t \in Finds
    BY <2>1, LeftSteps DEF Steps
  <2>3. Append(s.recs, Plain("DELETE", n)) \in Pairable(wd)
    <3>1. Plain("DELETE", n) \in Quiet /\ Plain("DELETE", n).kind # "MOVED_TO"
      BY InPlaceSaid DEF Plain, Rec
    <3>2. QED
      BY <1>3, <2>1, <3>1
  <2>4. ASSUME NEW m \in Name PROVE s.recs \o Moved(n, m, Bumped(s.cookie)) \in Pairable(wd)
    <3> DEFINE a == Rec("MOVED_FROM", n, Bumped(s.cookie))
               b == Rec("MOVED_TO", m, Bumped(s.cookie))
    <3>1. a \in Quiet /\ b \in Quiet /\ a.kind = "MOVED_FROM" /\ b.kind = "MOVED_TO" /\ a.cookie = b.cookie
      BY <2>1, MovedSaid DEF Rec
    <3>2. Moved(n, m, Bumped(s.cookie)) = <<a, b>>
      BY DEF Moved
    <3> HIDE DEF a, b
    <3>3. s.recs \in Seq(Quiet) /\ a \in Said /\ b \in Said
      BY <2>1, <3>1, QuietSaid DEF Quiets
    <3>4. s.recs \o <<a, b>> = Append(Append(s.recs, a), b)
      BY <3>1, <3>3, TwoMore
    <3>5. QED
      BY <2>1, <3>1, <3>2, <3>3, <3>4, PairableShape
  <2>5. t = s \/ t = Deleted(s, n) \/ \E m \in Name : t = Renamed(s, n, m)
    BY <2>1, DepartureCases
  <2> HIDE DEF t
  <2>6. t.recs \in Pairable(wd)
    <3>1. Deleted(s, n).recs = Append(s.recs, Plain("DELETE", n))
      BY DEF Deleted
    <3>2. \A m \in Name : Renamed(s, n, m).recs = s.recs \o Moved(n, m, Bumped(s.cookie))
      BY DEF Renamed
    <3>3. ASSUME NEW m \in Name, t = Renamed(s, n, m) PROVE t.recs \in Pairable(wd)
      BY <2>4, <3>2, <3>3
    <3>4. QED
      BY <2>1, <2>3, <2>5, <3>1, <3>3
  <2>7. QED
    BY <2>2, <2>6 DEF t
<1> HIDE DEF K, F
<1>7. stay \in K
  <2>1. Steps(StayStep(had, fresh, written), K, Name)
    <3>1. ASSUME NEW u \in K, NEW n \in Name PROVE StayStep(had, fresh, written)[<<u, n>>] \in K
      <4>1. u \in Quiets
        BY DEF K
      <4>2. QED
        BY <1>4, <4>1, StaySteps
    <3>2. QED
      BY <3>1 DEF Steps
  <2>2. ASSUME NEW e \in K PROVE Stays(had, fresh, written, e, Names) \in K
    <3>1. Folded(StayStep(had, fresh, written), e, Names) \in K
      BY <1>1, <2>1, FoldedIn
    <3>2. e \in Quiets
      BY DEF K
    <3>3. QED
      BY <1>1, <3>1, <3>2, StayFolds
  <2>3. QED
    BY <1>2, <2>2
<1>8. start \in F
  BY <1>7 DEF Finds, NameSets, K, F
<1> HIDE DEF start
<1>9. left \in F
  <2>1. Steps(LeftStep(had, fresh), F, Name)
    <3>1. ASSUME NEW s \in F, NEW n \in Name PROVE LeftStep(had, fresh)[<<s, n>>] \in F
      <4>1. s \in Finds
        BY DEF F
      <4>2. QED
        BY <1>6, <4>1, LeftSteps
    <3>2. QED
      BY <3>1 DEF Steps
  <2>2. Folded(LeftStep(had, fresh), start, Names) \in F
    BY <1>1, <1>8, <2>1, FoldedIn
  <2>3. start \in Finds
    BY <1>8 DEF F
  <2>4. QED
    BY <1>1, <2>2, <2>3, LeftFolds
<1> HIDE DEF left
<1>10. new \in K
  <2>1. left.recs \in K
    BY <1>9 DEF F, K, Finds
  <2>2. ASSUME NEW landed PROVE Steps(ArriveStep(had, fresh, landed), K, Name)
    <3>1. ASSUME NEW u \in K, NEW n \in Name PROVE ArriveStep(had, fresh, landed)[<<u, n>>] \in K
      <4>1. u \in Quiets
        BY DEF K
      <4>2. QED
        BY <1>5, <4>1, ArriveSteps
    <3>2. QED
      BY <3>1 DEF Steps
  <2>3. ASSUME NEW landed PROVE Arrives(had, fresh, landed, left.recs, Names) \in K
    <3>1. Folded(ArriveStep(had, fresh, landed), left.recs, Names) \in K
      BY <1>1, <2>1, <2>2, FoldedIn
    <3>2. left.recs \in Quiets
      BY <2>1 DEF K
    <3>3. QED
      BY <1>1, <3>1, <3>2, ArriveFolds
  <2>4. QED
    BY <2>3
<1>11. Differences(had, fresh, written) = [recs |-> new, cookie |-> left.cookie]
  BY DifferencesIs DEF left, start
<1>12. QED
  BY <1>10, <1>11 DEF K

LEMMA AllOfPairs ==
  ASSUME TypeInv, NEW wd \in Wd, NEW written, Translate(wd, written)
  PROVE  AllOf(wd, written) \in Pairable(wd)
<1> DEFINE P == Pairable(wd)
           recs == Diff(wd, written).recs
<1>1. watches[wd] \in VWatch /\ recs \in Quiets
  BY TranslateShape
<1>2. watches[wd].kids \in Listings /\ look.fresh \in Listings /\ cookie \in Cookie
  BY <1>1 DEF VWatch, Listings, TypeInv, PhaseTypes, StreamTypes
<1>3. recs \in P
  <2>1. Differences(watches[wd].kids, look.fresh, written).recs \in P
    BY <1>2, DifferencesPair
  <2>2. QED
    BY <2>1, PairableShape DEF Diff
<1>4. recs \o OfItself(wd) \in P
  <2> DEFINE m == Self("MODIFY")
             v == Self("MOVE_SELF")
             first == IF "write" \in taken[wd] /\ ~IsDir(watches[wd]) THEN <<m>> ELSE <<>>
             second == IF "rename" \in taken[wd] THEN <<v>> ELSE <<>>
  <2>1. m \in Said /\ v \in Said /\ m.kind # "MOVED_TO" /\ v.kind # "MOVED_TO" /\ first \in Quiets /\ second \in Quiets
    BY SelfSeqs, QuietSaid DEF Self, Rec
  <2>2. OfItself(wd) = first \o second
    BY DEF OfItself
  <2>3. recs \o (first \o second) = (recs \o first) \o second
    <3>1. \A a, b, c \in Quiets : a \o (b \o c) = (a \o b) \o c
      BY DEF Quiets
    <3>2. QED
      BY <1>1, <2>1, <3>1, ZenonT(40)
  <2>4. \A u \in P : u \o <<m>> \in P /\ u \o <<v>> \in P /\ u \o <<>> \in P
    <3>1. \A u \in P, r \in Said : r.kind # "MOVED_TO" => u \o <<r>> \in P
      BY GonePairs
    <3>2. \A u \in P : u \o <<>> \in P
      BY GonePairs
    <3>3. QED
      BY <2>1, <3>1, <3>2
  <2> HIDE DEF m, v, P, recs
  <2>5. QED
    BY <1>3, <2>2, <2>3, <2>4
<1> HIDE DEF recs
<1>5. QED
  BY <1>4, GonePairs DEF AllOf, OfEnd, recs

\* What notifications are translated to comes in whole pairs, if they do.
LEMMA TranslatedPairs ==
  ASSUME NEW wd \in Wd, IsDir(watches[wd]), NEW s \in Emissions, PairsIn(s.q, wd),
         NEW said \in Seq(Notifications), Paired(said), NewFirst(said) => Waits(s.q, wd, s.open_cookie)
  PROVE  LET t == TranslatedAll(wd, s, said)
         IN PairsIn(t.q, wd) /\ (OldLast(said) => Waits(t.q, wd, t.open_cookie))
<1> DEFINE N == Notifications
           Fits(u) == Paired(u) /\ (NewFirst(u) => Waits(s.q, wd, s.open_cookie))
           Tidy(u) == LET t == TranslatedAll(wd, s, u)
                       IN PairsIn(t.q, wd) /\ (OldLast(u) => Waits(t.q, wd, t.open_cookie))
           T == {u \in Seq(N) : Fits(u) => Tidy(u)}
<1>1. <<>> \in T
  <2>1. <<>> \in Seq(N) /\ TranslatedAll(wd, s, <<>>) = s
    BY TranslatedShape
  <2>2. QED
    BY <2>1 DEF OldLast
<1>2. ASSUME NEW u \in Seq(N), NEW n \in N, u \in T PROVE Append(u, n) \in T
  <2> DEFINE w == Append(u, n)
             a == TranslatedAll(wd, s, u)
             b == TranslatedAll(wd, s, w)
             m == Len(u)
  <2>1. m \in Nat /\ w \in Seq(N) /\ Len(w) = m + 1 /\ w[m + 1] = n /\ (\A i \in 1..m : w[i] = u[i])
        /\ w # <<>> /\ (m = 0 <=> u = <<>>)
    OBVIOUS
  <2>2. a \in Emissions /\ b = Translated(a, wd, n)
    <3>1. w = Append(u, n)
      OBVIOUS
    <3>2. QED
      BY <3>1, TranslatedShape
  <2>3. SUFFICES ASSUME Fits(w) PROVE Tidy(w)
    BY <2>1
  <2> HIDE DEF w, a, b, m
  <2>4. Fits(u)
    <3>1. \A i \in 2..m : i \in 2..(m + 1) /\ w[i] = u[i] /\ w[i - 1] = u[i - 1]
      BY <2>1
    <3>2. Paired(u)
      BY <2>1, <2>3, <3>1 DEF Paired, m
    <3>3. NewFirst(u) => NewFirst(w)
      BY <2>1 DEF NewFirst
    <3>4. QED
      BY <2>3, <3>2, <3>3
  <2>5. PairsIn(a.q, wd) /\ (OldLast(u) => Waits(a.q, wd, a.open_cookie))
    BY <1>2, <2>4 DEF a
  <2>6. n[1] = "NEW_NAME" => Waits(a.q, wd, a.open_cookie)
    <3> SUFFICES ASSUME n[1] = "NEW_NAME" PROVE Waits(a.q, wd, a.open_cookie)
      OBVIOUS
    <3>1. CASE m = 0
      <4>1. u = <<>> /\ NewFirst(w)
        BY <2>1, <3>1 DEF NewFirst
      <4>2. a = s
        BY <4>1, TranslatedShape DEF a
      <4>3. QED
        BY <2>3, <4>1, <4>2
    <3>2. CASE m # 0
      <4>1. m + 1 \in 2..(m + 1) /\ m \in 1..m /\ (m + 1) - 1 = m
        BY <2>1, <3>2
      <4>2. w[m][1] = "OLD_NAME"
        BY <2>1, <2>3, <4>1 DEF Paired
      <4>3. OldLast(u)
        BY <2>1, <3>2, <4>1, <4>2 DEF OldLast, m
      <4>4. QED
        BY <2>5, <4>3
    <3>3. QED
      BY <3>1, <3>2
  <2>7. PICK r : RecsOf(wd, a, n) = <<r>> /\ (r.kind = "MOVED_TO" => n[1] = "NEW_NAME" /\ r.cookie = a.open_cookie)
                 /\ (n[1] = "OLD_NAME" => r.kind = "MOVED_FROM" /\ r.cookie = Opened(a, n))
    <3> DEFINE o == Opened(a, n)
               r == CASE n[1] = "ADDED" -> Plain("CREATE", n[2])
                      [] n[1] = "REMOVED" -> Plain("DELETE", n[2])
                      [] n[1] = "MODIFIED" -> Plain("MODIFY", n[2])
                      [] n[1] = "OLD_NAME" -> Rec("MOVED_FROM", n[2], o)
                      [] OTHER -> Rec("MOVED_TO", n[2], o)
    <3>1. n[1] \in {"ADDED", "REMOVED", "MODIFIED", "OLD_NAME", "NEW_NAME"}
      BY DEF Notifications
    <3>2. n[1] # "OLD_NAME" => o = a.open_cookie
      BY DEF Opened
    <3> HIDE DEF o
    <3>3. RecsOf(wd, a, n) = <<r>>
      BY <3>1 DEF RecsOf, o
    <3>4. /\ r.kind = "MOVED_TO" => n[1] = "NEW_NAME" /\ r.cookie = o
          /\ n[1] = "OLD_NAME" => r.kind = "MOVED_FROM" /\ r.cookie = o
      BY <3>1 DEF Plain, Rec
    <3> HIDE DEF r
    <3>5. QED
      BY <3>2, <3>3, <3>4 DEF o
  <2>8. r \in Said
    <3>1. <<r>> \in Seq(Said)
      BY <2>2, <2>7, RecsOfSaid
    <3>2. <<r>>[1] = r /\ 1 \in 1..Len(<<r>>)
      OBVIOUS
    <3>3. \A x \in Seq(Said) : \A i \in 1..Len(x) : x[i] \in Said
      OBVIOUS
    <3>4. QED
      BY <3>1, <3>2, <3>3
  <2>9. a.q \in QSet /\ b.q = EmitMasked(a.q, wd, r) /\ (n[1] = "OLD_NAME" => b.open_cookie = Opened(a, n))
    <3>1. a.q \in QSet
      BY <2>2 DEF Emissions
    <3>2. b.q = EmitAll(a.q, wd, <<r>>) /\ (n[1] = "OLD_NAME" => b.open_cookie = Opened(a, n))
      BY <2>2, <2>7, TranslatedIs
    <3>3. EmitAll(a.q, wd, Append(<<>>, r)) = EmitMasked(EmitAll(a.q, wd, <<>>), wd, r)
          /\ EmitAll(a.q, wd, <<>>) = a.q
      <4>1. <<>> \in Seq(Said)
        OBVIOUS
      <4>2. QED
        BY <2>8, <3>1, <4>1, EmitAllShape
    <3>4. Append(<<>>, r) = <<r>>
      OBVIOUS
    <3>5. QED
      BY <3>1, <3>2, <3>3, <3>4
  <2>10. PairsIn(b.q, wd) /\ (r.kind = "MOVED_FROM" => Waits(b.q, wd, r.cookie))
    BY <2>5, <2>6, <2>7, <2>8, <2>9, EmitKeepsPairs
  <2>11. OldLast(w) => n[1] = "OLD_NAME"
    BY <2>1 DEF OldLast
  <2>12. QED
    BY <2>7, <2>9, <2>10, <2>11 DEF b
<1> HIDE DEF T
<1>3. said \in T
  BY <1>1, <1>2, SeqInduction
<1>4. QED
  BY <1>3 DEF T

\* Who hears of a rename hears its halves one after the other.
JustOld(w) == IF w.held = <<>> THEN w.done # None /\ OldLast(w.done)
              ELSE w.held # None => OldLast(w.held)
HeardWell(w, v) ==
  /\ v \in CWatch /\ InOrder(v) /\ WellHeard(v)
  /\ (v.done # None /\ NewFirst(v.done)) => (w.done # None /\ NewFirst(w.done))

LEMMA PairedAppend ==
  ASSUME NEW s \in Seq(Notifications), Paired(s), NEW n \in Notifications,
         n[1] = "NEW_NAME" => s = <<>> \/ OldLast(s)
  PROVE  /\ Paired(Append(s, n)) /\ Append(s, n) \in Seq(Notifications) /\ Append(s, n) # <<>>
         /\ n[1] = "OLD_NAME" => OldLast(Append(s, n))
         /\ NewFirst(Append(s, n)) => NewFirst(s) \/ (s = <<>> /\ n[1] = "NEW_NAME")
<1> DEFINE w == Append(s, n)
           m == Len(s)
<1>1. m \in Nat /\ w \in Seq(Notifications) /\ Len(w) = m + 1 /\ w[m + 1] = n /\ (\A i \in 1..m : w[i] = s[i])
      /\ w # <<>> /\ (m = 0 <=> s = <<>>)
  OBVIOUS
<1> HIDE DEF w, m
<1>2. ASSUME NEW i \in 2..(m + 1), w[i][1] = "NEW_NAME" PROVE w[i - 1][1] = "OLD_NAME"
  <2>1. CASE i \in 2..m
    <3>1. w[i] = s[i] /\ w[i - 1] = s[i - 1]
      BY <1>1, <2>1
    <3>2. QED
      BY <1>2, <2>1, <3>1 DEF Paired, m
  <2>2. CASE i = m + 1
    <3>1. m \in 1..m /\ i - 1 = m /\ m # 0
      BY <1>1, <2>2
    <3>2. w[i] = n /\ w[i - 1] = s[m]
      BY <1>1, <2>2, <3>1
    <3>3. OldLast(s)
      BY <1>1, <1>2, <3>1, <3>2
    <3>4. QED
      BY <3>2, <3>3 DEF OldLast, m
  <2>3. QED
    BY <1>1, <2>1, <2>2
<1>3. Paired(w)
  BY <1>1, <1>2 DEF Paired
<1>4. n[1] = "OLD_NAME" => OldLast(w)
  BY <1>1 DEF OldLast
<1>5. NewFirst(w) => NewFirst(s) \/ (s = <<>> /\ n[1] = "NEW_NAME")
  <2>1. CASE m = 0
    BY <1>1, <2>1 DEF NewFirst
  <2>2. CASE m # 0
    <3>1. 1 \in 1..m
      BY <1>1, <2>2
    <3>2. QED
      BY <1>1, <2>2, <3>1 DEF NewFirst
  <2>3. QED
    BY <2>1, <2>2
<1>6. QED
  BY <1>1, <1>3, <1>4, <1>5 DEF w

LEMMA HearsWell ==
  ASSUME NEW w \in CWatch, InOrder(w), WellHeard(w), NEW n \in Notifications,
         n[1] = "NEW_NAME" => JustOld(w)
  PROVE  /\ HeardWell(w, Hears(w, n))
         /\ n[1] = "OLD_NAME" => JustOld(Hears(w, n))
<1> DEFINE N == Notifications
           v == Hears(w, n)
<1>1. None \notin Seq(N) /\ <<>> \in Seq(N) /\ <<>> # None
  <2>1. None \notin Seq(N) /\ <<>> \in Seq(N)
    BY WatchAssumption
  <2>2. QED
    BY <2>1
<1>2. /\ w.done = None \/ w.done \in Seq(N)
      /\ w.held = None \/ w.held \in Seq(N)
  BY DEF CWatch
<1>3. v \in CWatch
  <2>1. HearStep[<<w, n>>] = Hears(w, n) /\ HearStep[<<w, n>>] \in CWatch
    BY HeardSteps DEF Steps
  <2>2. QED
    BY <2>1
<1>4. CASE w.done = None
  <2>1. v = [w EXCEPT !.done = <<n>>] /\ w.held = <<>>
    BY <1>4 DEF Hears, InOrder
  <2>2. v.done = <<n>> /\ v.held = <<>>
    BY <2>1 DEF CWatch
  <2>3. n[1] # "NEW_NAME"
    BY <1>4, <2>1 DEF JustOld
  <2>4. /\ <<n>> \in Seq(N) /\ Len(<<n>>) = 1 /\ <<n>>[1] = n /\ <<n>> # <<>>
        /\ Len(<<>>) = 0
    OBVIOUS
  <2>5. Paired(<<n>>) /\ Paired(<<>>) /\ ~NewFirst(<<n>>) /\ ~NewFirst(<<>>) /\ <<n>> # None
    <3>1. Paired(<<n>>)
      BY <2>4 DEF Paired
    <3>2. Paired(<<>>) /\ ~NewFirst(<<>>)
      BY <2>4 DEF Paired, NewFirst
    <3>3. ~NewFirst(<<n>>)
      BY <2>3, <2>4 DEF NewFirst
    <3>4. <<n>> # None
      BY <1>1, <2>4
    <3>5. QED
      BY <3>1, <3>2, <3>3, <3>4
  <2>6. n[1] = "OLD_NAME" => OldLast(<<n>>)
    BY <2>4 DEF OldLast
  <2> HIDE DEF v, N
  <2>7. WellHeard(v) /\ InOrder(v)
    BY <1>1, <2>2, <2>5 DEF WellHeard, InOrder
  <2>8. QED
    BY <1>3, <2>2, <2>5, <2>6, <2>7 DEF HeardWell, JustOld, v
<1>5. CASE w.done # None /\ (w.held = None \/ Len(w.held) = ReadMax)
  <2>1. v = [w EXCEPT !.held = None]
    BY <1>5 DEF Hears
  <2>2. v.held = None /\ v.done = w.done
    BY <2>1 DEF CWatch
  <2> HIDE DEF v
  <2>3. QED
    BY <1>1, <1>3, <1>5, <2>2 DEF HeardWell, JustOld, WellHeard, InOrder, v
<1>6. CASE w.done # None /\ ~(w.held = None \/ Len(w.held) = ReadMax)
  <2>1. v = [w EXCEPT !.held = Append(w.held, n)]
    BY <1>6 DEF Hears
  <2>2. v.held = Append(w.held, n) /\ v.done = w.done /\ w.held \in Seq(N) /\ Paired(w.held)
    BY <1>2, <1>6, <2>1 DEF CWatch, WellHeard
  <2>3. n[1] = "NEW_NAME" => (w.held = <<>> /\ OldLast(w.done)) \/ OldLast(w.held)
    BY <1>6 DEF JustOld
  <2> HIDE DEF v
  <2>4. /\ Paired(v.held) /\ v.held \in Seq(N) /\ v.held # <<>>
        /\ n[1] = "OLD_NAME" => OldLast(v.held)
        /\ NewFirst(v.held) => NewFirst(w.held) \/ (w.held = <<>> /\ n[1] = "NEW_NAME")
    BY <2>2, <2>3, PairedAppend
  <2>5. NewFirst(v.held) => OldLast(w.done)
    <3>1. w.held = <<>> => ~OldLast(w.held)
      BY DEF OldLast
    <3>2. QED
      BY <1>6, <2>3, <2>4, <3>1 DEF WellHeard
  <2>6. WellHeard(v) /\ InOrder(v)
    BY <1>6, <2>2, <2>4, <2>5 DEF WellHeard, InOrder
  <2>7. QED
    BY <1>3, <1>6, <2>2, <2>4, <2>6 DEF HeardWell, JustOld, v
<1>7. QED
  BY <1>4, <1>5, <1>6

\* What a change says, in that it tells of a rename.
LEMMA SaidWell ==
  ASSUME NEW w \in CWatch, InOrder(w), WellHeard(w), NEW n \in Name, NEW m \in Name
  PROVE  /\ HeardWell(w, Heard(w, <<>>))
         /\ HeardWell(w, Heard(w, <<<<"ADDED", n>>>>)) /\ HeardWell(w, Heard(w, <<<<"REMOVED", n>>>>))
         /\ HeardWell(w, Heard(w, <<<<"MODIFIED", n>>>>))
         /\ HeardWell(w, Heard(w, <<>> \o <<<<"OLD_NAME", n>>, <<"NEW_NAME", m>>>>))
         /\ HeardWell(w, Heard(w, <<<<"REMOVED", m>>>> \o <<<<"OLD_NAME", n>>, <<"NEW_NAME", m>>>>))
<1> DEFINE N == Notifications
<1>1. Heard(w, <<>>) = w /\ HeardWell(w, w)
  BY HeardShape DEF HeardWell
<1>2. /\ <<"ADDED", n>> \in N /\ <<"REMOVED", n>> \in N /\ <<"REMOVED", m>> \in N /\ <<"MODIFIED", n>> \in N
      /\ <<"OLD_NAME", n>> \in N /\ <<"NEW_NAME", m>> \in N
  BY SaidNotifications
<1>3. ASSUME NEW a \in N, a[1] # "NEW_NAME"
      PROVE  /\ Heard(w, <<a>>) = Hears(w, a) /\ HeardWell(w, Heard(w, <<a>>))
             /\ <<a>> \in Seq(N)
  <2>1. <<a>> = Append(<<>>, a) /\ <<>> \in Seq(N) /\ <<a>> \in Seq(N)
    OBVIOUS
  <2>2. Heard(w, Append(<<>>, a)) = Hears(Heard(w, <<>>), a)
    BY <2>1, HeardShape
  <2>3. HeardWell(w, Hears(w, a))
    BY <1>3, HearsWell
  <2>4. QED
    BY <1>1, <2>1, <2>2, <2>3
<1>4. ASSUME NEW s \in Seq(N), HeardWell(w, Heard(w, s)), NEW a \in N, NEW b \in N, a[1] = "OLD_NAME"
      PROVE  HeardWell(w, Heard(w, s \o <<a, b>>))
  <2> DEFINE u == Heard(w, s)
             v == Hears(u, a)
             x == Hears(v, b)
  <2>1. s \o <<a, b>> = Append(Append(s, a), b) /\ Append(s, a) \in Seq(N)
    BY ONLY s \in Seq(N), a \in N, b \in N, TwoMore
  <2>2. Heard(w, s \o <<a, b>>) = x
    <3>1. Heard(w, Append(s, a)) = Hears(Heard(w, s), a)
      BY HeardShape
    <3>2. Heard(w, Append(Append(s, a), b)) = Hears(Heard(w, Append(s, a)), b)
      BY <2>1, HeardShape
    <3>3. QED
      BY <2>1, <3>1, <3>2
  <2>3. u \in CWatch /\ InOrder(u) /\ WellHeard(u)
    BY <1>4 DEF HeardWell
  <2> HIDE DEF u, x
  <2>4. HeardWell(u, v) /\ JustOld(v)
    BY <1>4, <2>3, HearsWell
  <2> HIDE DEF v
  <2>5. HeardWell(v, x)
    BY <2>4, HearsWell DEF HeardWell, x
  <2>6. QED
    BY <1>4, <2>2, <2>4, <2>5 DEF HeardWell, u
<1>5. <<"ADDED", n>>[1] # "NEW_NAME" /\ <<"REMOVED", n>>[1] # "NEW_NAME" /\ <<"REMOVED", m>>[1] # "NEW_NAME"
      /\ <<"MODIFIED", n>>[1] # "NEW_NAME" /\ <<"OLD_NAME", n>>[1] = "OLD_NAME" /\ <<>> \in Seq(N)
  OBVIOUS
<1>6. /\ HeardWell(w, Heard(w, <<<<"ADDED", n>>>>)) /\ HeardWell(w, Heard(w, <<<<"REMOVED", n>>>>))
      /\ HeardWell(w, Heard(w, <<<<"MODIFIED", n>>>>))
      /\ HeardWell(w, Heard(w, <<<<"REMOVED", m>>>>)) /\ <<<<"REMOVED", m>>>> \in Seq(N)
  BY <1>2, <1>3, <1>5
<1>7. HeardWell(w, Heard(w, <<>> \o <<<<"OLD_NAME", n>>, <<"NEW_NAME", m>>>>))
  BY <1>1, <1>2, <1>4, <1>5
<1>8. HeardWell(w, Heard(w, <<<<"REMOVED", m>>>> \o <<<<"OLD_NAME", n>>, <<"NEW_NAME", m>>>>))
  BY <1>2, <1>4, <1>5, <1>6
<1>9. QED
  BY <1>1, <1>6, <1>7, <1>8

\* Steps that queue nothing and tell no watch of anything.
LEMMA SameKeepsPairs ==
  ASSUME PairInv, UNCHANGED <<arm, q, open_cookie>>, OnlyTheDir' => OnlyTheDir,
         arm = "changes" =>
           /\ Watched' \subseteq Watched
           /\ \A wd \in Watched' : /\ watches'[wd].done = watches[wd].done
                                   /\ watches'[wd].held = watches[wd].held
  PROVE  PairInv'
<1>1. (arm' = "vnode" \/ OnlyTheDir') => \A wd \in Wd : PairsIn(q', wd)
  BY DEF PairInv
<1>2. ASSUME arm' = "changes", OnlyTheDir'
      PROVE  /\ \A a, b \in Watched' : a = b
             /\ \A wd \in Watched' : WellHeard(watches'[wd]) /\ WellDone(wd)'
  <2>1. arm = "changes" /\ OnlyTheDir /\ Watched' \subseteq Watched
    BY <1>2
  <2>2. \A a, b \in Watched : a = b
    BY <2>1 DEF PairInv
  <2>3. ASSUME NEW wd \in Watched' PROVE WellHeard(watches'[wd]) /\ WellDone(wd)'
    <3>1. WellHeard(watches[wd]) /\ WellDone(wd)
      BY <2>1 DEF PairInv
    <3>2. watches'[wd].done = watches[wd].done /\ watches'[wd].held = watches[wd].held
      BY <2>1
    <3>3. QED
      BY <3>1, <3>2 DEF WellHeard, WellDone
  <2>4. QED
    BY <2>1, <2>2, <2>3
<1>3. QED
  BY <1>1, <1>2 DEF PairInv

\* Watches are forgotten, and their owners told.
LEMMA ForgetKeepsPairs ==
  ASSUME TypeInv, PairInv, UNCHANGED <<arm, paths>>, NEW wd, wd \in Watched, watches' = Without({wd}),
         q' \in QSet, Grows(q, q', wd), PairsIn(q, wd) => PairsIn(q', wd)
  PROVE  PairInv'
<1>1. q \in QSet /\ Watched \subseteq Wd
  BY TableFacts
<1>2. OnlyTheDir' <=> OnlyTheDir
  BY DEF OnlyTheDir
<1>3. ASSUME arm' = "vnode" \/ OnlyTheDir', NEW o \in Wd PROVE PairsIn(q', o)
  <2>1. PairsIn(q, o)
    BY <1>2, <1>3 DEF PairInv
  <2>2. QED
    BY <1>1, <2>1, GrowthKeepsPairs
<1>4. ASSUME arm' = "changes", OnlyTheDir' PROVE Watched' = {}
  <2>1. \A a, b \in Watched : a = b
    BY <1>2, <1>4 DEF PairInv
  <2>2. Watched' = Watched \ {wd}
    BY DEF Without, Watched
  <2>3. QED
    BY <2>1, <2>2
<1>5. QED
  BY <1>3, <1>4 DEF PairInv

LEMMA GoneKeepsPairs ==
  ASSUME NEW wd \in Wd, NEW s \in QSet
  PROVE  LET t == EmitAll(s, wd, Gone)
         IN t \in QSet /\ Grows(s, t, wd) /\ (PairsIn(s, wd) => PairsIn(t, wd))
<1>1. Gone \in Pairable(wd)
  BY GonePairs
<1>2. QED
  BY <1>1, GoneGrows DEF Pairable

LEMMA RmKeepsPairs ==
  ASSUME TypeInv, PairInv, NEW wd \in Wd, RmWatch(wd)
  PROVE  PairInv'
<1>1. /\ q' = Emit(q, wd, Self("IGNORED")) /\ watches' = Without({wd}) /\ wd \in Watched /\ UNCHANGED <<arm, paths>>
  BY DEF RmWatch
<1>2. Self("IGNORED") \in Said /\ Self("IGNORED").kind = "IGNORED"
  BY SelfSeqs DEF Self, Rec
<1>3. q' = EmitMasked(q, wd, Self("IGNORED"))
  BY <1>1, <1>2 DEF EmitMasked
<1>4. q' \in QSet /\ Grows(q, q', wd) /\ (PairsIn(q, wd) => PairsIn(q', wd))
  BY <1>2, <1>3, TableFacts, EmitGrows, EmitKeepsPairs
<1>5. QED
  BY <1>1, <1>4, ForgetKeepsPairs

LEMMA UpKeepsPairs ==
  ASSUME TypeInv, PairInv, NEW wd \in Wd, UpCompletion(wd) \/ ReadFails(wd)
  PROVE  PairInv'
<1>1. /\ q' = EmitAll(q, wd, Gone) /\ watches' = Without({wd}) /\ wd \in Watched /\ UNCHANGED <<arm, paths>>
  BY DEF UpCompletion, ReadFails
<1>2. q' \in QSet /\ Grows(q, q', wd) /\ (PairsIn(q, wd) => PairsIn(q', wd))
  BY <1>1, TableFacts, GoneKeepsPairs
<1>3. QED
  BY <1>1, <1>2, ForgetKeepsPairs

LEMMA CheckGoneKeepsPairs ==
  ASSUME TypeInv, PairInv, CheckGone
  PROVE  PairInv'
<1> DEFINE K == {s \in QSet : \A o \in Wd : PairsIn(s, o)}
<1>1. /\ LastFirst \in Seq(Wd) /\ GoneNow \subseteq Watched
      /\ q' = EndsAll(GoneNow, q, LastFirst) /\ watches' = Without(GoneNow)
      /\ UNCHANGED <<arm, paths, open_cookie>>
  BY CheckGoneShape DEF cookies
<1>2. q \in QSet /\ Watched \subseteq Wd /\ (OnlyTheDir' <=> OnlyTheDir)
  BY <1>1, TableFacts DEF OnlyTheDir
<1>3. Watched' = Watched \ GoneNow /\ \A o \in Watched' : watches'[o] = watches[o]
  BY <1>1 DEF Without, Watched
<1>4. ASSUME NEW s \in K, NEW wd \in Wd PROVE EndOf(GoneNow, s, wd) \in K
  <2>1. s \in QSet /\ \A o \in Wd : PairsIn(s, o)
    OBVIOUS
  <2> DEFINE t == EmitAll(s, wd, Gone)
  <2>2. t \in QSet /\ Grows(s, t, wd) /\ PairsIn(t, wd)
    BY <2>1, GoneKeepsPairs
  <2> HIDE DEF t
  <2>3. \A o \in Wd : PairsIn(t, o)
    BY <2>1, <2>2, GrowthKeepsPairs
  <2>4. t \in K
    BY <2>2, <2>3
  <2>5. QED
    BY <2>1, <2>4 DEF EndOf, t
<1>5. ASSUME arm = "vnode" \/ OnlyTheDir PROVE \A o \in Wd : PairsIn(q', o)
  <2>1. q \in K /\ K \subseteq QSet
    BY <1>2, <1>5 DEF PairInv
  <2> HIDE DEF K
  <2>2. q' \in K
    BY <1>1, <1>4, <2>1, EndsKeeps
  <2>3. QED
    BY <2>2 DEF K
<1>6. ASSUME arm = "changes", OnlyTheDir
      PROVE  /\ \A a, b \in Watched' : a = b
             /\ \A wd \in Watched' : WellHeard(watches'[wd]) /\ WellDone(wd)'
  <2>1. \A a, b \in Watched : a = b
    BY <1>6 DEF PairInv
  <2>2. ASSUME NEW wd \in Watched' PROVE WellHeard(watches'[wd]) /\ WellDone(wd)'
    <3>1. GoneNow = {} /\ wd \in Watched
      BY <1>1, <1>3, <2>1
    <3>2. q' = q
      BY <1>1, <1>2, <3>1, NoEnds
    <3>3. WellHeard(watches[wd]) /\ WellDone(wd) /\ watches'[wd] = watches[wd]
      BY <1>3, <1>6, <3>1 DEF PairInv
    <3>4. QED
      BY <1>1, <3>2, <3>3 DEF WellDone
  <2>3. QED
    BY <1>3, <2>1, <2>2
<1>7. QED
  BY <1>1, <1>2, <1>5, <1>6 DEF PairInv

LEMMA RestOf ==
  ASSUME NEW D, NEW s \in Seq(D), NEW n \in 1..Len(s), NEW rest, rest = SubSeq(s, n + 1, Len(s))
  PROVE  /\ Len(rest) \in Nat /\ Len(s) = n + Len(rest)
         /\ \A i \in 1..Len(rest) : rest[i] = s[n + i]
<1>1. Len(s) \in Nat /\ n \in Nat /\ n <= Len(s)
  OBVIOUS
<1>2. Len(rest) = Len(s) - n
  BY <1>1
<1>3. ASSUME NEW i \in 1..(Len(s) - n) PROVE rest[i] = s[n + i]
  <2>1. SubSeq(s, n + 1, Len(s))[i] = s[((n + 1) + i) - 1]
    BY <1>1
  <2>2. ((n + 1) + i) - 1 = n + i
    BY <1>1
  <2>3. QED
    BY <2>1, <2>2
<1>4. Len(s) - n \in Nat /\ Len(s) = n + (Len(s) - n)
  BY <1>1
<1> DEFINE m == Len(s) - n
<1> HIDE DEF m
<1>5. Len(rest) = m
  BY <1>2 DEF m
<1>6. \A i \in 1..m : rest[i] = s[n + i]
  BY <1>3 DEF m
<1>7. m \in Nat /\ Len(s) = n + m
  BY <1>4 DEF m
<1>8. QED
  BY ONLY <1>5, <1>6, <1>7

\* A second half that is left after a read still follows its first.
LEMMA ReadKeepsPairs ==
  ASSUME TypeInv, PairInv, NEW len \in Buffers, ReadRecords(len)
  PROVE  PairInv'
<1>1. PICK n \in 1..Len(q.queue), got \in Seq(Entry), rest \in Seq(Entry) :
           /\ rest = SubSeq(q.queue, n + 1, Len(q.queue))
           /\ q' = [q EXCEPT !.queue = rest, !.qlen = q.qlen - Used(got)]
  BY ReadShape
<1>2. UNCHANGED <<arm, watches, paths, open_cookie>>
  BY DEF ReadRecords, cookies
<1>3. q \in QSet /\ q.queue \in Seq(Entry) /\ Len(q.queue) \in Nat
  BY TableFacts
<1>4. q'.queue = rest /\ q'.lost = q.lost
  BY <1>1, <1>3 DEF QSet
<1> DEFINE m == Len(rest)
           l == Len(q.queue)
<1>5. m \in Nat /\ l = n + m /\ \A i \in 1..m : rest[i] = q.queue[n + i]
  <2>1. rest = SubSeq(q.queue, n + 1, Len(q.queue)) /\ n \in 1..Len(q.queue)
    BY <1>1
  <2>2. /\ Len(rest) \in Nat /\ Len(q.queue) = n + Len(rest)
        /\ \A i \in 1..Len(rest) : rest[i] = q.queue[n + i]
    <3>1. \A s \in Seq(Entry) : \A k \in 1..Len(s) : \A r :
            r = SubSeq(s, k + 1, Len(s)) =>
              /\ Len(r) \in Nat /\ Len(s) = k + Len(r)
              /\ \A i \in 1..Len(r) : r[i] = s[k + i]
      BY ONLY RestOf, ZenonT(40)
    <3>2. q.queue \in Seq(Entry)
      BY ONLY <1>3
    <3>3. \A k \in 1..Len(q.queue) : \A r :
            r = SubSeq(q.queue, k + 1, Len(q.queue)) =>
              /\ Len(r) \in Nat /\ Len(q.queue) = k + Len(r)
              /\ \A i \in 1..Len(r) : r[i] = q.queue[k + i]
      BY ONLY <3>1, <3>2, ZenonT(40)
    <3>4. n \in 1..Len(q.queue) /\ rest = SubSeq(q.queue, n + 1, Len(q.queue))
      BY ONLY <2>1
    <3>5. QED
      BY ONLY <3>3, <3>4, ZenonT(40)
  <2>3. QED
    BY <2>2
<1>6. rest # <<>> => m >= 1
  OBVIOUS
<1> HIDE DEF m, l
<1>7. l \in Nat /\ n \in Nat
  BY <1>3 DEF l
<1>8. ASSUME NEW o \in Wd, PairsIn(q, o) PROVE PairsIn(q', o)
  <2> SUFFICES ASSUME o \notin q.lost, NEW i \in 2..m, rest[i].wd = o, rest[i].kind = "MOVED_TO"
               PROVE  Half(rest[i - 1], o, rest[i].cookie)
    BY <1>4 DEF PairsIn, PairsOf, m
  <2>1. i \in 1..m /\ i - 1 \in 1..m /\ n + i \in 2..l /\ n + (i - 1) = (n + i) - 1
    BY <1>5, <1>7
  <2>2. rest[i] = q.queue[n + i] /\ rest[i - 1] = q.queue[(n + i) - 1]
    BY <1>5, <2>1
  <2>3. PairsOf(q.queue, o)
    BY <1>8 DEF PairsIn
  <2>4. QED
    BY <2>1, <2>2, <2>3 DEF PairsOf, l
<1>9. ASSUME NEW o, NEW c, Waits(q, o, c) PROVE Waits(q', o, c)
  <2> SUFFICES ASSUME o \notin q.lost, rest # <<>> PROVE Half(rest[m], o, c)
    BY <1>4 DEF Waits, m
  <2>1. m \in 1..m /\ l >= 1
    BY <1>5, <1>6, <1>7
  <2>2. rest[m] = q.queue[l]
    BY <1>5, <2>1
  <2>3. q.queue # <<>>
    BY <2>1 DEF l
  <2>4. QED
    BY <1>9, <2>2, <2>3 DEF Waits, l
<1>10. OnlyTheDir' <=> OnlyTheDir
  BY <1>2 DEF OnlyTheDir
<1>11. ASSUME NEW wd, WellDone(wd) PROVE WellDone(wd)'
  BY <1>2, <1>9, <1>11 DEF WellDone
<1>12. QED
  BY <1>2, <1>8, <1>10, <1>11, SMTT(30) DEF PairInv, Watched

LEMMA TranslateKeepsPairs ==
  ASSUME TypeInv, PairInv, NEW wd \in Wd, NEW written, Translate(wd, written)
  PROVE  PairInv'
<1>1. /\ arm = "vnode" /\ q' = EmitAll(q, wd, AllOf(wd, written)) /\ AllOf(wd, written) \in Seq(Said)
      /\ AllOf(wd, written) \in Pairable(wd)
  BY TranslateShape, AllOfPairs
<1>2. arm' = "vnode" /\ q \in QSet
  BY <1>1, TableFacts DEF Translate
<1>3. q' \in QSet /\ Grows(q, q', wd)
  BY <1>1, <1>2, AllGrow
<1>4. \A o \in Wd : PairsIn(q, o)
  BY <1>1 DEF PairInv
<1>5. PairsIn(q', wd)
  BY <1>1, <1>2, <1>4 DEF Pairable
<1>6. \A o \in Wd : PairsIn(q', o)
  BY <1>2, <1>3, <1>4, <1>5, GrowthKeepsPairs
<1>7. QED
  BY <1>2, <1>6 DEF PairInv

\* What was held, where it was not dropped, comes after what was completed.
LEMMA RearmedWell ==
  ASSUME NEW w \in CWatch, w.done # None, WellHeard(w)
  PROVE  /\ WellHeard(Rearmed(w))
         /\ (Rearmed(w).done # None /\ NewFirst(Rearmed(w).done)) => w.done # <<>> /\ OldLast(w.done)
<1> DEFINE done == CASE w.dead \/ w.held = <<>> -> None
                     [] w.held = None -> <<>>
                     [] OTHER -> w.held
           v == Rearmed(w)
<1>1. v.held = <<>> /\ v.done = done
  BY DEF Rearmed, CWatch
<1>2. done = None \/ done = <<>> \/ (done = w.held /\ w.held # None)
  OBVIOUS
<1>3. Len(<<>>) = 0 /\ ~NewFirst(<<>>)
  BY DEF NewFirst
<1>4. Paired(<<>>)
  BY <1>3 DEF Paired
<1> HIDE DEF done, v
<1>5. v.done # None => Paired(v.done)
  BY <1>1, <1>2, <1>4 DEF WellHeard
<1>6. (v.done # None /\ NewFirst(v.done)) => w.done # <<>> /\ OldLast(w.done)
  BY <1>1, <1>2, <1>3 DEF WellHeard, OldLast
<1>7. WellHeard(v)
  BY <1>1, <1>3, <1>4, <1>5 DEF WellHeard
<1>8. QED
  BY <1>6, <1>7 DEF v

LEMMA CompletionKeepsPairs ==
  ASSUME TypeInv, TypeInv', PairInv, NEW wd \in Wd, NEW resolves, Completion(wd, resolves)
  PROVE  PairInv'
<1>1. /\ arm = "changes" /\ wd \in Watched /\ watches[wd] \in CWatch
      /\ watches[wd].done \in Seq(Notifications) /\ Stream \in Emissions
      /\ Ended(wd) \/ Told(wd)
      /\ UNCHANGED <<arm, paths>>
  BY CompletionShape
<1>2. q \in QSet
  BY TableFacts
<1>3. CASE Ended(wd)
  <2>1. q' = EmitAll(q, wd, Gone) /\ watches' = Without({wd})
    BY <1>3 DEF Ended
  <2>2. q' \in QSet /\ Grows(q, q', wd) /\ (PairsIn(q, wd) => PairsIn(q', wd))
    BY <1>2, <2>1, GoneKeepsPairs
  <2>3. QED
    BY <1>1, <2>1, <2>2, ForgetKeepsPairs
<1>4. CASE Told(wd)
  <2> DEFINE s == TranslatedAll(wd, Stream, watches[wd].done)
             w == watches[wd]
  <2>1. /\ q'.queue = s.q.queue /\ Grows(q, q', wd)
        /\ q'.lost = IF watches[wd].done = <<>> THEN s.q.lost \cup {wd} ELSE s.q.lost
    BY <1>1, <1>4, ToldGrows
  <2>2. /\ Watched' = Watched /\ watches'[wd] = Rearmed(w) /\ (\A o \in Watched : o # wd => watches'[o] = watches[o])
        /\ open_cookie' = s.open_cookie
    BY <1>1, <1>4 DEF Told, Watched
  <2>3. w.done # None /\ q' \in QSet
    BY <1>1, WatchAssumption DEF TypeInv, StreamTypes, QGood
  <2>4. OnlyTheDir' <=> OnlyTheDir
    BY <1>1 DEF OnlyTheDir
  <2>5. SUFFICES ASSUME OnlyTheDir
                 PROVE  /\ \A o \in Wd : PairsIn(q', o)
                        /\ \A a, b \in Watched : a = b
                        /\ WellHeard(watches'[wd]) /\ WellDone(wd)'
    <3>1. ASSUME OnlyTheDir, NEW o \in Watched', \A a, b \in Watched : a = b,
                 WellHeard(watches'[wd]) /\ WellDone(wd)'
          PROVE  WellHeard(watches'[o]) /\ WellDone(o)'
      <4>1. o = wd
        BY <1>1, <2>2, <3>1
      <4>2. QED
        BY <3>1, <4>1
    <3>2. QED
      BY <1>1, <2>2, <2>4, <2>5, <3>1 DEF PairInv
  <2>6. /\ \A o \in Wd : PairsIn(q, o)
        /\ \A a, b \in Watched : a = b
        /\ WellHeard(w) /\ WellDone(wd)
    BY <1>1, <2>5 DEF PairInv
  <2>7. IsDir(w)
    <3>1. wd \in 1..Len(paths) /\ w.path = paths[wd]
      BY <1>1, TableFacts DEF TypeInv, TableTypes
    <3>2. QED
      BY <2>5, <3>1 DEF OnlyTheDir, IsDir
  <2>8. PairsIn(s.q, wd) /\ (OldLast(w.done) => Waits(s.q, wd, s.open_cookie))
    <3>1. Stream.q = q /\ Stream.open_cookie = open_cookie
      BY DEF Stream
    <3>2. PairsIn(Stream.q, wd) /\ (NewFirst(w.done) => Waits(Stream.q, wd, Stream.open_cookie))
      BY <2>3, <2>6, <3>1 DEF WellDone
    <3>3. Paired(w.done)
      BY <2>3, <2>6 DEF WellHeard
    <3>4. QED
      BY <1>1, <2>7, <3>2, <3>3, TranslatedPairs
  <2>9. \A o \in Wd : PairsIn(q', o)
    <3>1. PairsIn(q', wd)
      BY <2>1, <2>8 DEF PairsIn
    <3>2. QED
      BY <1>2, <2>1, <2>3, <2>6, <3>1, GrowthKeepsPairs
  <2>10. /\ WellHeard(Rearmed(w))
         /\ (Rearmed(w).done # None /\ NewFirst(Rearmed(w).done)) => w.done # <<>> /\ OldLast(w.done)
    BY <1>1, <2>3, <2>6, RearmedWell
  <2> HIDE DEF s
  <2>11. WellDone(wd)'
    <3>1. w.done # <<>> /\ OldLast(w.done) => Waits(q', wd, open_cookie')
      BY <2>1, <2>2, <2>8 DEF Waits
    <3>2. QED
      BY <2>2, <2>10, <3>1 DEF WellDone
  <2>12. QED
    BY <2>2, <2>6, <2>9, <2>10, <2>11
<1>5. QED
  BY <1>1, <1>3, <1>4

\* A path more, and what is known of the others stays so.
LEMMA LessOfTheDir ==
  ASSUME TypeInv, NEW path, paths' = Append(paths, path), OnlyTheDir'
  PROVE  OnlyTheDir /\ path = "dir"
<1> DEFINE m == Len(paths)
<1>1. m \in Nat /\ Len(paths') = m + 1 /\ paths'[m + 1] = path /\ \A i \in 1..m : paths'[i] = paths[i]
  BY DEF TypeInv, TableTypes
<1> HIDE DEF m
<1>2. ASSUME NEW i \in 1..m PROVE paths[i] = "dir"
  BY <1>1 DEF OnlyTheDir
<1>3. QED
  BY <1>1, <1>2 DEF OnlyTheDir, m

LEMMA RegisterKeepsPairs ==
  ASSUME TypeInv, PairInv, Register
  PROVE  PairInv'
<1>1. PICK w \in WatchType : paths' = Append(paths, w.path) /\ arm = "vnode"
  BY RegisterShape
<1>2. UNCHANGED <<arm, q, open_cookie>>
  BY DEF Register, cookies
<1>3. OnlyTheDir' => OnlyTheDir
  BY <1>1, LessOfTheDir
<1>4. QED
  BY <1>1, <1>2, <1>3, SameKeepsPairs

\* A second watch of the directory is none: add_watch finds the first.
LEMMA AddWatchKeepsPairs ==
  ASSUME TypeInv, PairInv, NEW path \in Path, NEW mask \in Masks, AddWatch(path, mask)
  PROVE  PairInv'
<1> DEFINE w == [path |-> path, mask |-> mask, of |-> "dir", done |-> None,
                 held |-> <<>>, up |-> FALSE, dead |-> FALSE]
<1>1. /\ watches' = With(w) /\ paths' = Append(paths, path) /\ arm = "changes"
      /\ UNCHANGED <<arm, q>> /\ \A wd \in Watched : watches[wd].path # path
  BY DEF AddWatch, CanAdd
<1>2. w.done = None /\ w.held = <<>>
  OBVIOUS
<1> HIDE DEF w
<1>3. SUFFICES ASSUME OnlyTheDir'
               PROVE  /\ \A o \in Wd : PairsIn(q', o)
                      /\ \A a, b \in Watched' : a = b
                      /\ \A wd \in Watched' : WellHeard(watches'[wd]) /\ WellDone(wd)'
  BY <1>1 DEF PairInv
<1>4. OnlyTheDir /\ path = "dir"
  BY <1>1, <1>3, LessOfTheDir
<1>5. Watched = {}
  <2>1. \A wd \in Watched : wd \in 1..Len(paths) /\ watches[wd].path = paths[wd]
    BY TableFacts DEF TypeInv, TableTypes
  <2>2. QED
    BY <1>1, <1>4, <2>1 DEF OnlyTheDir
<1>6. Watched' = {Len(paths) + 1} /\ watches'[Len(paths) + 1] = w
  BY <1>1, <1>5 DEF With, Watched
<1>7. WellHeard(w) /\ \A wd \in Watched' : watches'[wd] = w
  <2>1. ~NewFirst(<<>>) /\ Len(<<>>) = 0
    BY DEF NewFirst
  <2>2. Paired(<<>>)
    BY <2>1 DEF Paired
  <2>3. QED
    BY <1>2, <1>6, <2>1, <2>2 DEF WellHeard
<1>8. \A o \in Wd : PairsIn(q', o)
  BY <1>1, <1>4 DEF PairInv
<1>9. \A wd \in Watched' : WellHeard(watches'[wd]) /\ WellDone(wd)'
  BY <1>2, <1>7 DEF WellDone
<1>10. QED
  BY <1>6, <1>8, <1>9

LEMMA OthersKeepPairs ==
  ASSUME TypeInv, PairInv,
         \/ \E wd \in Wd, mask \in Masks : NewMask(wd, mask)
         \/ \E path \in Path, mask \in Masks : AddLook(path, mask)
         \/ LookAt \/ Take \/ Drain \/ PortEmpty \/ Close \/ Init1
         \/ \E wd \in Wd : StartLook(wd) \/ UpMisses(wd) \/ UpFails(wd)
         \/ UNCHANGED vars
  PROVE  PairInv'
<1>1. ASSUME UNCHANGED <<arm, q, open_cookie, paths>>, UNCHANGED watches \/ arm = "vnode" PROVE PairInv'
  <2>1. OnlyTheDir' => OnlyTheDir
    BY <1>1 DEF OnlyTheDir
  <2>2. QED
    BY <1>1, <2>1, SameKeepsPairs DEF Watched
<1>2. ASSUME NEW wd \in Wd, NEW mask \in Masks, NewMask(wd, mask) PROVE PairInv'
  <2>1. /\ wd \in Watched /\ watches' = [watches EXCEPT ![wd].mask = mask]
        /\ UNCHANGED <<arm, q, paths, open_cookie>>
    BY <1>2 DEF NewMask, cookies
  <2>2. Watched' = Watched
    BY <2>1 DEF Watched
  <2>3. ASSUME arm = "changes", NEW o \in Watched'
        PROVE  watches'[o].done = watches[o].done /\ watches'[o].held = watches[o].held
    <3>1. watches[o] \in CWatch
      BY <2>2, <2>3 DEF TypeInv, TableTypes, WatchType
    <3>2. watches'[o] = IF o = wd THEN [watches[o] EXCEPT !.mask = mask] ELSE watches[o]
      BY <2>1, <2>2 DEF Watched
    <3>3. QED
      BY <3>1, <3>2 DEF CWatch
  <2>4. OnlyTheDir' => OnlyTheDir
    BY <2>1 DEF OnlyTheDir
  <2>5. QED
    BY <2>1, <2>2, <2>3, <2>4, SameKeepsPairs
<1>3. ASSUME Watched' = {}, q'.queue = <<>> PROVE PairInv'
  <2>1. Len(q'.queue) = 0
    BY <1>3
  <2>2. \A o \in Wd : PairsIn(q', o)
    BY <2>1 DEF PairsIn, PairsOf
  <2>3. QED
    BY <1>3, <2>2 DEF PairInv
<1>4. CASE Close
  <2>1. watches' = <<>> /\ q'.queue = <<>>
    BY <1>4 DEF Close, Empty
  <2>2. DOMAIN watches' = {}
    BY <2>1
  <2>3. QED
    BY <1>3, <2>1, <2>2 DEF Watched
<1>5. CASE Init1
  BY <1>1, <1>5 DEF Init1, cookies
<1>6. CASE Take
  BY <1>1, <1>6 DEF Take, cookies
<1>7. ASSUME NEW path \in Path, NEW mask \in Masks, AddLook(path, mask) PROVE PairInv'
  BY <1>1, <1>7 DEF AddLook, cookies
<1>8. ASSUME NEW wd \in Wd, StartLook(wd) PROVE PairInv'
  BY <1>1, <1>8 DEF StartLook, cookies
<1>9. CASE LookAt
  BY <1>1, <1>9 DEF LookAt, cookies
<1>10. CASE Drain
  BY <1>1, <1>10 DEF Drain, cookies
<1>11. CASE UNCHANGED vars
  BY <1>1, <1>11 DEF vars, cookies
<1>12. CASE PortEmpty
  BY <1>1, <1>12 DEF PortEmpty, cookies
<1>13. ASSUME NEW wd \in Wd, UpMisses(wd) PROVE PairInv'
  <2>1. /\ watches' = [watches EXCEPT ![wd].up = FALSE] /\ arm = "changes"
        /\ UNCHANGED <<arm, q, paths, open_cookie>>
    BY <1>13 DEF UpMisses, cookies, TypeInv, PhaseTypes
  <2>2. Watched' = Watched
    BY <2>1 DEF Watched
  <2>3. ASSUME NEW o \in Watched'
        PROVE  watches'[o].done = watches[o].done /\ watches'[o].held = watches[o].held
    <3>1. watches[o] \in CWatch
      BY <2>1, <2>2, <2>3 DEF TypeInv, TableTypes, WatchType
    <3>2. watches'[o] = IF o = wd THEN [watches[o] EXCEPT !.up = FALSE] ELSE watches[o]
      BY <2>1, <2>2 DEF Watched
    <3>3. QED
      BY <3>1, <3>2 DEF CWatch
  <2>4. OnlyTheDir' => OnlyTheDir
    BY <2>1 DEF OnlyTheDir
  <2>5. QED
    BY <2>1, <2>2, <2>3, <2>4, SameKeepsPairs
<1>14. ASSUME NEW wd \in Wd, UpFails(wd) PROVE PairInv'
  <2>1. watches' = Without({wd}) /\ UNCHANGED <<arm, q, paths, open_cookie>>
    BY <1>14 DEF UpFails, cookies
  <2>2. Watched' \subseteq Watched /\ \A o \in Watched' : watches'[o] = watches[o]
    BY <2>1 DEF Without, Watched
  <2>3. OnlyTheDir' => OnlyTheDir
    BY <2>1 DEF OnlyTheDir
  <2>4. QED
    BY <2>1, <2>2, <2>3, SameKeepsPairs
<1>15. QED
  BY <1>2, <1>4, <1>5, <1>6, <1>7, <1>8, <1>9, <1>10, <1>11, <1>12, <1>13, <1>14

\* Whatever happens is heard with the halves of a rename next to each other.
LEMMA HappensKeepsPairs ==
  ASSUME TypeInv, PairInv, ListingInv, NEW notes, NEW said, Happens(notes, said), open_cookie' = open_cookie,
         \A w \in CWatch : InOrder(w) /\ WellHeard(w) => HeardWell(w, Heard(w, said))
  PROVE  PairInv'
<1>1. UNCHANGED <<arm, q, paths>> /\ Watched' = Watched
      /\ \A wd \in Watched : watches'[wd] = IF watches[wd].dead THEN watches[wd]
                                            ELSE IF arm = "vnode" THEN Noted(watches[wd], notes)
                                            ELSE Heard(watches[wd], said)
  BY DEF Happens, Watched
<1>2. OnlyTheDir' <=> OnlyTheDir
  BY <1>1 DEF OnlyTheDir
<1>3. ASSUME arm = "changes", OnlyTheDir, NEW wd \in Watched
      PROVE  WellHeard(watches'[wd]) /\ WellDone(wd)'
  <2> DEFINE w == watches[wd]
             v == watches'[wd]
  <2>1. WellHeard(w) /\ WellDone(wd) /\ InOrder(w)
    BY <1>3 DEF PairInv, ListingInv, Retellable, InOrder
  <2>2. w \in CWatch
    BY <1>3 DEF TypeInv, TableTypes, WatchType
  <2>3. CASE w.dead
    <3>1. v = w
      BY <1>1, <2>3
    <3>2. QED
      BY <1>1, <2>1, <3>1 DEF WellDone
  <2>4. CASE ~w.dead
    <3>1. v = Heard(w, said)
      BY <1>1, <1>3, <2>4
    <3>2. HeardWell(w, v)
      BY <2>1, <2>2, <3>1
    <3>3. (v.done # None /\ NewFirst(v.done)) => Waits(q, wd, open_cookie)
      BY <2>1, <3>2 DEF HeardWell, WellDone
    <3>4. QED
      BY <1>1, <3>2, <3>3 DEF HeardWell, WellDone
  <2>5. QED
    BY <2>3, <2>4
<1>4. QED
  BY <1>1, <1>2, <1>3 DEF PairInv

LEMMA WorldKeepsPairs ==
  ASSUME TypeInv, PairInv, ListingInv, World
  PROVE  PairInv'
<1>1. ASSUME NEW notes, NEW n \in Name, NEW what \in {"ADDED", "REMOVED", "MODIFIED"},
             Happens(notes, <<<<what, n>>>>)
      PROVE  PairInv'
  <2>1. \A w \in CWatch : InOrder(w) /\ WellHeard(w) => HeardWell(w, Heard(w, <<<<what, n>>>>))
    BY SaidWell
  <2>2. open_cookie' = open_cookie
    BY <1>1 DEF Happens, cookies
  <2>3. QED
    BY <1>1, <2>1, <2>2, HappensKeepsPairs
<1>2. ASSUME NEW n \in Name, NEW m \in Name, NEW notes,
             Happens(notes, (IF dir[m] = None THEN <<>> ELSE <<<<"REMOVED", m>>>>)
                       \o <<<<"OLD_NAME", n>>, <<"NEW_NAME", m>>>>)
      PROVE  PairInv'
  <2> DEFINE said == (IF dir[m] = None THEN <<>> ELSE <<<<"REMOVED", m>>>>)
                       \o <<<<"OLD_NAME", n>>, <<"NEW_NAME", m>>>>
  <2>1. \A w \in CWatch : InOrder(w) /\ WellHeard(w) => HeardWell(w, Heard(w, said))
    <3> SUFFICES ASSUME NEW w \in CWatch, InOrder(w), WellHeard(w) PROVE HeardWell(w, Heard(w, said))
      OBVIOUS
    <3>1. CASE dir[m] = None
      <4>1. said = <<>> \o <<<<"OLD_NAME", n>>, <<"NEW_NAME", m>>>>
        BY <3>1
      <4>2. HeardWell(w, Heard(w, <<>> \o <<<<"OLD_NAME", n>>, <<"NEW_NAME", m>>>>))
        BY SaidWell
      <4> HIDE DEF said
      <4>3. QED
        BY <4>1, <4>2, Zenon
    <3>2. CASE dir[m] # None
      <4>1. said = <<<<"REMOVED", m>>>> \o <<<<"OLD_NAME", n>>, <<"NEW_NAME", m>>>>
        BY <3>2
      <4>2. HeardWell(w, Heard(w, <<<<"REMOVED", m>>>> \o <<<<"OLD_NAME", n>>, <<"NEW_NAME", m>>>>))
        BY SaidWell
      <4> HIDE DEF said
      <4>3. QED
        BY <4>1, <4>2, Zenon
    <3>3. QED
      BY <3>1, <3>2
  <2>2. Happens(notes, said) /\ open_cookie' = open_cookie
    BY <1>2 DEF Happens, cookies
  <2> HIDE DEF said
  <2>3. QED
    BY <2>1, <2>2, HappensKeepsPairs
<1>3. ASSUME Happens({<<"dir", "delete">>}, <<>>) PROVE PairInv'
  <2>1. \A w \in CWatch : InOrder(w) /\ WellHeard(w) => HeardWell(w, Heard(w, <<>>))
    <3> SUFFICES ASSUME NEW w \in CWatch, InOrder(w), WellHeard(w) PROVE HeardWell(w, Heard(w, <<>>))
      OBVIOUS
    <3>1. PICK n : n \in Name
      BY WatchAssumption DEF Name, Range
    <3>2. QED
      BY <3>1, SaidWell
  <2>2. open_cookie' = open_cookie
    BY <1>3 DEF Happens, cookies
  <2>3. QED
    BY <1>3, <2>1, <2>2, HappensKeepsPairs
<1>4. ASSUME NEW up \in BOOLEAN, arm = "changes", UNCHANGED <<arm, paths, q, cookies>>,
             watches' = [wd \in Watched |-> IF watches[wd].dead THEN watches[wd] ELSE Removed(watches[wd], up)]
      PROVE  PairInv'
  <2>1. Watched' = Watched
    BY <1>4 DEF Watched
  <2>2. ASSUME NEW wd \in Watched'
        PROVE  watches'[wd].done = watches[wd].done /\ watches'[wd].held = watches[wd].held
    <3>1. watches[wd] \in CWatch /\ wd \in Watched
      BY <1>4, <2>1 DEF TypeInv, TableTypes, WatchType
    <3>2. Removed(watches[wd], up).done = watches[wd].done /\ Removed(watches[wd], up).held = watches[wd].held
      BY <3>1 DEF Removed, CWatch
    <3>3. watches'[wd] = IF watches[wd].dead THEN watches[wd] ELSE Removed(watches[wd], up)
      BY <1>4, <3>1
    <3>4. QED
      BY <3>2, <3>3
  <2>3. OnlyTheDir' => OnlyTheDir
    BY <1>4 DEF OnlyTheDir
  <2>4. QED
    BY <1>4, <2>1, <2>2, <2>3, SameKeepsPairs DEF cookies
<1>5. ASSUME UNCHANGED <<arm, watches, paths, q, cookies>> PROVE PairInv'
  <2>1. OnlyTheDir' => OnlyTheDir
    BY <1>5 DEF OnlyTheDir
  <2>2. QED
    BY <1>5, <2>1, SameKeepsPairs DEF cookies, Watched
<1>6. \/ \E n \in Name : Happens({<<"dir", "write">>}, <<<<"ADDED", n>>>>)
      \/ \E n \in Name : Happens({<<"dir", "write">>, <<dir[n], "delete">>}, <<<<"REMOVED", n>>>>)
      \/ \E n \in Name : Happens({<<dir[n], "write">>}, <<<<"MODIFIED", n>>>>)
      \/ \E n, m \in Name :
           Happens({<<"dir", "write">>, <<dir[n], "rename">>, <<dir[m], "delete">>},
                      (IF dir[m] = None THEN <<>> ELSE <<<<"REMOVED", m>>>>)
                        \o <<<<"OLD_NAME", n>>, <<"NEW_NAME", m>>>>)
      \/ Happens({<<"dir", "delete">>}, <<>>)
      \/ \E up \in BOOLEAN :
           /\ arm = "changes" /\ UNCHANGED <<arm, paths, q, cookies>>
           /\ watches' = [wd \in Watched |-> IF watches[wd].dead THEN watches[wd] ELSE Removed(watches[wd], up)]
      \/ UNCHANGED <<arm, watches, paths, q, cookies>>
  BY WorldCases, Zenon
<1>7. QED
  BY <1>1, <1>2, <1>3, <1>4, <1>5, <1>6

LEMMA InitPairs == Init => PairInv
<1> SUFFICES ASSUME Init PROVE PairInv
  OBVIOUS
<1>1. Watched = {} /\ q.queue = <<>>
  BY DEF Init, Watched, Empty
<1>2. Len(q.queue) = 0
  BY <1>1
<1>3. QED
  BY <1>1, <1>2 DEF PairInv, PairsIn, PairsOf

LEMMA NextKeepsPairs ==
  ASSUME TypeInv, ListingInv, PairInv, TypeInv', [Next]_vars
  PROVE  PairInv'
<1>1. CASE World
  BY <1>1, WorldKeepsPairs
<1>2. CASE Asks
  BY <1>2, RmKeepsPairs, AddWatchKeepsPairs, OthersKeepPairs DEF Asks
<1>3. CASE Reads
  BY <1>3, ReadKeepsPairs, RegisterKeepsPairs, TranslateKeepsPairs, UpKeepsPairs,
     CompletionKeepsPairs, CheckGoneKeepsPairs, OthersKeepPairs DEF Reads
<1>4. CASE UNCHANGED vars
  BY <1>4, OthersKeepPairs
<1>5. QED
  BY <1>1, <1>2, <1>3, <1>4 DEF Next

(***************************************************************************)
(* In every state the second half of a rename that is queued follows its   *)
(* first, and one that is still in the kernel's hands will: what waits     *)
(* there begins with a second half only if the first is the last record    *)
(* queued, with the cookie that is open (translate, arm_read).             *)
(***************************************************************************)
THEOREM PairsHold == Spec => []PairInv
<1>1. TypeInv /\ ListingInv /\ PairInv /\ TypeInv' /\ [Next]_vars => PairInv'
  BY NextKeepsPairs
<1>2. QED
  BY <1>1, InitPairs, TypesHold, ReplaysHold, PTL DEF Spec

(***************************************************************************)
(* The two halves of a rename are told one after the other with one cookie *)
(* (directory_changed, translate), whatever was renamed meanwhile and      *)
(* however the kernel cuts what it has to say into completions; on Windows *)
(* as long as no file is watched beside the directory.                     *)
(***************************************************************************)
THEOREM HalvesTogether == Spec => []CookiesPair
<1>1. ASSUME TypeInv, PairInv PROVE CookiesPair
  <2> SUFFICES ASSUME arm = "vnode" \/ Range(paths) \subseteq {"dir"}, NEW i \in 2..Len(q.queue),
                      q.queue[i].kind = "MOVED_TO", q.queue[i].wd \notin q.lost
               PROVE  /\ q.queue[i - 1].wd = q.queue[i].wd /\ q.queue[i - 1].kind = "MOVED_FROM"
                      /\ q.queue[i - 1].cookie = q.queue[i].cookie
    BY DEF CookiesPair
  <2>1. q.queue[i] \in Entry
    <3>1. q.queue \in Seq(Entry) /\ Len(q.queue) \in Nat
      BY <1>1, TableFacts
    <3>2. i \in 1..Len(q.queue)
      BY <3>1
    <3>3. QED
      BY <3>1, <3>2
  <2>2. q.queue[i].wd \in Wd
    BY <2>1 DEF Entry
  <2>3. OnlyTheDir \/ arm = "vnode"
    <3>1. paths \in Seq(Path)
      BY <1>1 DEF TypeInv, TableTypes
    <3>2. \A j \in 1..Len(paths) : paths[j] \in Range(paths)
      BY <3>1 DEF Range
    <3>3. QED
      BY <3>2 DEF OnlyTheDir
  <2>4. PairsOf(q.queue, q.queue[i].wd)
    BY <1>1, <2>2, <2>3 DEF PairInv, PairsIn
  <2>5. QED
    BY <2>4 DEF PairsOf, Half
<1>2. QED
  BY <1>1, TypesHold, PairsHold, PTL
=============================================================================
