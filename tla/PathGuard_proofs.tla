-------------------------- MODULE PathGuard_proofs --------------------------
(***************************************************************************)
(* The guard works out where data written under a path would be, in every  *)
(* file tree, through chains of links and names that don't exist yet, and  *)
(* that is where the directory is once it has been made.                   *)
(*                                                                         *)
(* Induction over the recursions of kernel and guard is beyond the provers *)
(* here.  In its place stand the least set of resolutions that a step does *)
(* not leave, which answers for what a resolution comes to, and the least  *)
(* number in a set, where an induction would start.                        *)
(***************************************************************************)
EXTENDS PathGuard, SequenceTheorems, WellFoundedInduction, TLAPS

-----------------------------------------------------------------------------
(* What a resolution comes to                                              *)

\* A set of numbers has a least one.
LEMMA Least ==
    ASSUME NEW T \in SUBSET Nat, T # {}
    PROVE  \E n \in T : \A m \in T : n <= m
<1> DEFINE R == OpToRel(<, Nat)
<1>1. IsWellFoundedOn(R, Nat)
  BY NatLessThanWellFounded
<1>2. \A m, n \in Nat : m < n => <<m, n>> \in R
  BY DEF OpToRel
<1> HIDE DEF R
<1>3. PICK n \in T : \A m \in T : ~(<<m, n>> \in R)
  BY <1>1, WFMin
<1>4. ASSUME NEW m \in T PROVE n <= m
  <2>1. ~(m < n)
    BY <1>2, <1>3
  <2> QED
    BY <2>1
<1> QED
  BY <1>4

\* A resolution that has ended, or cannot go on.
Stuck(fs, absent, w) == w.path = <<>> \/ Obstacle(fs, w, absent) # "none"

\* A set of resolutions that a step doesn't leave.
Closed(fs, absent, U) == \A u \in U : Stuck(fs, absent, u) \/ Advance(fs, u) \in U

\* The resolutions that w comes to: what every closed set that has w in it has.
Leads(fs, absent, w) ==
    {v \in Walks : \A U \in SUBSET Walks : w \in U /\ Closed(fs, absent, U) => v \in U}

\* A step of the kernel is the start of another resolution.
LEMMA AdvanceTyped ==
    ASSUME NEW fs, IsTree(fs), NEW absent, NEW w \in Walks, w.path # <<>>, Obstacle(fs, w, absent) = "none"
    PROVE  Advance(fs, w) \in Walks
<1>1. w.at \in Names /\ w.path \in Names /\ w.links \in 0 .. MaxLinks /\ w = [at |-> w.at, path |-> w.path, links |-> w.links]
  BY DEF Walks
<1>2. Tail(w.path) \in Names /\ Head(w.path) \in Component
  BY <1>1 DEF Names
<1>3. Entry(w) \in Names
  BY <1>1, <1>2 DEF Entry, Names
<1>4. Parent(w.at) \in Names
  <2>1. CASE w.at = <<>>
    BY <1>1, <2>1 DEF Parent
  <2>2. CASE w.at # <<>>
    <3>1. Len(w.at) > 0 /\ w.at \in Seq(Component)
      BY <1>1, <2>2 DEF Names
    <3>2. SubSeq(w.at, 1, Len(w.at) - 1) \in Seq(Component)
      BY <3>1
    <3> QED
      BY <2>2, <3>2 DEF Parent, Front, Names
  <2> QED
    BY <2>1, <2>2
<1>5. CASE Head(w.path) = ".."
  BY <1>1, <1>2, <1>4, <1>5 DEF Advance, Walks, Walking
<1>6. CASE Head(w.path) # ".." /\ ~IsLink(fs, Entry(w))
  BY <1>1, <1>2, <1>3, <1>6 DEF Advance, Walks, Walking
<1>7. CASE Head(w.path) # ".." /\ IsLink(fs, Entry(w))
  <2>1. w.links + 1 \in 0 .. MaxLinks
    BY <1>1, <1>7, HopsAssumption DEF Obstacle
  <2>2. fs[Entry(w)].to \in Names
    BY <1>7 DEF IsLink, IsTree
  <2>3. fs[Entry(w)].to \o Tail(w.path) \in Names
    BY <1>2, <2>2 DEF Names
  <2>4. <<>> \in Names
    BY DEF Names
  <2> QED
    BY <1>1, <1>7, <2>1, <2>3, <2>4 DEF Advance, Walks, Walking
<1> QED
  BY <1>5, <1>6, <1>7

\* What w comes to is such a set itself...
LEMMA LeadsClosed ==
    ASSUME NEW fs, IsTree(fs), NEW absent, NEW w \in Walks
    PROVE  /\ w \in Leads(fs, absent, w)
           /\ Leads(fs, absent, w) \subseteq Walks
           /\ Closed(fs, absent, Leads(fs, absent, w))
<1>1. w \in Leads(fs, absent, w) /\ Leads(fs, absent, w) \subseteq Walks
  BY DEF Leads
<1>2. ASSUME NEW u \in Leads(fs, absent, w), ~Stuck(fs, absent, u)
      PROVE  Advance(fs, u) \in Leads(fs, absent, w)
  <2>1. u \in Walks
    BY <1>1
  <2>2. Advance(fs, u) \in Walks
    BY <1>2, <2>1, AdvanceTyped DEF Stuck
  <2>3. ASSUME NEW U \in SUBSET Walks, w \in U, Closed(fs, absent, U)
        PROVE  Advance(fs, u) \in U
    <3>1. u \in U
      BY <1>2, <2>3 DEF Leads
    <3> QED
      BY <1>2, <2>3, <3>1 DEF Closed
  <2> QED
    BY <2>2, <2>3 DEF Leads
<1> QED
  BY <1>1, <1>2 DEF Closed

\* ... and the least one.
LEMMA LeadsLeast ==
    ASSUME NEW fs, NEW absent, NEW w, NEW U \in SUBSET Walks, w \in U, Closed(fs, absent, U)
    PROVE  Leads(fs, absent, w) \subseteq U
BY DEF Leads

\* What is come to from there is come to from here.
LEMMA LeadsOn ==
    ASSUME NEW fs, IsTree(fs), NEW absent, NEW w \in Walks, NEW v \in Leads(fs, absent, w)
    PROVE  Leads(fs, absent, v) \subseteq Leads(fs, absent, w)
BY LeadsClosed, LeadsLeast

\* What w comes to is w and what its next step comes to.
LEMMA LeadsFirst ==
    ASSUME NEW fs, IsTree(fs), NEW absent, NEW w \in Walks
    PROVE  Leads(fs, absent, w) =
              IF Stuck(fs, absent, w) THEN {w} ELSE {w} \cup Leads(fs, absent, Advance(fs, w))
<1>1. CASE Stuck(fs, absent, w)
  <2>1. Closed(fs, absent, {w})
    BY <1>1 DEF Closed
  <2> QED
    BY <1>1, <2>1, LeadsClosed, LeadsLeast
<1>2. CASE ~Stuck(fs, absent, w)
  <2> DEFINE x == Advance(fs, w)
  <2>1. x \in Walks
    BY <1>2, AdvanceTyped DEF Stuck
  <2>2. x \in Leads(fs, absent, w)
    BY <1>2, LeadsClosed DEF Closed
  <2>3. x \in Leads(fs, absent, x) /\ Leads(fs, absent, x) \subseteq Walks
        /\ Closed(fs, absent, Leads(fs, absent, x))
    BY <2>1, LeadsClosed
  <2>4. Closed(fs, absent, {w} \cup Leads(fs, absent, x))
    BY <2>3 DEF Closed
  <2>5. Leads(fs, absent, w) \subseteq {w} \cup Leads(fs, absent, x)
    BY <2>3, <2>4, LeadsLeast
  <2> QED
    BY <1>2, <2>2, <2>5, LeadsClosed, LeadsOn
<1> QED
  BY <1>1, <1>2

\* A resolution ends at one place only.
LEMMA OneEnd ==
    ASSUME NEW fs, IsTree(fs), NEW absent, NEW w \in Walks,
           NEW v \in Leads(fs, absent, w), Stuck(fs, absent, v),
           NEW x \in Leads(fs, absent, w), Stuck(fs, absent, x)
    PROVE  v = x
<1> DEFINE U == {u \in Leads(fs, absent, w) : v \in Leads(fs, absent, u)}
<1>1. w \in U /\ U \in SUBSET Walks
  BY LeadsClosed
<1>2. ASSUME NEW u \in U, ~Stuck(fs, absent, u)
      PROVE  Advance(fs, u) \in U
  <2>1. Advance(fs, u) \in Leads(fs, absent, w)
    BY <1>2, LeadsClosed DEF Closed
  <2>2. u \in Walks
    BY <1>1
  <2>3. v \in {u} \cup Leads(fs, absent, Advance(fs, u))
    BY <1>2, <2>2, LeadsFirst
  <2> QED
    BY <1>2, <2>1, <2>3
<1>3. Closed(fs, absent, U)
  BY <1>2 DEF Closed
<1>4. x \in U
  <2> HIDE DEF U
  <2> QED
    BY <1>1, <1>3, LeadsLeast
<1>5. x \in Walks
  BY <1>1, <1>4
<1> QED
  BY <1>4, <1>5, LeadsFirst

\* Every resolution ends: each step has fewer links to follow, or fewer names left.
LEMMA WalksEnd ==
    ASSUME NEW fs, IsTree(fs), NEW absent, NEW w \in Walks
    PROVE  \E v \in Leads(fs, absent, w) : Stuck(fs, absent, v)
<1> DEFINE Endless == {u \in Walks : \A v \in Leads(fs, absent, u) : ~Stuck(fs, absent, v)}
           Left == {n \in Nat : \E u \in Endless : n = MaxLinks - u.links}
<1>1. SUFFICES ASSUME Endless # {}
               PROVE  FALSE
  OBVIOUS
<1>2. ASSUME NEW u \in Endless
      PROVE  u \in Walks /\ ~Stuck(fs, absent, u) /\ Advance(fs, u) \in Endless
  <2>1. u \in Walks /\ u \in Leads(fs, absent, u) /\ ~Stuck(fs, absent, u)
    BY <1>2, LeadsClosed
  <2>2. Leads(fs, absent, Advance(fs, u)) \subseteq Leads(fs, absent, u)
    BY <2>1, LeadsFirst
  <2>3. Advance(fs, u) \in Walks
    BY <2>1, AdvanceTyped DEF Stuck
  <2> QED
    BY <2>1, <2>2, <2>3
<1>3. \A u \in Endless : MaxLinks - u.links \in Left
  BY HopsAssumption DEF Walks
<1> HIDE DEF Endless
<1>4. PICK least \in Left : \A n \in Left : least <= n
  <2>1. Left \in SUBSET Nat /\ Left # {}
    BY <1>1, <1>3
  <2> HIDE DEF Left
  <2> QED
    BY <2>1, Least
<1> DEFINE Short == {n \in Nat : \E u \in Endless : n = Len(u.path) /\ MaxLinks - u.links = least}
<1>5. PICK l \in Short : \A n \in Short : l <= n
  <2>1. \A u \in Endless : Len(u.path) \in Nat
    BY <1>2 DEF Walks, Names
  <2>2. Short \in SUBSET Nat /\ Short # {}
    BY <2>1
  <2> HIDE DEF Short
  <2> QED
    BY <2>2, Least
<1>6. PICK u \in Endless : l = Len(u.path) /\ MaxLinks - u.links = least
  OBVIOUS
<1> DEFINE x == Advance(fs, u)
<1>7. x \in Endless /\ x \in Walks /\ u \in Walks /\ u.path # <<>>
  BY <1>2 DEF Stuck
<1>8. x.links = u.links + 1 \/ (x.links = u.links /\ Len(x.path) = Len(u.path) - 1)
  BY <1>7 DEF Advance, Walking, Walks, Names
<1>9. MaxLinks - x.links >= least
  BY <1>3, <1>4, <1>7
<1>10. ASSUME x.links = u.links
       PROVE  Len(x.path) >= l
  <2>1. Len(x.path) \in Nat
    BY <1>7 DEF Walks, Names
  <2>2. Len(x.path) \in Short
    BY <1>6, <1>7, <1>10, <2>1
  <2> HIDE DEF Short
  <2> QED
    BY <1>5, <2>2
<1> QED
  BY <1>6, <1>7, <1>8, <1>9, <1>10, HopsAssumption DEF Walks, Names

\* Where the resolution that has come to w ends.
End(fs, absent, w) == CHOOSE v \in Leads(fs, absent, w) : Stuck(fs, absent, v)

\* What a resolution that ends at v answers.
Outcome(fs, absent, v) ==
    IF v.path = <<>> THEN Resolved(v.at) ELSE Failed(Obstacle(fs, v, absent))

\* The end of a resolution is reached, and is the only place where it is stuck.
LEMMA EndIs ==
    ASSUME NEW fs, IsTree(fs), NEW absent, NEW w \in Walks
    PROVE  /\ End(fs, absent, w) \in Leads(fs, absent, w)
           /\ Stuck(fs, absent, End(fs, absent, w))
           /\ \A v \in Leads(fs, absent, w) : Stuck(fs, absent, v) => v = End(fs, absent, w)
BY WalksEnd, OneEnd DEF End

\* Its end is that of every place it comes past.
LEMMA EndStays ==
    ASSUME NEW fs, IsTree(fs), NEW absent, NEW w \in Walks, NEW v \in Leads(fs, absent, w)
    PROVE  End(fs, absent, v) = End(fs, absent, w)
<1>1. v \in Walks
  BY LeadsClosed
<1>2. End(fs, absent, v) \in Leads(fs, absent, w) /\ Stuck(fs, absent, End(fs, absent, v))
  BY <1>1, EndIs, LeadsOn
<1> QED
  BY <1>2, EndIs

\* The recursion over the names computes the outcome at that end.
LEMMA WalkIs ==
    ASSUME NEW fs, IsTree(fs), NEW absent, NEW path \in Names
    PROVE  /\ StartOf(path) \in Walks
           /\ Walk(fs, path, absent) = Outcome(fs, absent, End(fs, absent, StartOf(path)))
<1> DEFINE Body(g, w) ==
               LET obstacle == Obstacle(fs, w, absent)
               IN IF w.path = <<>> THEN Resolved(w.at)
                  ELSE IF obstacle # "none" THEN Failed(obstacle)
                  ELSE g[Advance(fs, w)]
           G == [w \in Walks |-> Outcome(fs, absent, End(fs, absent, w))]
           go == CHOOSE g : g = [w \in Walks |-> Body(g, w)]
<1>1. StartOf(path) \in Walks
  BY HopsAssumption DEF StartOf, Walking, Walks, Names
<1>2. Walk(fs, path, absent) = go[StartOf(path)]
  BY DEF Walk
<1>3. ASSUME NEW w \in Walks
      PROVE  G[w] = Body(G, w)
  <2>1. CASE Stuck(fs, absent, w)
    <3>1. End(fs, absent, w) = w
      BY <2>1, EndIs, LeadsClosed
    <3> QED
      BY <2>1, <3>1 DEF Outcome, Stuck
  <2>2. CASE ~Stuck(fs, absent, w)
    <3>1. Advance(fs, w) \in Walks /\ Advance(fs, w) \in Leads(fs, absent, w)
      BY <2>2, LeadsClosed DEF Closed
    <3>2. End(fs, absent, Advance(fs, w)) = End(fs, absent, w)
      BY <3>1, EndStays
    <3> QED
      BY <2>2, <3>1, <3>2 DEF Stuck
  <2> QED
    BY <2>1, <2>2
<1>4. G = [w \in Walks |-> Body(G, w)]
  <2> DEFINE H == [w \in Walks |-> Body(G, w)]
  <2>1. \A w \in Walks : G[w] = H[w]
    BY <1>3
  <2> QED
    BY <2>1
<1>5. go = [w \in Walks |-> Body(go, w)]
  <2> HIDE DEF G
  <2> QED
    BY <1>4
<1>6. \A w \in Walks : go[w] = Body(go, w)
  <2> DEFINE H == [w \in Walks |-> Body(go, w)]
  <2>1. \A w \in Walks : H[w] = Body(go, w)
    OBVIOUS
  <2>2. go = H
    BY <1>5
  <2> HIDE DEF go, H
  <2> QED
    BY <2>1, <2>2
<1> HIDE DEF go
<1> DEFINE w0 == StartOf(path)
           U == {u \in Leads(fs, absent, w0) : go[u] = go[w0]}
<1>7. U \in SUBSET Walks /\ w0 \in U
  BY <1>1, LeadsClosed
<1>8. Closed(fs, absent, U)
  <2>1. ASSUME NEW u \in U, ~Stuck(fs, absent, u)
        PROVE  Advance(fs, u) \in U
    <3>1. Advance(fs, u) \in Leads(fs, absent, w0)
      BY <1>1, <2>1, LeadsClosed DEF Closed
    <3>2. go[u] = go[Advance(fs, u)]
      BY <1>6, <1>7, <2>1 DEF Stuck
    <3> QED
      BY <2>1, <3>1, <3>2
  <2> QED
    BY <2>1 DEF Closed
<1>9. End(fs, absent, w0) \in U
  <2>1. End(fs, absent, w0) \in Leads(fs, absent, w0)
    BY <1>1, EndIs
  <2> HIDE DEF U
  <2> QED
    BY <1>7, <1>8, <2>1, LeadsLeast
<1>10. End(fs, absent, w0) \in Walks /\ Stuck(fs, absent, End(fs, absent, w0))
  BY <1>1, <1>7, <1>9, EndIs
<1>11. go[End(fs, absent, w0)] = Outcome(fs, absent, End(fs, absent, w0))
  BY <1>6, <1>10 DEF Outcome, Stuck
<1> QED
  BY <1>1, <1>2, <1>9, <1>11
-----------------------------------------------------------------------------
(* Sequences of names                                                      *)

\* Two paths, one after the other.
LEMMA Joined ==
    ASSUME NEW p \in Names, NEW q \in Names
    PROVE  /\ p \o q \in Names
           /\ Len(p \o q) = Len(p) + Len(q)
           /\ p \o <<>> = p /\ <<>> \o p = p
           /\ \A r \in Names : (p \o q) \o r = p \o (q \o r)
           /\ p # <<>> => /\ p \o q # <<>>
                          /\ Head(p \o q) = Head(p)
                          /\ Tail(p \o q) = Tail(p) \o q
                          /\ Head(p) \in Component
                          /\ Tail(p) \in Names
<1>1. p \o q \in Names /\ p \o <<>> = p /\ <<>> \o p = p /\ Len(p \o q) = Len(p) + Len(q)
  BY ConcatEmptySeq, ConcatProperties DEF Names
<1>2. \A r \in Names : (p \o q) \o r = p \o (q \o r)
  BY ConcatAssociative DEF Names
<1>3. ASSUME p # <<>>
      PROVE  /\ p \o q # <<>> /\ Head(p \o q) = Head(p)
             /\ Head(p) \in Component /\ Tail(p) \in Names
  BY <1>3 DEF Names
<1>4. ASSUME p # <<>>
      PROVE  Tail(p \o q) = Tail(p) \o q
  <2>1. Tail(p \o q) \in Seq(Component) /\ Len(Tail(p \o q)) = Len(p) + Len(q) - 1
        /\ \A i \in 1 .. Len(p) + Len(q) - 1 : Tail(p \o q)[i] = (p \o q)[i + 1]
    BY <1>1, <1>3, <1>4, HeadTailProperties DEF Names
  <2>2. Tail(p) \o q \in Seq(Component) /\ Len(Tail(p) \o q) = Len(p) - 1 + Len(q)
        /\ \A i \in 1 .. Len(p) - 1 + Len(q) :
              (Tail(p) \o q)[i] = IF i <= Len(p) - 1 THEN Tail(p)[i] ELSE q[i - (Len(p) - 1)]
    BY <1>3, <1>4, HeadTailProperties, ConcatProperties DEF Names
  <2>3. ASSUME NEW i \in 1 .. Len(p) + Len(q) - 1
        PROVE  Tail(p \o q)[i] = (Tail(p) \o q)[i]
    <3>1. Len(p) \in Nat /\ Len(q) \in Nat
      BY DEF Names
    <3>2. (p \o q)[i + 1] = IF i + 1 <= Len(p) THEN p[i + 1] ELSE q[i + 1 - Len(p)]
      BY <3>1, ConcatProperties DEF Names
    <3>3. i <= Len(p) - 1 => Tail(p)[i] = p[i + 1]
      BY <1>4, <3>1, HeadTailProperties DEF Names
    <3> QED
      BY <2>1, <2>2, <3>1, <3>2, <3>3
  <2> QED
    BY <2>1, <2>2, <2>3, SeqEqual DEF Names
<1> QED
  BY <1>1, <1>2, <1>3, <1>4

\* Three of them.
LEMMA JoinedTwice ==
    ASSUME NEW p \in Names, NEW q \in Names, NEW r \in Names
    PROVE  (p \o q) \o r = p \o (q \o r)
BY Joined

\* A path is its first name and the others.
LEMMA FirstOf ==
    ASSUME NEW p \in Names, p # <<>>
    PROVE  /\ Head(p) \in Component /\ Tail(p) \in Names /\ <<Head(p)>> \in Names
           /\ p = <<Head(p)>> \o Tail(p)
           /\ Len(p) \in Nat \ {0} /\ Len(Tail(p)) = Len(p) - 1
           /\ Head(p) = p[1] /\ \A i \in 1 .. Len(p) - 1 : Tail(p)[i] = p[i + 1]
<1> DEFINE h == Head(p)
<1>1. /\ h \in Component /\ Tail(p) \in Seq(Component)
      /\ Len(p) \in Nat \ {0} /\ Len(Tail(p)) = Len(p) - 1
      /\ h = p[1] /\ \A i \in 1 .. Len(p) - 1 : Tail(p)[i] = p[i + 1]
  BY HeadTailProperties, EmptySeq DEF Names
<1> HIDE DEF h
<1>2. <<h>> \in Seq(Component) /\ Len(<<h>>) = 1 /\ <<h>>[1] = h
  BY <1>1
<1>3. /\ <<h>> \o Tail(p) \in Seq(Component) /\ Len(<<h>> \o Tail(p)) = Len(p)
      /\ \A i \in 1 .. Len(p) : (<<h>> \o Tail(p))[i] = IF i <= 1 THEN <<h>>[i] ELSE Tail(p)[i - 1]
  BY <1>1, <1>2, ConcatProperties
<1>4. ASSUME NEW i \in 1 .. Len(p)
      PROVE  p[i] = (<<h>> \o Tail(p))[i]
  <2>1. CASE i = 1
    BY <1>1, <1>2, <1>3, <2>1
  <2>2. CASE i # 1
    <3>1. i - 1 \in 1 .. Len(p) - 1 /\ (i - 1) + 1 = i /\ ~(i <= 1)
      BY <1>1, <2>2
    <3> QED
      BY <1>1, <1>3, <3>1
  <2> QED
    BY <2>1, <2>2
<1>5. p = <<h>> \o Tail(p)
  BY <1>1, <1>3, <1>4, SeqEqual DEF Names
<1> QED
  BY <1>1, <1>2, <1>5 DEF Names, h

\* A path is all names but the last, and the last.
LEMMA LastOf ==
    ASSUME NEW p \in Names, p # <<>>
    PROVE  /\ Front(p) \in Names /\ Last(p) \in Component
           /\ p = Append(Front(p), Last(p)) /\ p = Front(p) \o <<Last(p)>>
           /\ Len(Front(p)) = Len(p) - 1
<1>1. Len(p) \in Nat \ {0} /\ p \in [1 .. Len(p) -> Component]
  BY EmptySeq, LenProperties DEF Names
<1>2. Front(p) \in Seq(Component) /\ Len(Front(p)) = Len(p) - 1
      /\ \A i \in 1 .. Len(p) - 1 : Front(p)[i] = p[i]
  BY <1>1, SubSeqProperties DEF Front
<1>3. Last(p) \in Component /\ Last(p) = p[Len(p)]
  BY <1>1 DEF Last
<1>4. /\ Append(Front(p), Last(p)) \in Seq(Component)
      /\ Len(Append(Front(p), Last(p))) = Len(p)
      /\ \A i \in 1 .. Len(p) : Append(Front(p), Last(p))[i] = p[i]
  <2>1. /\ Append(Front(p), Last(p)) \in Seq(Component)
        /\ Len(Append(Front(p), Last(p))) = Len(Front(p)) + 1
        /\ \A i \in 1 .. Len(Front(p)) : Append(Front(p), Last(p))[i] = Front(p)[i]
        /\ Append(Front(p), Last(p))[Len(Front(p)) + 1] = Last(p)
    BY <1>2, <1>3, AppendProperties
  <2> QED
    BY <1>1, <1>2, <1>3, <2>1
<1>5. p = Append(Front(p), Last(p))
  BY <1>1, <1>4, SeqEqual DEF Names
<1> QED
  BY <1>2, <1>3, <1>5, AppendIsConcat DEF Names

\* A sequence with one more element.
LEMMA AppendedTo ==
    ASSUME NEW S, NEW p \in Seq(S), NEW n \in S
    PROVE  /\ Append(p, n) \in Seq(S) /\ Append(p, n) # <<>> /\ <<n>> \in Seq(S)
           /\ Append(p, n) = p \o <<n>>
           /\ Len(Append(p, n)) = Len(p) + 1
           /\ Front(Append(p, n)) = p /\ Last(Append(p, n)) = n
<1>1. /\ Append(p, n) \in Seq(S) /\ Append(p, n) # <<>> /\ <<n>> \in Seq(S)
      /\ Append(p, n) = p \o <<n>> /\ Len(Append(p, n)) = Len(p) + 1
  BY AppendProperties, AppendIsConcat
<1>2. Append(p, n)[Len(p) + 1] = n /\ \A i \in 1 .. Len(p) : Append(p, n)[i] = p[i]
  BY AppendProperties
<1>3. Front(Append(p, n)) \in Seq(S) /\ Len(Front(Append(p, n))) = Len(p)
      /\ \A i \in 1 .. Len(p) : Front(Append(p, n))[i] = Append(p, n)[i]
  <2>1. Len(p) \in Nat /\ Len(Append(p, n)) - 1 = Len(p)
    BY <1>1
  <2> QED
    BY <1>1, <2>1, SubSeqProperties DEF Front
<1>4. Front(Append(p, n)) = p
  BY <1>2, <1>3, SeqEqual
<1> QED
  BY <1>1, <1>2, <1>4 DEF Last

\* A path with one more name.
LEMMA Appended ==
    ASSUME NEW p \in Names, NEW n \in Component
    PROVE  /\ Append(p, n) \in Names /\ Append(p, n) # <<>> /\ <<n>> \in Names
           /\ Append(p, n) = p \o <<n>>
           /\ Len(Append(p, n)) = Len(p) + 1
           /\ Front(Append(p, n)) = p /\ Last(Append(p, n)) = n
BY AppendedTo DEF Names
-----------------------------------------------------------------------------
(* Resolutions that go on, that are part of longer ones, or that start with *)
(* more links in hand                                                      *)

\* The parent of a path is one.
LEMMA ParentIs ==
    ASSUME NEW p \in Names
    PROVE  Parent(p) \in Names
BY LastOf DEF Parent

\* A resolution with more names to go at the end.
Plus(w, q) == Walking(w.at, w.path \o q, w.links)

\* That is a resolution too.
LEMMA PlusTyped ==
    ASSUME NEW w \in Walks, NEW q \in Names
    PROVE  /\ Plus(w, q) \in Walks
           /\ Plus(w, q).at = w.at /\ Plus(w, q).links = w.links /\ Plus(w, q).path = w.path \o q
BY Joined DEF Plus, Walking, Walks

\* It takes the steps that it would take without them...
LEMMA PlusGoesOn ==
    ASSUME NEW fs, IsTree(fs), NEW absent, NEW w \in Walks, w.path # <<>>, NEW q \in Names
    PROVE  /\ Plus(w, q).path # <<>>
           /\ Obstacle(fs, Plus(w, q), absent) = Obstacle(fs, w, absent)
           /\ Obstacle(fs, w, absent) = "none" => Advance(fs, Plus(w, q)) = Plus(Advance(fs, w), q)
<1>1. w.path \in Names
  BY DEF Walks
<1>2. Head(w.path \o q) = Head(w.path) /\ Tail(w.path \o q) = Tail(w.path) \o q
      /\ w.path \o q # <<>> /\ Tail(w.path) \in Names
  BY <1>1, Joined
<1>3. Entry(Plus(w, q)) = Entry(w)
  BY <1>2, PlusTyped DEF Entry
<1>4. IsLink(fs, Entry(w)) => (fs[Entry(w)].to \o Tail(w.path)) \o q = fs[Entry(w)].to \o (Tail(w.path) \o q)
  <2> SUFFICES ASSUME IsLink(fs, Entry(w))
               PROVE  (fs[Entry(w)].to \o Tail(w.path)) \o q = fs[Entry(w)].to \o (Tail(w.path) \o q)
    OBVIOUS
  <2>1. fs[Entry(w)].to \in Names
    BY DEF IsLink, IsTree
  <2> DEFINE to == fs[Entry(w)].to
             rest == Tail(w.path)
  <2>2. to \in Names /\ rest \in Names /\ q \in Names
    BY <1>2, <2>1
  <2> HIDE DEF to, rest
  <2>3. (to \o rest) \o q = to \o (rest \o q)
    BY <2>2, JoinedTwice
  <2> QED
    BY <2>3 DEF to, rest
<1> QED
  BY <1>2, <1>3, <1>4, PlusTyped DEF Obstacle, Advance, Plus, Walking

\* ... so it comes to the same places, with those names still to go.
LEMMA PlusLeads ==
    ASSUME NEW fs, IsTree(fs), NEW absent, NEW w \in Walks, NEW q \in Names,
           NEW v \in Leads(fs, absent, w)
    PROVE  Plus(v, q) \in Leads(fs, absent, Plus(w, q))
<1> DEFINE U == {u \in Walks : Plus(u, q) \in Leads(fs, absent, Plus(w, q))}
<1>1. w \in U /\ U \in SUBSET Walks
  BY PlusTyped, LeadsClosed
<1>2. ASSUME NEW u \in U, ~Stuck(fs, absent, u)
      PROVE  Advance(fs, u) \in U
  <2>1. Advance(fs, u) \in Walks
    BY <1>2, AdvanceTyped DEF Stuck
  <2>2. ~Stuck(fs, absent, Plus(u, q)) /\ Advance(fs, Plus(u, q)) = Plus(Advance(fs, u), q)
    BY <1>2, PlusGoesOn DEF Stuck
  <2> QED
    BY <1>2, <2>1, <2>2, PlusTyped, LeadsClosed DEF Closed
<1>3. Closed(fs, absent, U)
  BY <1>2 DEF Closed
<1>4. v \in U
  <2> HIDE DEF U
  <2> QED
    BY <1>1, <1>3, LeadsLeast
<1> QED
  BY <1>4

\* A resolution of a path that comes to its end has come past the end of each prefix.
LEMMA PlusSplits ==
    ASSUME NEW fs, IsTree(fs), NEW absent, NEW w \in Walks, NEW q \in Names,
           NEW v \in Leads(fs, absent, Plus(w, q)), v.path = <<>>
    PROVE  \E u \in Leads(fs, absent, w) : u.path = <<>> /\ v \in Leads(fs, absent, Plus(u, q))
<1> DEFINE u == End(fs, absent, w)
<1>1. u \in Leads(fs, absent, w) /\ Stuck(fs, absent, u) /\ u \in Walks
  BY EndIs, LeadsClosed
<1>2. Plus(u, q) \in Leads(fs, absent, Plus(w, q)) /\ Plus(u, q) \in Walks /\ Plus(w, q) \in Walks
  BY <1>1, PlusLeads, PlusTyped
<1>3. v = End(fs, absent, Plus(w, q))
  BY <1>2, EndIs DEF Stuck
<1>4. u.path = <<>>
  <2> SUFFICES ASSUME u.path # <<>>
               PROVE  FALSE
    OBVIOUS
  <2>1. Plus(u, q).path # <<>> /\ Stuck(fs, absent, Plus(u, q))
    BY <1>1, PlusGoesOn DEF Stuck
  <2> QED
    BY <1>2, <1>3, <2>1, EndIs
<1>5. v \in Leads(fs, absent, Plus(u, q))
  BY <1>2, <1>3, EndStays, EndIs
<1> QED
  BY <1>1, <1>4, <1>5

\* A resolution with fewer links followed before it.
Spared(w, k) == Walking(w.at, w.path, w.links - k)

\* With fewer links followed before it, a resolution comes to the same place.
LEMMA SparedLeads ==
    ASSUME NEW fs, IsTree(fs), NEW absent, NEW w \in Walks, NEW k \in 0 .. w.links,
           NEW v \in Leads(fs, absent, w)
    PROVE  /\ v.links >= w.links
           /\ Spared(v, k) \in Leads(fs, absent, Spared(w, k))
<1> DEFINE U == {u \in Walks : u.links >= w.links /\ Spared(u, k) \in Leads(fs, absent, Spared(w, k))}
<1>1. ASSUME NEW u \in Walks, u.links >= w.links
      PROVE  /\ Spared(u, k) \in Walks /\ u.links \in Nat /\ k \in Nat /\ MaxLinks \in Nat
             /\ Spared(u, k).at = u.at /\ Spared(u, k).path = u.path
             /\ Spared(u, k).links = u.links - k /\ Spared(u, k).links <= u.links
  BY <1>1, HopsAssumption DEF Spared, Walking, Walks
<1>2. w \in U /\ U \in SUBSET Walks
  BY <1>1, LeadsClosed DEF Walks
<1>3. ASSUME NEW u \in U, ~Stuck(fs, absent, u)
      PROVE  Advance(fs, u) \in U
  <2>1. Advance(fs, u) \in Walks /\ u.path # <<>>
    BY <1>3, AdvanceTyped DEF Stuck
  <2>2. Entry(Spared(u, k)) = Entry(u)
    BY <1>1, <1>3 DEF Entry
  <2>3. ~Stuck(fs, absent, Spared(u, k))
    <3>1. Spared(u, k).at = u.at /\ Spared(u, k).path = u.path /\ Spared(u, k).links <= u.links
          /\ u.links \in 0 .. MaxLinks /\ Spared(u, k).links \in 0 .. MaxLinks
      BY <1>1, <1>3 DEF Walks
    <3>2. Spared(u, k).links = MaxLinks => u.links = MaxLinks
      BY <3>1, HopsAssumption
    <3> QED
      BY <1>3, <2>2, <3>1, <3>2 DEF Stuck, Obstacle
  <2>4. Advance(fs, Spared(u, k)) = Spared(Advance(fs, u), k)
    <3>1. Spared(u, k).at = u.at /\ Spared(u, k).path = u.path /\ Spared(u, k).links = u.links - k
          /\ u.links \in Nat /\ k \in Nat
      BY <1>1, <1>3
    <3>2. (u.links - k) + 1 = (u.links + 1) - k
      BY <3>1
    <3> QED
      BY <2>2, <3>1, <3>2 DEF Advance, Spared, Walking
  <2>5. Advance(fs, u).links >= w.links
    <3>1. Advance(fs, u).links = u.links \/ Advance(fs, u).links = u.links + 1
      BY DEF Advance, Walking
    <3>2. u.links \in Nat /\ w.links \in Nat /\ u.links >= w.links
      BY <1>3 DEF Walks
    <3> QED
      BY <3>1, <3>2
  <2> QED
    BY <1>1, <1>2, <1>3, <2>1, <2>3, <2>4, <2>5, LeadsClosed DEF Closed
<1>4. Closed(fs, absent, U)
  BY <1>3 DEF Closed
<1>5. v \in U
  <2> HIDE DEF U
  <2> QED
    BY <1>2, <1>4, LeadsLeast
<1> QED
  BY <1>5
-----------------------------------------------------------------------------
(* What a resolution comes to, and how the three ways of taking a name that *)
(* doesn't exist compare                                                   *)

\* A path is found where its resolution runs out of names.
LEMMA WalkFound ==
    ASSUME NEW fs, IsTree(fs), NEW absent, NEW path \in Names
    PROVE  /\ StartOf(path) \in Walks
           /\ \A v \in Leads(fs, absent, StartOf(path)) :
                 v.path = <<>> => Walk(fs, path, absent) = Resolved(v.at)
           /\ Walk(fs, path, absent).end = "found" =>
                 \E v \in Leads(fs, absent, StartOf(path)) : v.path = <<>>
<1> DEFINE w == StartOf(path)
           v == End(fs, absent, w)
<1>1. w \in Walks /\ Walk(fs, path, absent) = Outcome(fs, absent, v)
  BY WalkIs
<1> HIDE DEF w
<1>2. v \in Leads(fs, absent, w) /\ \A u \in Leads(fs, absent, w) : u.path = <<>> => u = v
  BY <1>1, EndIs DEF Stuck
<1>3. v.path # <<>> => Outcome(fs, absent, v).end # "found"
  BY DEF Outcome, Failed, Obstacle
<1> QED
  BY <1>1, <1>2, <1>3 DEF Outcome, w

\* A directory: the root, or an entry that is no link.
Real(fs, p) == p = <<>> \/ (p \in DOMAIN fs /\ ~fs[p].link)

\* What has an entry in it is a directory.
LEMMA ParentReal ==
    ASSUME NEW fs, IsTree(fs), NEW p, p = <<>> \/ p \in DOMAIN fs
    PROVE  Real(fs, Parent(p))
<1>1. CASE p = <<>>
  BY <1>1 DEF Parent, Real
<1>2. CASE p # <<>>
  <2>1. p \in Names /\ p \in DOMAIN fs
    BY <1>2 DEF IsTree
  <2>2. Front(p) \in Names /\ Len(Front(p)) = Len(p) - 1 /\ Len(p) \in Nat
    <3>1. Front(p) \in Names /\ Len(Front(p)) = Len(p) - 1
      BY <1>2, <2>1, LastOf
    <3> QED
      BY <2>1, <3>1 DEF Names
  <2>3. Len(p) > 1 \/ Front(p) = <<>>
    <3>1. Len(p) > 1 \/ Len(Front(p)) = 0
      BY <1>2, <2>1, <2>2 DEF Names
    <3> QED
      BY <2>2, <3>1, EmptySeq DEF Names
  <2> QED
    BY <1>2, <2>1, <2>3 DEF Parent, Real, IsTree
<1> QED
  BY <1>1, <1>2

\* A resolution that doesn't make anything stays among the directories that exist,
\* and one that makes what is missing goes the same way.
LEMMA FailsStaysReal ==
    ASSUME NEW fs, IsTree(fs), NEW w \in Walks, Real(fs, w.at),
           NEW v \in Leads(fs, "fails", w)
    PROVE  Real(fs, v.at) /\ v \in Leads(fs, "oneway", w)
<1> DEFINE U == {u \in Walks : Real(fs, u.at) /\ u \in Leads(fs, "oneway", w)}
<1>1. w \in U /\ U \in SUBSET Walks
  BY LeadsClosed
<1>2. ASSUME NEW u \in U, ~Stuck(fs, "fails", u)
      PROVE  Advance(fs, u) \in U
  <2>1. Advance(fs, u) \in Walks /\ u.path # <<>>
    BY <1>2, AdvanceTyped DEF Stuck
  <2>2. ~Stuck(fs, "oneway", u)
    BY <1>2 DEF Stuck, Obstacle, Absent, Real
  <2>3. Real(fs, Advance(fs, u).at)
    <3>1. CASE Head(u.path) = ".."
      <4>1. Real(fs, Parent(u.at))
        BY <1>2, ParentReal DEF Real
      <4> QED
        BY <3>1, <4>1 DEF Advance, Walking
    <3>2. CASE Head(u.path) # ".." /\ ~IsLink(fs, Entry(u))
      <4>1. ~Absent(fs, Entry(u))
        BY <1>2, <3>2 DEF Stuck, Obstacle
      <4> QED
        BY <3>2, <4>1 DEF Advance, Walking, Absent, Real, IsLink
    <3>3. CASE Head(u.path) # ".." /\ IsLink(fs, Entry(u))
      BY <1>2, <3>3 DEF Advance, Walking, Real
    <3> QED
      BY <3>1, <3>2, <3>3
  <2> QED
    BY <1>2, <2>1, <2>2, <2>3, LeadsClosed DEF Closed
<1>3. Closed(fs, "fails", U)
  BY <1>2 DEF Closed
<1>4. v \in U
  <2> HIDE DEF U
  <2> QED
    BY <1>1, <1>3, LeadsLeast
<1> QED
  BY <1>4

\* A resolution that leaves no missing name is one that makes them.
LEMMA JudgedIsMade ==
    ASSUME NEW fs, IsTree(fs), NEW w \in Walks, NEW v \in Leads(fs, "oneway", w)
    PROVE  v \in Leads(fs, "made", w)
<1> DEFINE U == Leads(fs, "made", w)
<1>1. w \in U /\ U \in SUBSET Walks /\ Closed(fs, "made", U)
  BY LeadsClosed
<1>2. \A u \in Walks : Stuck(fs, "made", u) => Stuck(fs, "oneway", u)
  BY DEF Stuck, Obstacle
<1>3. Closed(fs, "oneway", U)
  BY <1>1, <1>2 DEF Closed
<1> QED
  <2> HIDE DEF U
  <2>1. v \in U
    BY <1>1, <1>3, LeadsLeast
  <2> QED
    BY <2>1 DEF U

\* No name of it is "..".
Plain(path) == \A i \in 1 .. Len(path) : path[i] # ".."

\* Name by name.
LEMMA PlainRest ==
    ASSUME NEW path \in Names, path # <<>>
    PROVE  Plain(path) <=> Head(path) # ".." /\ Plain(Tail(path))
<1>1. /\ Len(path) \in Nat \ {0} /\ Head(path) = path[1]
      /\ Len(Tail(path)) = Len(path) - 1 /\ \A i \in 1 .. Len(path) - 1 : Tail(path)[i] = path[i + 1]
  BY FirstOf
<1>2. ASSUME Head(path) # "..", Plain(Tail(path)), NEW i \in 1 .. Len(path)
      PROVE  path[i] # ".."
  <2>1. CASE i = 1
    BY <1>1, <1>2, <2>1
  <2>2. CASE i # 1
    <3>1. i - 1 \in 1 .. Len(path) - 1 /\ (i - 1) + 1 = i
      BY <1>1, <2>2
    <3> QED
      BY <1>1, <1>2, <3>1 DEF Plain
  <2> QED
    BY <2>1, <2>2
<1>3. ASSUME Plain(path)
      PROVE  Head(path) # ".." /\ Plain(Tail(path))
  BY <1>1, <1>3 DEF Plain
<1> QED
  BY <1>2, <1>3 DEF Plain

\* Nothing lies under what doesn't exist.
LEMMA AbsentUnder ==
    ASSUME NEW fs, IsTree(fs), NEW p \in Names, Absent(fs, p), NEW n \in Component
    PROVE  Absent(fs, Append(p, n)) /\ ~IsLink(fs, Append(p, n))
<1>1. Append(p, n) # <<>> /\ Front(Append(p, n)) = p /\ Len(Append(p, n)) = Len(p) + 1
  BY Appended
<1>2. Len(p) \in Nat /\ Len(p) > 0
  BY EmptySeq DEF Absent, Names
<1>3. Len(Append(p, n)) > 1
  BY <1>1, <1>2
<1> QED
  BY <1>1, <1>3 DEF Absent, IsTree, IsLink

\* Where nothing exists yet, a resolution goes down name by name.
LEMMA AbsentGoesDown ==
    ASSUME NEW fs, IsTree(fs), NEW w \in Walks, Absent(fs, w.at),
           NEW v \in Leads(fs, "oneway", w)
    PROVE  /\ Absent(fs, v.at) /\ v.links = w.links
           /\ v.at \o v.path = w.at \o w.path
           /\ Plain(v.path) => Plain(w.path)
<1> DEFINE Down(u) == /\ Absent(fs, u.at) /\ u.links = w.links
                      /\ u.at \o u.path = w.at \o w.path
                      /\ Plain(u.path) => Plain(w.path)
           U == {u \in Walks : Down(u)}
<1>1. w \in U /\ U \in SUBSET Walks
  OBVIOUS
<1>2. ASSUME NEW u \in U, ~Stuck(fs, "oneway", u)
      PROVE  Advance(fs, u) \in U
  <2>1. Advance(fs, u) \in Walks /\ u.path # <<>> /\ u.at \in Names /\ u.path \in Names
    BY <1>2, AdvanceTyped DEF Stuck, Walks
  <2>2. Head(u.path) # ".."
    BY <1>2 DEF Stuck, Obstacle
  <2>3. Head(u.path) \in Component /\ Tail(u.path) \in Names /\ u.path = <<Head(u.path)>> \o Tail(u.path)
    BY <2>1, FirstOf
  <2>4. Absent(fs, Entry(u)) /\ ~IsLink(fs, Entry(u))
    BY <1>2, <2>1, <2>3, AbsentUnder DEF Entry
  <2>5. Advance(fs, u) = Walking(Entry(u), Tail(u.path), u.links)
    BY <2>2, <2>4 DEF Advance
  <2>6. Entry(u) \o Tail(u.path) = u.at \o u.path
    <3>1. Entry(u) = u.at \o <<Head(u.path)>> /\ <<Head(u.path)>> \in Names
      BY <2>1, <2>3, Appended DEF Entry
    <3> DEFINE a == u.at
               h == <<Head(u.path)>>
               t == Tail(u.path)
    <3>2. a \in Names /\ h \in Names /\ t \in Names
      BY <2>1, <2>3, <3>1
    <3> HIDE DEF a, h, t
    <3>3. (a \o h) \o t = a \o (h \o t)
      BY <3>2, JoinedTwice
    <3> QED
      BY <2>3, <3>1, <3>3 DEF a, h, t
  <2>7. Plain(Tail(u.path)) => Plain(u.path)
    BY <2>1, <2>2, PlainRest
  <2> QED
    <3> DEFINE x == Walking(Entry(u), Tail(u.path), u.links)
    <3>1. x.at = Entry(u) /\ x.path = Tail(u.path) /\ x.links = u.links /\ x \in Walks
      BY <2>1, <2>5 DEF Walking
    <3>2. Down(u)
      BY <1>2
    <3> HIDE DEF x
    <3>3. Down(x)
      BY <2>4, <2>6, <2>7, <3>1, <3>2
    <3> QED
      BY <2>5, <3>1, <3>3 DEF x
<1>3. Closed(fs, "oneway", U)
  BY <1>2 DEF Closed
<1>4. v \in U
  <2> HIDE DEF U
  <2> QED
    BY <1>1, <1>3, LeadsLeast
<1> QED
  BY <1>4

\* A resolution that makes what is missing either finds all of it there, or ends
\* where nothing exists yet.
LEMMA FoundOrAbsent ==
    ASSUME NEW fs, IsTree(fs), NEW w \in Walks, NEW v \in Leads(fs, "oneway", w)
    PROVE  v \in Leads(fs, "fails", w) \/ Absent(fs, v.at)
<1> DEFINE U == {u \in Walks : u \in Leads(fs, "fails", w) \/ Absent(fs, u.at)}
<1>1. w \in U /\ U \in SUBSET Walks
  BY LeadsClosed
<1>2. ASSUME NEW u \in U, ~Stuck(fs, "oneway", u)
      PROVE  Advance(fs, u) \in U
  <2>1. Advance(fs, u) \in Walks /\ u.path # <<>> /\ u.at \in Names /\ u.path \in Names
    BY <1>2, AdvanceTyped DEF Stuck, Walks
  <2>2. Head(u.path) \in Component
    BY <2>1, FirstOf
  <2>3. CASE Absent(fs, u.at)
    <3>1. Head(u.path) # ".."
      BY <1>2, <2>3 DEF Stuck, Obstacle
    <3>2. Absent(fs, Entry(u)) /\ ~IsLink(fs, Entry(u))
      BY <2>1, <2>2, <2>3, AbsentUnder DEF Entry
    <3> QED
      BY <2>1, <3>1, <3>2 DEF Advance, Walking
  <2>4. CASE u \in Leads(fs, "fails", w) /\ Stuck(fs, "fails", u)
    <3>1. Head(u.path) # ".." /\ Absent(fs, Entry(u)) /\ ~IsLink(fs, Entry(u))
      BY <1>2, <2>1, <2>4 DEF Stuck, Obstacle, IsLink, Absent
    <3> QED
      BY <2>1, <3>1 DEF Advance, Walking
  <2>5. CASE u \in Leads(fs, "fails", w) /\ ~Stuck(fs, "fails", u)
    BY <2>1, <2>5, LeadsClosed DEF Closed
  <2> QED
    BY <1>2, <2>3, <2>4, <2>5
<1>3. Closed(fs, "oneway", U)
  BY <1>2 DEF Closed
<1>4. v \in U
  <2> HIDE DEF U
  <2> QED
    BY <1>1, <1>3, LeadsLeast
<1> QED
  BY <1>4
-----------------------------------------------------------------------------
(* The walk up to an existing entry                                        *)

\* One name more: where the resolution of p ends is where that of p with n begins.
LEMMA OneNameMore ==
    ASSUME NEW fs, IsTree(fs), NEW absent, NEW p \in Names, NEW n \in Component,
           NEW u \in Leads(fs, absent, StartOf(p)), u.path = <<>>
    PROVE  /\ Walking(u.at, <<n>>, u.links) \in Leads(fs, absent, StartOf(Append(p, n)))
           /\ StartOf(Append(p, n)) \in Walks /\ StartOf(p) \in Walks /\ u \in Walks
<1>1. /\ StartOf(p) \in Walks /\ Append(p, n) \in Names /\ <<n>> \in Names
      /\ Append(p, n) = p \o <<n>> /\ <<>> \o <<n>> = <<n>>
  <2>1. StartOf(p) \in Walks
    BY WalkIs
  <2>2. Append(p, n) \in Names /\ <<n>> \in Names /\ Append(p, n) = p \o <<n>>
    BY Appended
  <2>3. <<>> \o <<n>> = <<n>>
    BY <2>2, Joined
  <2> QED
    BY <2>1, <2>2, <2>3
<1>2. StartOf(Append(p, n)) \in Walks
  BY <1>1, WalkIs
<1>3. u \in Walks
  BY <1>1, LeadsClosed
<1>4. Plus(StartOf(p), <<n>>) = StartOf(Append(p, n)) /\ Plus(u, <<n>>) = Walking(u.at, <<n>>, u.links)
  BY <1>1 DEF Plus, StartOf, Walking
<1>5. Plus(u, <<n>>) \in Leads(fs, absent, Plus(StartOf(p), <<n>>))
  BY <1>1, PlusLeads
<1> QED
  BY <1>1, <1>2, <1>3, <1>4, <1>5

\* The last name of a path that isn't stopped at it.
LEMMA LastStep ==
    ASSUME NEW fs, IsTree(fs), NEW p \in Names, NEW n \in Component,
           NEW u \in Leads(fs, "fails", StartOf(p)), u.path = <<>>,
           n = ".." \/ (Append(u.at, n) \in DOMAIN fs /\ ~fs[Append(u.at, n)].link)
    PROVE  Canonicalize(fs, Append(p, n)).end = "found"
<1> DEFINE w == Walking(u.at, <<n>>, u.links)
           x == Advance(fs, w)
<1>1. /\ w \in Leads(fs, "fails", StartOf(Append(p, n)))
      /\ StartOf(Append(p, n)) \in Walks /\ Append(p, n) \in Names
  BY OneNameMore, Appended
<1>2. w.path = <<n>> /\ w.path # <<>> /\ Head(w.path) = n /\ Tail(w.path) = <<>> /\ Entry(w) = Append(u.at, n)
  BY DEF Walking, Entry
<1>3. ~Stuck(fs, "fails", w)
  BY <1>2 DEF Stuck, Obstacle, Absent, IsLink
<1>4. x.path = <<>>
  BY <1>2 DEF Advance, Walking, IsLink
<1>5. x \in Leads(fs, "fails", StartOf(Append(p, n)))
  BY <1>1, <1>3, LeadsClosed DEF Closed
<1> QED
  BY <1>1, <1>4, <1>5, WalkFound DEF Canonicalize, Resolved

\* What is found has an entry.
LEMMA FoundHasEntry ==
    ASSUME NEW fs, IsTree(fs), NEW path \in Names, Canonicalize(fs, path).end = "found"
    PROVE  LStat(fs, path)
<1> DEFINE p == Front(path)
           n == Last(path)
<1> SUFFICES ASSUME path # <<>>, n # ".."
             PROVE  EntryOf(fs, path).end = "found"
  BY DEF LStat, EntryOf
<1>1. p \in Names /\ n \in Component /\ path = p \o <<n>> /\ <<n>> \in Names
  BY LastOf, Appended
<1>2. StartOf(p) \in Walks /\ Plus(StartOf(p), <<n>>) = StartOf(path)
  <2> HIDE DEF p, n
  <2> QED
    BY <1>1, WalkIs DEF Plus, StartOf, Walking
<1>3. PICK v \in Leads(fs, "fails", Plus(StartOf(p), <<n>>)) : v.path = <<>>
  BY <1>2, WalkFound DEF Canonicalize
<1>4. PICK u \in Leads(fs, "fails", StartOf(p)) :
          u.path = <<>> /\ v \in Leads(fs, "fails", Plus(u, <<n>>))
  BY <1>1, <1>2, <1>3, PlusSplits
<1>5. Canonicalize(fs, p) = Resolved(u.at) /\ u \in Walks
  BY <1>1, <1>2, <1>4, WalkFound, LeadsClosed DEF Canonicalize
<1> HIDE DEF p, n
<1>6. Plus(u, <<n>>) \in Walks /\ Plus(u, <<n>>).path = <<n>> /\ Plus(u, <<n>>).at = u.at
  <2> DEFINE q == <<n>>
  <2>1. q \in Names /\ <<>> \o q = q
    BY <1>1, Joined
  <2> HIDE DEF q
  <2>2. Plus(u, q) \in Walks /\ Plus(u, q).path = q /\ Plus(u, q).at = u.at
    BY <1>4, <1>5, <2>1, PlusTyped
  <2> QED
    BY <2>2 DEF q
<1>7. ~Stuck(fs, "fails", Plus(u, <<n>>))
  <2> DEFINE w == Plus(u, <<n>>)
  <2>1. w \in Walks /\ w.path # <<>> /\ v \in Leads(fs, "fails", w)
    BY <1>4, <1>6
  <2> HIDE DEF w
  <2>2. ~Stuck(fs, "fails", w)
    BY <1>3, <2>1, LeadsFirst
  <2> QED
    BY <2>2 DEF w
<1>8. Entry(Plus(u, <<n>>)) = Append(u.at, n) /\ Head(Plus(u, <<n>>).path) = n
  BY <1>6 DEF Entry
<1>9. Append(u.at, n) \in DOMAIN fs
  <2>1. Append(u.at, n) # <<>>
    BY <1>1, <1>5, Appended DEF Walks
  <2> QED
    BY <1>7, <1>8, <2>1 DEF Stuck, Obstacle, Absent, p, n
<1> QED
  BY <1>5, <1>9 DEF EntryOf, Resolved, p, n

\* An entry that is there and leads nowhere is a link, in a directory that is found.
LEMMA LeadsNowhere ==
    ASSUME NEW fs, IsTree(fs), NEW path \in Names, LStat(fs, path),
           Canonicalize(fs, path).end # "found"
    PROVE  /\ path # <<>>
           /\ \E u \in Leads(fs, "fails", StartOf(Front(path))) :
                 /\ u.path = <<>> /\ Last(path) # ".."
                 /\ EntryOf(fs, path).at = Append(u.at, Last(path))
                 /\ IsLink(fs, Append(u.at, Last(path)))
<1> DEFINE p == Front(path)
           n == Last(path)
<1>1. path # <<>>
  <2> SUFFICES ASSUME path = <<>> PROVE FALSE
    OBVIOUS
  <2>1. StartOf(path) \in Walks /\ StartOf(path).path = <<>>
    BY WalkIs DEF StartOf, Walking
  <2>2. StartOf(path) \in Leads(fs, "fails", StartOf(path))
    BY <2>1, LeadsClosed
  <2> QED
    BY <2>1, <2>2, WalkFound DEF Canonicalize, Resolved
<1>2. p \in Names /\ n \in Component /\ path = Append(p, n)
  BY <1>1, LastOf
<1>3. n # ".." /\ Canonicalize(fs, p).end = "found" /\ EntryOf(fs, path).end = "found"
  BY <1>1 DEF LStat, EntryOf
<1>4. PICK u \in Leads(fs, "fails", StartOf(p)) : u.path = <<>>
  BY <1>2, <1>3, WalkFound DEF Canonicalize
<1>5. Canonicalize(fs, p) = Resolved(u.at)
  BY <1>2, <1>4, WalkFound DEF Canonicalize
<1>6. Append(u.at, n) \in DOMAIN fs /\ EntryOf(fs, path).at = Append(u.at, n)
  BY <1>3, <1>5 DEF EntryOf, Resolved, Failed
<1> HIDE DEF p, n
<1>7. fs[Append(u.at, n)].link
  BY <1>2, <1>4, <1>6, LastStep
<1> QED
  BY <1>1, <1>3, <1>4, <1>6, <1>7 DEF IsLink, p, n

\* The first name that isn't there is a name, and isn't where it would be.
LEMMA NoEntry ==
    ASSUME NEW fs, IsTree(fs), NEW p \in Names, NEW n \in Component, ~LStat(fs, Append(p, n)),
           NEW u \in Leads(fs, "fails", StartOf(p)), u.path = <<>>
    PROVE  n # ".." /\ Absent(fs, Append(u.at, n))
<1>1. Append(p, n) \in Names /\ Front(Append(p, n)) = p /\ Last(Append(p, n)) = n
  BY Appended
<1>2. n # ".."
  BY <1>1, LastStep, FoundHasEntry
<1>3. Canonicalize(fs, p) = Resolved(u.at) /\ u \in Walks
  BY OneNameMore, WalkFound DEF Canonicalize
<1>4. Append(u.at, n) \notin DOMAIN fs
  BY <1>1, <1>2, <1>3 DEF LStat, EntryOf, Resolved
<1>5. Append(u.at, n) # <<>>
  BY <1>3, Appended DEF Walks
<1> QED
  BY <1>2, <1>4, <1>5 DEF Absent

\* The names that the walk takes off, as the path has them.
Rest(fs, path) == SubSeq(path, Kept(fs, path) + 1, Len(path))

\* The path up to and after a place.
LEMMA PathAt ==
    ASSUME NEW path \in Names, NEW k \in 0 .. Len(path)
    PROVE  /\ SubSeq(path, 1, k) \in Names /\ Len(SubSeq(path, 1, k)) = k
           /\ SubSeq(path, k + 1, Len(path)) \in Names
           /\ Len(SubSeq(path, k + 1, Len(path))) = Len(path) - k
           /\ path = SubSeq(path, 1, k) \o SubSeq(path, k + 1, Len(path))
           /\ \A i \in 1 .. Len(path) - k : SubSeq(path, k + 1, Len(path))[i] = path[k + i]
           /\ \A i \in 1 .. k : SubSeq(path, 1, k)[i] = path[i]
<1> DEFINE a == SubSeq(path, 1, k)
           b == SubSeq(path, k + 1, Len(path))
           S == Component
<1>1. path \in Seq(S) /\ Len(path) \in Nat /\ k \in Nat /\ k <= Len(path)
      /\ \A i \in 1 .. Len(path) : path[i] \in S
  BY DEF Names
<1> HIDE DEF S
<1>2. a \in Seq(S) /\ Len(a) = k /\ \A i \in 1 .. k : a[i] = path[i]
  <2>1. \A i \in 1 .. k : path[i] \in S
    BY <1>1
  <2>2. /\ SubSeq(path, 1, k) \in Seq(S)
        /\ Len(SubSeq(path, 1, k)) = IF 1 <= k THEN k - 1 + 1 ELSE 0
        /\ \A i \in 1 .. k - 1 + 1 : SubSeq(path, 1, k)[i] = path[1 + i - 1]
    BY <1>1, <2>1, SubSeqProperties
  <2> QED
    BY <1>1, <2>2
<1>3. b \in Seq(S) /\ Len(b) = Len(path) - k /\ \A i \in 1 .. Len(path) - k : b[i] = path[k + i]
  <2> DEFINE m == k + 1
             l == Len(path)
  <2>1. m \in Int /\ l \in Int /\ \A i \in m .. l : path[i] \in S
    BY <1>1
  <2> HIDE DEF m, l
  <2>2. /\ SubSeq(path, m, l) \in Seq(S)
        /\ Len(SubSeq(path, m, l)) = IF m <= l THEN l - m + 1 ELSE 0
        /\ \A i \in 1 .. l - m + 1 : SubSeq(path, m, l)[i] = path[m + i - 1]
    BY <1>1, <2>1, SubSeqProperties
  <2> QED
    BY <1>1, <2>2 DEF m, l
<1> HIDE DEF a, b
<1>4. /\ a \o b \in Seq(S) /\ Len(a \o b) = Len(path)
      /\ \A i \in 1 .. Len(path) : (a \o b)[i] = IF i <= k THEN a[i] ELSE b[i - k]
  <2>1. /\ a \o b \in Seq(S) /\ Len(a \o b) = Len(a) + Len(b)
        /\ \A i \in 1 .. Len(a) + Len(b) : (a \o b)[i] = IF i <= Len(a) THEN a[i] ELSE b[i - Len(a)]
    BY <1>2, <1>3, ConcatProperties
  <2>2. Len(a) + Len(b) = Len(path)
    BY <1>1, <1>2, <1>3
  <2> QED
    BY <1>2, <2>1, <2>2
<1>5. \A i \in 1 .. Len(path) : path[i] = (a \o b)[i]
  <2> SUFFICES ASSUME NEW i \in 1 .. Len(path) PROVE path[i] = (a \o b)[i]
    OBVIOUS
  <2>1. ASSUME ~(i <= k)
        PROVE  i - k \in 1 .. Len(path) - k /\ k + (i - k) = i
    BY <1>1, <2>1
  <2> QED
    BY <1>2, <1>3, <1>4, <2>1
<1>6. path = a \o b
  BY <1>1, <1>4, <1>5, SeqEqual
<1> QED
  BY <1>2, <1>3, <1>6 DEF Names, S, a, b

\* The walk keeps the longest prefix that has an entry.
LEMMA KeptIs ==
    ASSUME NEW fs, NEW path \in Names
    PROVE  /\ Kept(fs, path) \in 0 .. Len(path) /\ Len(path) \in Nat
           /\ TakenOff(fs, path) = Len(path) - Kept(fs, path)
           /\ LStat(fs, Existing(fs, path))
           /\ \A m \in Kept(fs, path) + 1 .. Len(path) : ~LStat(fs, SubSeq(path, 1, m))
<1> DEFINE l == Len(path)
           Good(n) == LStat(fs, SubSeq(path, 1, l - n))
           T == {n \in 0 .. l : Good(n)}
<1>1. l \in Nat
  BY DEF Names
<1>2. T \in SUBSET Nat /\ l \in T
  <2>1. l - l = 0 /\ l \in 0 .. l
    BY <1>1
  <2>2. SubSeq(path, 1, 0) = <<>>
    <3>1. 0 \in 0 .. Len(path)
      BY <1>1
    <3>2. SubSeq(path, 1, 0) \in Names /\ Len(SubSeq(path, 1, 0)) = 0
      BY <3>1, PathAt
    <3> QED
      BY <3>2, EmptySeq DEF Names
  <2>3. Good(l)
    BY <2>1, <2>2 DEF LStat
  <2> QED
    BY <1>1, <2>1, <2>3
<1> HIDE DEF l
<1>3. PICK n \in T : \A m \in T : n <= m
  <2> HIDE DEF T
  <2> QED
    BY <1>2, Least
<1>4. n \in 0 .. l /\ Good(n) /\ \A m \in 0 .. n - 1 : ~Good(m)
  BY <1>1, <1>3
<1> DEFINE P(k) == LStat(fs, SubSeq(path, 1, l - k)) /\ \A m \in 0 .. k - 1 : ~LStat(fs, SubSeq(path, 1, l - m))
           t == TakenOff(fs, path)
<1>5. t = CHOOSE k \in 0 .. l : P(k)
  BY DEF TakenOff, l
<1>6. n \in 0 .. l /\ P(n)
  BY <1>4
<1>7. t \in 0 .. l /\ P(t)
  <2> HIDE DEF P, t
  <2> QED
    BY <1>5, <1>6
<1> HIDE DEF t
<1>8. Kept(fs, path) = l - t /\ l - t \in 0 .. l /\ t = l - (l - t)
  BY <1>1, <1>7 DEF Kept, l, t
<1>9. LStat(fs, Existing(fs, path))
  BY <1>7, <1>8 DEF Existing
<1>10. ASSUME NEW m \in (l - t) + 1 .. l
       PROVE  ~LStat(fs, SubSeq(path, 1, m))
  <2>1. l - m \in 0 .. t - 1 /\ l - (l - m) = m
    BY <1>1, <1>7
  <2> QED
    BY <1>7, <2>1
<1> QED
  BY <1>1, <1>8, <1>9, <1>10 DEF t, l

\* A path is that prefix and the rest, whose first name has no entry there.
LEMMA ExistingIs ==
    ASSUME NEW fs, NEW path \in Names
    PROVE  /\ Existing(fs, path) \in Names /\ Rest(fs, path) \in Names
           /\ path = Existing(fs, path) \o Rest(fs, path)
           /\ Len(Rest(fs, path)) = TakenOff(fs, path)
           /\ Rest(fs, path) # <<>> =>
                 /\ Head(Rest(fs, path)) \in Component
                 /\ ~LStat(fs, Append(Existing(fs, path), Head(Rest(fs, path))))
<1> DEFINE k == Kept(fs, path)
           e == Existing(fs, path)
           r == Rest(fs, path)
<1>1. k \in 0 .. Len(path) /\ Len(path) \in Nat /\ TakenOff(fs, path) = Len(path) - k
      /\ \A m \in k + 1 .. Len(path) : ~LStat(fs, SubSeq(path, 1, m))
  BY KeptIs
<1>2. /\ e \in Names /\ r \in Names /\ path = e \o r /\ Len(r) = Len(path) - k /\ Len(e) = k
      /\ \A i \in 1 .. Len(path) - k : r[i] = path[k + i]
      /\ \A i \in 1 .. k : e[i] = path[i]
  BY <1>1, PathAt DEF Existing, Rest
<1> HIDE DEF k, e, r
<1>3. ASSUME r # <<>>
      PROVE  Head(r) \in Component /\ ~LStat(fs, Append(e, Head(r)))
  <2>1. Head(r) \in Component /\ Len(r) \in Nat \ {0} /\ Head(r) = r[1]
    BY <1>2, <1>3, FirstOf
  <2>2. k + 1 \in 0 .. Len(path) /\ k + 1 \in k + 1 .. Len(path) /\ k \in Nat /\ 1 \in 1 .. Len(path) - k
    BY <1>1, <1>2, <2>1
  <2> DEFINE s == SubSeq(path, 1, k + 1)
             h == Head(r)
             S == Component
  <2>3. s \in Seq(S) /\ Len(s) = k + 1 /\ \A i \in 1 .. k + 1 : s[i] = path[i]
    BY <2>2, PathAt DEF Names
  <2>4. e \in Seq(S) /\ h \in S /\ h = path[k + 1]
    BY <1>2, <2>1, <2>2 DEF Names
  <2> HIDE DEF s, h, S
  <2>5. /\ Append(e, h) \in Seq(S) /\ Len(Append(e, h)) = k + 1
        /\ \A i \in 1 .. k : Append(e, h)[i] = e[i]
        /\ Append(e, h)[k + 1] = h
    <3>1. /\ Append(e, h) \in Seq(S) /\ Len(Append(e, h)) = Len(e) + 1
          /\ \A i \in 1 .. Len(e) : Append(e, h)[i] = e[i]
          /\ Append(e, h)[Len(e) + 1] = h
      BY <2>4, AppendProperties
    <3> QED
      BY <1>2, <3>1
  <2>6. \A i \in 1 .. k + 1 : s[i] = Append(e, h)[i]
    BY <1>2, <2>2, <2>3, <2>4, <2>5
  <2>7. s = Append(e, h)
    BY <2>3, <2>5, <2>6, SeqEqual
  <2> QED
    BY <1>1, <2>1, <2>2, <2>7 DEF s, h
<1> QED
  BY <1>1, <1>2, <1>3 DEF e, r

\* Nothing is taken off a path that is found.
LEMMA ExistingWhole ==
    ASSUME NEW fs, IsTree(fs), NEW path \in Names, Canonicalize(fs, path).end = "found"
    PROVE  Existing(fs, path) = path /\ Rest(fs, path) = <<>>
<1> DEFINE e == Existing(fs, path)
           r == Rest(fs, path)
           k == Kept(fs, path)
<1>1. k \in 0 .. Len(path) /\ Len(path) \in Nat /\ TakenOff(fs, path) = Len(path) - k
      /\ \A m \in k + 1 .. Len(path) : ~LStat(fs, SubSeq(path, 1, m))
  BY KeptIs
<1>2. e \in Names /\ r \in Names /\ path = e \o r /\ Len(r) = Len(path) - k
  BY <1>1, ExistingIs
<1>3. SubSeq(path, 1, Len(path)) = path
  BY DEF Names
<1>4. k = Len(path)
  <2> SUFFICES ASSUME k # Len(path) PROVE FALSE
    OBVIOUS
  <2>1. Len(path) \in k + 1 .. Len(path)
    BY <1>1
  <2>2. ~LStat(fs, path)
    BY <1>1, <1>3, <2>1
  <2> QED
    BY <2>2, FoundHasEntry
<1> HIDE DEF e, r
<1>5. r = <<>>
  BY <1>1, <1>2, <1>4, EmptySeq DEF Names
<1> QED
  BY <1>2, <1>5, Joined DEF e, r
\* A stretch of a sequence is the one before its last element, and that element.
LEMMA OneMore ==
    ASSUME NEW S, NEW p \in Seq(S), NEW k \in Nat, NEW n \in 1 .. Len(p), k < n
    PROVE  SubSeq(p, k + 1, n) = Append(SubSeq(p, k + 1, n - 1), p[n])
<1> DEFINE a == SubSeq(p, k + 1, n)
           b == SubSeq(p, k + 1, n - 1)
           c == k + 1
           d == n - 1
<1>1. /\ Len(p) \in Nat /\ c \in Int /\ n \in Int /\ d \in Int /\ c <= n /\ p[n] \in S
      /\ \A i \in c .. n : p[i] \in S
      /\ \A i \in c .. d : p[i] \in S
  OBVIOUS
<1> HIDE DEF c, d
<1>2. a \in Seq(S) /\ Len(a) = n - k /\ \A i \in 1 .. n - k : a[i] = p[k + i]
  <2>1. /\ SubSeq(p, c, n) \in Seq(S)
        /\ Len(SubSeq(p, c, n)) = IF c <= n THEN n - c + 1 ELSE 0
        /\ \A i \in 1 .. n - c + 1 : SubSeq(p, c, n)[i] = p[c + i - 1]
    BY <1>1, SubSeqProperties
  <2> QED
    BY <1>1, <2>1 DEF c
<1>3. b \in Seq(S) /\ Len(b) = n - k - 1 /\ \A i \in 1 .. n - k - 1 : b[i] = p[k + i]
  <2>1. /\ SubSeq(p, c, d) \in Seq(S)
        /\ Len(SubSeq(p, c, d)) = IF c <= d THEN d - c + 1 ELSE 0
        /\ \A i \in 1 .. d - c + 1 : SubSeq(p, c, d)[i] = p[c + i - 1]
    BY <1>1, SubSeqProperties
  <2> QED
    BY <1>1, <2>1 DEF c, d
<1> HIDE DEF a, b
<1>4. /\ Append(b, p[n]) \in Seq(S) /\ Len(Append(b, p[n])) = n - k
      /\ \A i \in 1 .. n - k - 1 : Append(b, p[n])[i] = b[i]
      /\ Append(b, p[n])[n - k] = p[n]
  <2>1. /\ Append(b, p[n]) \in Seq(S) /\ Len(Append(b, p[n])) = Len(b) + 1
        /\ \A i \in 1 .. Len(b) : Append(b, p[n])[i] = b[i]
        /\ Append(b, p[n])[Len(b) + 1] = p[n]
    BY <1>1, <1>3, AppendProperties
  <2> QED
    BY <1>3, <2>1
<1>5. ASSUME NEW i \in 1 .. n - k
      PROVE  a[i] = Append(b, p[n])[i]
  <2>1. CASE i = n - k
    BY <1>2, <1>4, <2>1
  <2>2. CASE i # n - k
    BY <1>2, <1>3, <1>4, <2>2
  <2> QED
    BY <2>1, <2>2
<1>6. a = Append(b, p[n])
  BY <1>2, <1>4, <1>5, SeqEqual
<1> QED
  BY <1>6 DEF a, b

\* With no ".." among them, the names taken off are all put back.
LEMMA TailPutBack ==
    ASSUME NEW fs, NEW path \in Names, Plain(Rest(fs, path))
    PROVE  TailNames(fs, path) = Rest(fs, path)
<1> DEFINE k == Kept(fs, path)
           l == Len(path)
           Body(g, n) == IF n = k THEN <<>>
                         ELSE IF path[n] = ".." THEN g[n - 1] ELSE Append(g[n - 1], path[n])
           G == [n \in k .. l |-> SubSeq(path, k + 1, n)]
           taken == CHOOSE g : g = [n \in k .. l |-> Body(g, n)]
<1>1. k \in 0 .. l /\ l \in Nat
  BY KeptIs
<1>2. TailNames(fs, path) = taken[l]
  BY DEF TailNames
<1>3. ASSUME NEW n \in k .. l, n # k
      PROVE  path[n] # ".." /\ SubSeq(path, k + 1, n) = Append(SubSeq(path, k + 1, n - 1), path[n])
  <2>1. Len(Rest(fs, path)) = l - k /\ \A i \in 1 .. l - k : Rest(fs, path)[i] = path[k + i]
    BY <1>1, PathAt DEF Rest
  <2>2. n - k \in 1 .. l - k /\ k + (n - k) = n /\ n \in 1 .. l /\ k < n
    BY <1>1, <1>3
  <2>3. path[n] # ".."
    BY <2>1, <2>2 DEF Plain
  <2> DEFINE S == Component
  <2>4. path \in Seq(S) /\ k \in Nat
    BY <1>1 DEF Names
  <2> HIDE DEF S, k
  <2>5. SubSeq(path, k + 1, n) = Append(SubSeq(path, k + 1, n - 1), path[n])
    BY <2>2, <2>4, OneMore
  <2> QED
    BY <2>3, <2>5
<1>4. SubSeq(path, k + 1, k) = <<>>
  BY <1>1 DEF Names
<1> HIDE DEF k, l
<1>5. G = [n \in k .. l |-> Body(G, n)]
  <2>1. ASSUME NEW n \in k .. l
        PROVE  G[n] = Body(G, n)
    <3>1. CASE n = k
      BY <1>4, <3>1
    <3>2. CASE n # k
      <4>1. n - 1 \in k .. l
        BY <1>1, <3>2
      <4> QED
        BY <1>3, <3>2, <4>1
    <3> QED
      BY <3>1, <3>2
  <2> DEFINE H == [n \in k .. l |-> Body(G, n)]
  <2>2. \A n \in k .. l : G[n] = H[n]
    BY <2>1
  <2> QED
    BY <2>2
<1>6. taken = [n \in k .. l |-> Body(taken, n)]
  <2> HIDE DEF G
  <2> QED
    BY <1>5
<1>7. \A n \in k .. l : taken[n] = Body(taken, n)
  <2> DEFINE H == [n \in k .. l |-> Body(taken, n)]
  <2>1. \A n \in k .. l : H[n] = Body(taken, n)
    OBVIOUS
  <2>2. taken = H
    BY <1>6
  <2> HIDE DEF taken, H
  <2> QED
    BY <2>1, <2>2
<1> HIDE DEF taken
<1> DEFINE Bad == {m \in Nat : k + m <= l /\ taken[k + m] # SubSeq(path, k + 1, k + m)}
<1>8. Bad = {}
  <2> SUFFICES ASSUME Bad # {} PROVE FALSE
    OBVIOUS
  <2>1. Bad \in SUBSET Nat
    OBVIOUS
  <2>2. PICK m \in Bad : \A j \in Bad : m <= j
    <3> HIDE DEF Bad
    <3> QED
      BY <2>1, Least
  <2> DEFINE n == k + m
  <2>3. m \in Nat /\ n \in k .. l /\ taken[n] # SubSeq(path, k + 1, n)
    BY <1>1, <2>2
  <2>4. n # k
    BY <1>4, <1>7, <2>3
  <2>5. m - 1 \in Nat /\ m - 1 \notin Bad /\ k + (m - 1) = n - 1 /\ k + (m - 1) <= l
    <3>1. m - 1 \in Nat /\ k + (m - 1) = n - 1 /\ n - 1 <= l /\ ~(m <= m - 1)
      BY <1>1, <2>3, <2>4
    <3>2. m - 1 \notin Bad
      <4> HIDE DEF Bad
      <4> QED
        BY <2>2, <3>1
    <3> QED
      BY <3>1, <3>2
  <2>6. taken[n - 1] = SubSeq(path, k + 1, n - 1)
    BY <2>5
  <2> HIDE DEF Bad, n
  <2> QED
    BY <1>3, <1>7, <2>3, <2>4, <2>6
<1>9. taken[l] = SubSeq(path, k + 1, l)
  <2> DEFINE m == l - k
  <2>1. m \in Nat /\ k + m = l /\ l <= l
    BY <1>1
  <2> HIDE DEF m
  <2>2. taken[k + m] = SubSeq(path, k + 1, k + m)
    BY <1>8, <2>1
  <2> QED
    BY <2>1, <2>2
<1> QED
  BY <1>2, <1>9 DEF Rest, k, l
-----------------------------------------------------------------------------
(* The guard's walk                                                        *)

\* The arguments that canonicalize_bounded is called with.
Calls == [path : Names, hops : 0 .. MaxHops + 1]

\* Where the last existing entry of a path leads, if that is a link.
Target(fs, path) == LinkTarget(Existing(fs, path), fs[EntryOf(fs, Existing(fs, path)).at])

\* That is a path, if the entry leads nowhere.
LEMMA TargetTyped ==
    ASSUME NEW fs, IsTree(fs), NEW path \in Names,
           Canonicalize(fs, Existing(fs, path)).end # "found"
    PROVE  Target(fs, path) \in Names
<1> DEFINE e == Existing(fs, path)
<1>1. e \in Names /\ LStat(fs, e)
  BY KeptIs, ExistingIs
<1> HIDE DEF e
<1>2. e # <<>> /\ EntryOf(fs, e).at \in DOMAIN fs
  BY <1>1, LeadsNowhere DEF IsLink, e
<1>3. Front(e) \in Names /\ fs[EntryOf(fs, e).at].to \in Names
  BY <1>1, <1>2, LastOf DEF IsTree
<1>4. Front(e) \o fs[EntryOf(fs, e).at].to \in Names
  BY <1>3, Joined
<1> QED
  BY <1>3, <1>4 DEF Target, LinkTarget, e

\* What canonicalize_bounded makes of a path: its last existing entry resolved, or
\* the target of the link that it is, and the rest put back.
Judge(fs, g, w) ==
    IF w.hops > MaxHops THEN Failed("loop")
    ELSE WithTail(IF Canonicalize(fs, Existing(fs, w.path)).end = "found"
                  THEN Canonicalize(fs, Existing(fs, w.path))
                  ELSE g[[path |-> Target(fs, w.path), hops |-> w.hops + 1]],
                  TailNames(fs, w.path))

\* One call asks for the results of those one hop further on.
LEMMA JudgeLooksOneOn ==
    ASSUME NEW fs, IsTree(fs), NEW w \in Calls, NEW g, NEW h,
           \A u \in Calls : u.hops = w.hops + 1 => g[u] = h[u]
    PROVE  Judge(fs, g, w) = Judge(fs, h, w)
<1> DEFINE u == [path |-> Target(fs, w.path), hops |-> w.hops + 1]
<1>1. w.path \in Names /\ w.hops \in 0 .. MaxHops + 1
  BY DEF Calls
<1>2. ASSUME ~(w.hops > MaxHops), Canonicalize(fs, Existing(fs, w.path)).end # "found"
      PROVE  g[u] = h[u]
  <2>1. Target(fs, w.path) \in Names
    BY <1>1, <1>2, TargetTyped
  <2>2. w.hops + 1 \in 0 .. MaxHops + 1
    BY <1>1, <1>2, HopsAssumption
  <2>3. u \in Calls /\ u.hops = w.hops + 1
    BY <2>1, <2>2 DEF Calls
  <2> QED
    BY <2>3
<1> QED
  BY <1>2 DEF Judge

\* The recursion has a result, since every call is one hop further on.
LEMMA JudgementExists ==
    ASSUME NEW fs, IsTree(fs)
    PROVE  \E g : g = [w \in Calls |-> Judge(fs, g, w)]
<1> DEFINE Right(g, n) == /\ g = [w \in Calls |-> g[w]]
                          /\ \A w \in Calls : w.hops >= n => g[w] = Judge(fs, g, w)
           T == {n \in Nat : \E g : Right(g, n)}
<1>1. MaxHops + 1 \in T
  <2> DEFINE g == [w \in Calls |-> Failed("loop")]
  <2>1. ASSUME NEW w \in Calls, w.hops >= MaxHops + 1
        PROVE  g[w] = Judge(fs, g, w)
    <3>1. w.hops > MaxHops
      BY <2>1, HopsAssumption DEF Calls
    <3> QED
      BY <3>1 DEF Judge
  <2>2. g = [w \in Calls |-> g[w]]
    OBVIOUS
  <2> HIDE DEF g
  <2>3. Right(g, MaxHops + 1)
    BY <2>1, <2>2
  <2> QED
    BY <2>3, HopsAssumption
<1>2. PICK n \in T : \A m \in T : n <= m
  <2>1. T \in SUBSET Nat
    OBVIOUS
  <2> HIDE DEF T
  <2> QED
    BY <1>1, <2>1, Least
<1>3. PICK g : Right(g, n)
  BY <1>2
<1>4. n \in Nat
  BY <1>2
<1>5. n = 0
  <2> SUFFICES ASSUME n # 0 PROVE FALSE
    OBVIOUS
  <2> DEFINE h == [w \in Calls |-> IF w.hops = n - 1 THEN Judge(fs, g, w) ELSE g[w]]
  <2>1. \A w \in Calls : h[w] = IF w.hops = n - 1 THEN Judge(fs, g, w) ELSE g[w]
    OBVIOUS
  <2>2. h = [w \in Calls |-> h[w]]
    OBVIOUS
  <2> HIDE DEF h
  <2>3. ASSUME NEW w \in Calls, w.hops >= n - 1
        PROVE  h[w] = Judge(fs, h, w)
    <3>1. w.hops \in Nat
      BY HopsAssumption DEF Calls
    <3>2. ASSUME NEW u \in Calls, u.hops = w.hops + 1
          PROVE  g[u] = h[u]
      <4>1. u.hops # n - 1
        BY <1>4, <2>3, <3>1, <3>2
      <4> QED
        BY <2>1, <4>1
    <3>3. Judge(fs, g, w) = Judge(fs, h, w)
      BY <3>2, JudgeLooksOneOn
    <3>4. w.hops # n - 1 => w.hops >= n
      BY <1>4, <2>3, <3>1
    <3> QED
      BY <1>3, <2>1, <3>3, <3>4
  <2>4. n - 1 \in Nat /\ ~(n <= n - 1)
    BY <1>4
  <2>5. Right(h, n - 1)
    BY <2>2, <2>3
  <2>6. n - 1 \in T
    BY <2>4, <2>5
  <2> HIDE DEF T
  <2> QED
    BY <1>2, <2>4, <2>6
<1>6. \A w \in Calls : g[w] = Judge(fs, g, w)
  <2>1. \A w \in Calls : w.hops >= 0
    BY HopsAssumption DEF Calls
  <2> QED
    BY <1>3, <1>5, <2>1
<1>7. g = [w \in Calls |-> Judge(fs, g, w)]
  <2> DEFINE h == [w \in Calls |-> Judge(fs, g, w)]
             k == [w \in Calls |-> g[w]]
  <2>1. \A w \in Calls : k[w] = h[w]
    BY <1>6
  <2>2. k = h
    BY <2>1
  <2>3. g = k
    BY <1>3
  <2> QED
    BY <2>2, <2>3
<1> QED
  BY <1>7

\* All results at once.
Judgement(fs) == CHOOSE g : g = [w \in Calls |-> Judge(fs, g, w)]

\* Each is what its call makes of the others.
LEMMA JudgementIs ==
    ASSUME NEW fs, IsTree(fs), NEW w \in Calls
    PROVE  Judgement(fs)[w] = Judge(fs, Judgement(fs), w)
<1> DEFINE g == Judgement(fs)
           h == [u \in Calls |-> Judge(fs, g, u)]
<1>1. g = h
  BY JudgementExists DEF Judgement
<1>2. h[w] = Judge(fs, g, w)
  OBVIOUS
<1> HIDE DEF g, h
<1>3. g[w] = Judge(fs, g, w)
  BY <1>1, <1>2
<1> QED
  BY <1>3 DEF g

\* The recursion of the guard computes the first of them.
LEMMA GuardIsJudgement ==
    ASSUME NEW fs, NEW path
    PROVE  CanonicalizeWithNonexistent(fs, path) = Judgement(fs)[[path |-> path, hops |-> 0]]
BY DEF CanonicalizeWithNonexistent, Judgement, Judge, Calls, Target
-----------------------------------------------------------------------------
(* The guard's answer                                                      *)

\* The fields of a resolution.
LEMMA WalkTyped ==
    ASSUME NEW w \in Walks
    PROVE  /\ w.at \in Names /\ w.path \in Names
           /\ w.links \in Nat /\ w.links <= MaxLinks /\ MaxLinks \in Nat
BY HopsAssumption DEF Walks

\* No names at all.
LEMMA EmptyPath ==
    /\ Plain(<<>>)
    /\ \A p \in Names : p \o <<>> = p /\ <<>> \o p = p
<1>1. Plain(<<>>)
  BY DEF Plain
<1>2. \A p \in Names : p \o <<>> = p /\ <<>> \o p = p
  BY Joined
<1> QED
  BY <1>1, <1>2

\* An end that is reached is reached from every place on the way.
LEMMA EndFromThere ==
    ASSUME NEW fs, IsTree(fs), NEW absent, NEW w \in Walks,
           NEW v \in Leads(fs, absent, w), v.path = <<>>,
           NEW u \in Leads(fs, absent, w)
    PROVE  v \in Leads(fs, absent, u)
<1>1. v = End(fs, absent, w) /\ u \in Walks
  BY EndIs, LeadsClosed DEF Stuck
<1>2. End(fs, absent, u) = v /\ End(fs, absent, u) \in Leads(fs, absent, u)
  BY <1>1, EndStays, EndIs
<1> QED
  BY <1>2

\* From where nothing exists any more, the path is followed as it is written.
LEMMA ComesDown ==
    ASSUME NEW fs, IsTree(fs), NEW w \in Walks,
           \/ w.path = <<>>
           \/ Absent(fs, w.at)
           \/ Head(w.path) # ".." /\ Absent(fs, Entry(w)),
           NEW v \in Leads(fs, "oneway", w), v.path = <<>>
    PROVE  v.at = w.at \o w.path /\ Plain(w.path) /\ v.links = w.links
<1>1. w.at \in Names /\ w.path \in Names /\ v \in Walks /\ v.at \in Names
  BY LeadsClosed, WalkTyped
<1>2. Plain(<<>>) /\ v.at \o <<>> = v.at /\ w.at \o <<>> = w.at
  BY <1>1, EmptyPath
<1>3. CASE w.path = <<>>
  <2>1. v = w
    BY <1>3, LeadsFirst DEF Stuck
  <2> QED
    BY <1>2, <1>3, <2>1
<1>4. CASE Absent(fs, w.at)
  <2>1. v.links = w.links /\ v.at \o v.path = w.at \o w.path /\ (Plain(v.path) => Plain(w.path))
    BY <1>4, AbsentGoesDown
  <2> QED
    BY <1>2, <2>1
<1>5. CASE w.path # <<>> /\ Head(w.path) # ".." /\ Absent(fs, Entry(w))
  <2> DEFINE h == Head(w.path)
             t == Tail(w.path)
             x == Walking(Entry(w), t, w.links)
  <2>1. h \in Component /\ t \in Names /\ <<h>> \in Names /\ w.path = <<h>> \o t
    BY <1>1, <1>5, FirstOf
  <2>2. ~Stuck(fs, "oneway", w) /\ Advance(fs, w) = x
    BY <1>5 DEF Stuck, Obstacle, IsLink, Absent, Advance
  <2>3. x \in Walks
    BY <1>5, <2>2, AdvanceTyped DEF Stuck
  <2>4. v \in Leads(fs, "oneway", x)
    <3>1. x \in Leads(fs, "oneway", w)
      BY <2>2, LeadsClosed DEF Closed
    <3> HIDE DEF x
    <3> QED
      BY <3>1, EndFromThere
  <2>5. x.at = Entry(w) /\ x.path = t /\ x.links = w.links
    BY DEF Walking
  <2> HIDE DEF x
  <2>6. v.links = w.links /\ v.at \o v.path = Entry(w) \o t /\ (Plain(v.path) => Plain(t))
    BY <1>5, <2>3, <2>4, <2>5, AbsentGoesDown
  <2>7. v.at = Entry(w) \o t /\ Plain(t)
    BY <1>2, <2>6
  <2>8. Plain(w.path)
    BY <1>1, <1>5, <2>7, PlainRest
  <2>9. Entry(w) = w.at \o <<h>>
    BY <1>1, <2>1, Appended DEF Entry
  <2> HIDE DEF h, t
  <2>10. (w.at \o <<h>>) \o t = w.at \o (<<h>> \o t)
    BY <1>1, <2>1, JoinedTwice
  <2> QED
    BY <2>1, <2>6, <2>7, <2>8, <2>9, <2>10
<1> QED
  BY <1>3, <1>4, <1>5

\* Resolutions start in a directory.
LEMMA RootReal ==
    ASSUME NEW fs, NEW path
    PROVE  Real(fs, StartOf(path).at)
BY DEF Real, StartOf, Walking

\* The resolution of two paths in turn starts as that of the first, with the second to go.
LEMMA StartOfBoth ==
    ASSUME NEW p \in Names, NEW q \in Names
    PROVE  Plus(StartOf(p), q) = StartOf(p \o q)
BY DEF Plus, StartOf, Walking

\* A path whose last existing entry leads nowhere: the resolution goes through the
\* target of that link, with fewer links behind it if it starts there.
LEMMA ThroughTheLink ==
    ASSUME NEW fs, IsTree(fs), NEW path \in Names,
           Canonicalize(fs, Existing(fs, path)).end # "found",
           NEW v \in Leads(fs, "oneway", StartOf(path)), v.path = <<>>
    PROVE  \E x \in Leads(fs, "oneway", StartOf(Existing(fs, path))) :
           \E y \in Leads(fs, "oneway", StartOf(Target(fs, path))) :
              /\ x.path = <<>> /\ y.path = <<>> /\ y.at = x.at /\ y.links < x.links
              /\ v \in Leads(fs, "oneway", Plus(x, Rest(fs, path)))
<1> DEFINE J == "oneway"
           e == Existing(fs, path)
           r == Rest(fs, path)
           p == Front(e)
           n == Last(e)
<1>1. e \in Names /\ r \in Names /\ path = e \o r /\ LStat(fs, e)
  BY KeptIs, ExistingIs
<1>2. PICK u \in Leads(fs, "fails", StartOf(p)) :
          /\ u.path = <<>> /\ n # ".."
          /\ EntryOf(fs, e).at = Append(u.at, n)
          /\ IsLink(fs, Append(u.at, n))
  BY <1>1, LeadsNowhere
<1>3. p \in Names /\ n \in Component /\ e = Append(p, n) /\ <<n>> \in Names
  <2>1. e # <<>>
    BY <1>1, LeadsNowhere
  <2> QED
    BY <1>1, <2>1, LastOf, Appended
<1> DEFINE entry == fs[Append(u.at, n)]
<1>4. entry.to \in Names /\ Target(fs, path) = IF entry.absolute THEN entry.to ELSE p \o entry.to
  BY <1>2 DEF IsLink, IsTree, Target, LinkTarget
<1> HIDE DEF e, r, p, n
<1>5. /\ StartOf(p) \in Walks /\ StartOf(e) \in Walks /\ StartOf(path) \in Walks
      /\ Plus(StartOf(e), r) = StartOf(path)
  BY <1>1, <1>3, WalkIs, StartOfBoth
<1> DEFINE w == Walking(u.at, <<n>>, u.links)
<1>6. w \in Leads(fs, "fails", StartOf(e)) /\ u \in Walks /\ w \in Walks
  <2>1. w \in Leads(fs, "fails", StartOf(e)) /\ u \in Walks
    BY <1>2, <1>3, OneNameMore
  <2> QED
    BY <1>5, <2>1, LeadsClosed
<1>7. w \in Leads(fs, J, StartOf(e)) /\ u \in Leads(fs, J, StartOf(p))
  BY <1>2, <1>5, <1>6, RootReal, FailsStaysReal
<1>8. w.path = <<n>> /\ w.path # <<>> /\ Head(w.path) = n /\ Tail(w.path) = <<>>
      /\ Entry(w) = Append(u.at, n) /\ w.at = u.at /\ w.links = u.links
  BY <1>3 DEF Walking, Entry
<1>9. ~Stuck(fs, J, w)
  <2> DEFINE q == w
  <2>1. q \in Walks /\ q.path # <<>> /\ q \in Leads(fs, J, StartOf(e))
    BY <1>6, <1>7, <1>8
  <2> HIDE DEF q, w
  <2>2. Plus(q, r) \in Leads(fs, J, StartOf(path)) /\ Plus(q, r) \in Walks
    <3>1. Plus(q, r) \in Leads(fs, J, Plus(StartOf(e), r))
      BY <1>1, <1>5, <2>1, PlusLeads
    <3>2. Plus(q, r) \in Walks
      BY <1>1, <2>1, PlusTyped
    <3> QED
      BY <1>5, <3>1, <3>2
  <2>3. v \in Leads(fs, J, Plus(q, r)) /\ Plus(q, r).path # <<>>
    BY <1>1, <1>5, <2>1, <2>2, EndFromThere, PlusGoesOn
  <2>4. ~Stuck(fs, J, Plus(q, r))
    BY <2>2, <2>3, LeadsFirst
  <2>5. ~Stuck(fs, J, q)
    BY <1>1, <2>1, <2>3, <2>4, PlusGoesOn DEF Stuck
  <2> QED
    BY <2>5 DEF q
<1> DEFINE a == IF entry.absolute THEN <<>> ELSE u.at
           z == Walking(a, entry.to, u.links + 1)
<1>10. Advance(fs, w) = z
  <2>1. entry.to \o <<>> = entry.to
    BY <1>4, Joined
  <2> QED
    BY <1>2, <1>8, <2>1 DEF Advance
<1>11. z \in Walks /\ z \in Leads(fs, J, StartOf(e))
  <2>1. Advance(fs, w) \in Leads(fs, J, StartOf(e))
    BY <1>5, <1>7, <1>9, LeadsClosed DEF Closed
  <2> QED
    BY <1>5, <1>10, <2>1, LeadsClosed
<1>12. z.at = a /\ z.path = entry.to /\ z.links = u.links + 1
  BY DEF Walking
<1> HIDE DEF w, z, a, entry
<1>13. v \in Leads(fs, J, Plus(z, r))
  <2>1. Plus(z, r) \in Leads(fs, J, StartOf(path))
    BY <1>1, <1>5, <1>11, PlusLeads
  <2> QED
    BY <1>5, <2>1, EndFromThere
<1>14. PICK x \in Leads(fs, J, z) : x.path = <<>> /\ v \in Leads(fs, J, Plus(x, r))
  BY <1>1, <1>11, <1>13, PlusSplits
<1>15. x \in Leads(fs, J, StartOf(e)) /\ x \in Walks
  BY <1>5, <1>11, <1>14, LeadsOn, LeadsClosed
<1>16. u.links \in Nat /\ x.links \in Nat
  BY <1>6, <1>15, WalkTyped
<1>17. \E k \in 1 .. z.links : Spared(z, k) \in Leads(fs, J, StartOf(Target(fs, path)))
  <2>1. CASE entry.absolute
    <3>1. Spared(z, u.links + 1) = StartOf(entry.to)
      <4>1. (u.links + 1) - (u.links + 1) = 0
        BY <1>16
      <4> QED
        BY <1>12, <2>1, <4>1 DEF Spared, Walking, StartOf, a
    <3>2. StartOf(entry.to) \in Leads(fs, J, StartOf(entry.to))
      BY <1>4, WalkIs, LeadsClosed
    <3>3. u.links + 1 \in 1 .. z.links
      BY <1>12, <1>16
    <3> QED
      BY <1>4, <2>1, <3>1, <3>2, <3>3
  <2>2. CASE ~entry.absolute
    <3>1. Spared(z, 1) = Plus(u, entry.to)
      <4>1. <<>> \o entry.to = entry.to /\ (u.links + 1) - 1 = u.links
        BY <1>4, <1>16, Joined
      <4> QED
        BY <1>2, <1>12, <2>2, <4>1 DEF Spared, Plus, Walking, a
    <3>2. Plus(u, entry.to) \in Leads(fs, J, StartOf(p \o entry.to))
      BY <1>3, <1>4, <1>5, <1>7, PlusLeads, StartOfBoth
    <3>3. 1 \in 1 .. z.links
      BY <1>12, <1>16
    <3> QED
      BY <1>4, <2>2, <3>1, <3>2, <3>3
  <2> QED
    BY <2>1, <2>2
<1>18. PICK k \in 1 .. z.links : Spared(z, k) \in Leads(fs, J, StartOf(Target(fs, path)))
  BY <1>17
<1>19. Spared(x, k) \in Leads(fs, J, Spared(z, k)) /\ x.links >= z.links
  BY <1>11, <1>14, SparedLeads
<1>20. Spared(x, k) \in Leads(fs, J, StartOf(Target(fs, path)))
  <2>1. Target(fs, path) \in Names
    BY TargetTyped
  <2>2. StartOf(Target(fs, path)) \in Walks
    BY <2>1, WalkIs
  <2> QED
    BY <1>18, <1>19, <2>2, LeadsOn
<1>21. Spared(x, k).path = <<>> /\ Spared(x, k).at = x.at /\ Spared(x, k).links < x.links
  BY <1>14, <1>16 DEF Spared, Walking
<1> QED
  BY <1>14, <1>15, <1>20, <1>21 DEF e, r

\* A call answers what the kernel does, if the calls one hop on do for paths with fewer links.
LEMMA OneHop ==
    ASSUME NEW fs, IsTree(fs), NEW path \in Names, NEW h \in Nat,
           NEW v \in Leads(fs, "oneway", StartOf(path)), v.path = <<>>,
           h + v.links <= MaxHops,
           \A p \in Names : \A u \in Leads(fs, "oneway", StartOf(p)) :
              u.path = <<>> /\ u.links < v.links =>
                 Judgement(fs)[[path |-> p, hops |-> h + 1]] = Resolved(u.at)
    PROVE  Judgement(fs)[[path |-> path, hops |-> h]] = Resolved(v.at)
<1> DEFINE J == "oneway"
           e == Existing(fs, path)
           r == Rest(fs, path)
           c == Canonicalize(fs, e)
           base == IF c.end = "found" THEN c
                   ELSE Judgement(fs)[[path |-> Target(fs, path), hops |-> h + 1]]
<1>1. /\ e \in Names /\ r \in Names /\ path = e \o r
      /\ r # <<>> => Head(r) \in Component /\ ~LStat(fs, Append(e, Head(r)))
  BY ExistingIs
<1> HIDE DEF e, r
<1>2. /\ StartOf(e) \in Walks /\ StartOf(path) \in Walks /\ Plus(StartOf(e), r) = StartOf(path)
      /\ v \in Walks
  <2>1. StartOf(e) \in Walks /\ StartOf(path) \in Walks /\ Plus(StartOf(e), r) = StartOf(path)
    BY <1>1, WalkIs, StartOfBoth
  <2> QED
    BY <2>1, LeadsClosed
<1>3. v.links \in Nat /\ h <= MaxHops /\ h \in 0 .. MaxHops + 1
  <2>1. v.links \in Nat /\ MaxHops \in Nat
    BY <1>2, WalkTyped, HopsAssumption
  <2> QED
    BY <2>1
<1>4. Judgement(fs)[[path |-> path, hops |-> h]] = WithTail(base, TailNames(fs, path))
  <2> DEFINE w == [path |-> path, hops |-> h]
  <2>1. w \in Calls /\ w.path = path /\ w.hops = h
    BY <1>3 DEF Calls
  <2>2. ~(w.hops > MaxHops)
    BY <1>3, <2>1, HopsAssumption
  <2> HIDE DEF w
  <2>3. Judgement(fs)[w] = Judge(fs, Judgement(fs), w)
    BY <2>1, JudgementIs
  <2> QED
    BY <2>1, <2>2, <2>3 DEF Judge, w, e
<1>5. SUFFICES \E u \in Walks :
                  /\ u.path = <<>> /\ v \in Leads(fs, J, Plus(u, r))
                  /\ r = <<>> \/ Absent(fs, u.at) \/ (Head(r) # ".." /\ Absent(fs, Append(u.at, Head(r))))
                  /\ base = Resolved(u.at)
  <2> HIDE DEF base
  <2>1. PICK u \in Walks :
            /\ u.path = <<>> /\ v \in Leads(fs, J, Plus(u, r))
            /\ r = <<>> \/ Absent(fs, u.at) \/ (Head(r) # ".." /\ Absent(fs, Append(u.at, Head(r))))
            /\ base = Resolved(u.at)
    BY <1>5
  <2> DEFINE w == Plus(u, r)
  <2>2. w \in Walks /\ w.at = u.at /\ w.path = r
    <3>1. w \in Walks /\ w.at = u.at /\ w.path = u.path \o r
      BY <1>1, <2>1, PlusTyped
    <3>2. <<>> \o r = r
      BY <1>1, EmptyPath
    <3> QED
      BY <2>1, <3>1, <3>2
  <2>3. Entry(w) = Append(u.at, Head(r))
    BY <2>2 DEF Entry
  <2> HIDE DEF w
  <2>4. v \in Leads(fs, J, w)
    BY <2>1 DEF w
  <2>5. v.at = u.at \o r /\ Plain(r)
    BY <2>1, <2>2, <2>3, <2>4, ComesDown
  <2>6. TailNames(fs, path) = r
    BY <2>5, TailPutBack DEF r
  <2> QED
    BY <1>4, <2>1, <2>5, <2>6 DEF WithTail, Resolved
<1>6. CASE c.end = "found"
  <2>1. PICK u \in Leads(fs, "fails", StartOf(e)) : u.path = <<>>
    BY <1>1, <1>6, WalkFound DEF Canonicalize
  <2>2. c = Resolved(u.at) /\ u \in Walks
    BY <1>1, <1>2, <2>1, WalkFound, LeadsClosed DEF Canonicalize
  <2>3. u \in Leads(fs, J, StartOf(e))
    BY <1>2, <2>1, RootReal, FailsStaysReal
  <2>4. v \in Leads(fs, J, Plus(u, r))
    <3>1. Plus(u, r) \in Leads(fs, J, StartOf(path))
      BY <1>1, <1>2, <2>3, PlusLeads
    <3> QED
      BY <1>2, <3>1, EndFromThere
  <2>5. r # <<>> => Head(r) # ".." /\ Absent(fs, Append(u.at, Head(r)))
    BY <1>1, <2>1, NoEntry
  <2> QED
    BY <1>6, <2>1, <2>2, <2>4, <2>5
<1>7. CASE c.end # "found"
  <2>1. PICK x \in Leads(fs, J, StartOf(e)), y \in Leads(fs, J, StartOf(Target(fs, path))) :
            /\ x.path = <<>> /\ y.path = <<>> /\ y.at = x.at /\ y.links < x.links
            /\ v \in Leads(fs, J, Plus(x, r))
    BY <1>7, ThroughTheLink DEF e, r
  <2>2. x \in Walks
    BY <1>2, LeadsClosed
  <2>3. y.links < v.links
    <3>1. Plus(x, r) \in Walks /\ Plus(x, r).links = x.links
      BY <1>1, <2>2, PlusTyped
    <3>2. 0 \in 0 .. x.links /\ x.links \in Nat
      BY <2>2, WalkTyped
    <3>3. v.links >= x.links
      BY <2>1, <3>1, <3>2, SparedLeads
    <3>4. Target(fs, path) \in Names
      BY <1>7, TargetTyped DEF e
    <3>5. y \in Walks
      BY <3>4, WalkIs, LeadsClosed
    <3>6. y.links \in Nat
      BY <3>5, WalkTyped
    <3> QED
      BY <1>3, <2>1, <3>2, <3>3, <3>6
  <2>4. Judgement(fs)[[path |-> Target(fs, path), hops |-> h + 1]] = Resolved(x.at)
    <3>1. Target(fs, path) \in Names
      BY <1>7, TargetTyped DEF e
    <3> QED
      BY <2>1, <2>3, <3>1
  <2>5. Absent(fs, x.at)
    <3>1. x \notin Leads(fs, "fails", StartOf(e))
      BY <1>1, <1>7, <2>1, WalkFound DEF Canonicalize, Resolved
    <3> QED
      BY <1>2, <3>1, FoundOrAbsent
  <2> QED
    BY <1>7, <2>1, <2>2, <2>4, <2>5
<1> QED
  BY <1>6, <1>7

\* So every call does that has hops left for the links; there is no first one that doesn't.
LEMMA JudgementAgrees ==
    ASSUME NEW fs, IsTree(fs)
    PROVE  \A path \in Names, h \in Nat : \A v \in Leads(fs, "oneway", StartOf(path)) :
              v.path = <<>> /\ h + v.links <= MaxHops =>
                 Judgement(fs)[[path |-> path, hops |-> h]] = Resolved(v.at)
<1> DEFINE J == "oneway"
           Wrong(path, h, v) == /\ v.path = <<>> /\ h + v.links <= MaxHops
                                /\ Judgement(fs)[[path |-> path, hops |-> h]] # Resolved(v.at)
           Bad == {n \in Nat : \E path \in Names, h \in Nat :
                                  \E v \in Leads(fs, J, StartOf(path)) : v.links = n /\ Wrong(path, h, v)}
<1>1. \A path \in Names : \A v \in Leads(fs, J, StartOf(path)) : v.links \in Nat
  <2> SUFFICES ASSUME NEW path \in Names, NEW v \in Leads(fs, J, StartOf(path))
               PROVE  v.links \in Nat
    OBVIOUS
  <2>1. v \in Walks
    BY WalkIs, LeadsClosed
  <2> QED
    BY <2>1, WalkTyped
<1>2. SUFFICES Bad = {}
  BY <1>1
<1> SUFFICES ASSUME Bad # {} PROVE FALSE
  OBVIOUS
<1>3. PICK n \in Bad : \A m \in Bad : n <= m
  <2>1. Bad \in SUBSET Nat
    OBVIOUS
  <2> HIDE DEF Bad
  <2> QED
    BY <2>1, Least
<1>4. PICK path \in Names, h \in Nat : \E v \in Leads(fs, J, StartOf(path)) : v.links = n /\ Wrong(path, h, v)
  BY <1>3
<1>5. PICK v \in Leads(fs, J, StartOf(path)) : v.links = n /\ Wrong(path, h, v)
  BY <1>4
<1>6. ASSUME NEW p \in Names, NEW u \in Leads(fs, J, StartOf(p)), u.path = <<>>, u.links < v.links
      PROVE  Judgement(fs)[[path |-> p, hops |-> h + 1]] = Resolved(u.at)
  <2>1. u.links \in Nat /\ n \in Nat /\ ~(n <= u.links) /\ h + 1 \in Nat
    BY <1>1, <1>5, <1>6
  <2>2. u.links \notin Bad
    <3> HIDE DEF Bad
    <3> QED
      BY <1>3, <2>1
  <2>3. (h + 1) + u.links <= MaxHops
    BY <1>5, <1>6, <2>1, HopsAssumption
  <2>4. ~Wrong(p, h + 1, u)
    <3> HIDE DEF Wrong
    <3> QED
      BY <2>1, <2>2
  <2> QED
    BY <1>6, <2>3, <2>4
<1>7. Judgement(fs)[[path |-> path, hops |-> h]] = Resolved(v.at)
  <2> HIDE DEF Bad
  <2> QED
    BY <1>5, <1>6, OneHop
<1> QED
  BY <1>5, <1>7

\* The resolution of a path that leaves no missing name comes to its end either way.
LEMMA JudgedWhole ==
    ASSUME NEW fs, IsTree(fs), NEW path \in Names,
           Locate(fs, path).end = "found", ~BackFromMissing(fs, path)
    PROVE  \E v \in Leads(fs, "oneway", StartOf(path)) :
              v.path = <<>> /\ Locate(fs, path) = Resolved(v.at)
<1> DEFINE w == StartOf(path)
           v == End(fs, "oneway", w)
<1>1. /\ w \in Walks
      /\ Walk(fs, path, "oneway") = Outcome(fs, "oneway", v)
      /\ Walk(fs, path, "made") = Outcome(fs, "made", End(fs, "made", w))
  BY WalkIs
<1>2. v \in Leads(fs, "oneway", w) /\ Stuck(fs, "oneway", v)
  BY <1>1, EndIs
<1>3. v \in Leads(fs, "made", w)
  BY <1>1, <1>2, JudgedIsMade
<1> HIDE DEF w, v
<1>4. v.path = <<>>
  <2> SUFFICES ASSUME v.path # <<>> PROVE FALSE
    OBVIOUS
  <2>1. Obstacle(fs, v, "oneway") # "back"
    BY <1>1 DEF BackFromMissing, Outcome, Failed
  <2>2. Obstacle(fs, v, "made") = "loop" /\ Stuck(fs, "made", v)
    BY <1>2, <2>1 DEF Stuck, Obstacle
  <2>3. End(fs, "made", w) = v
    BY <1>1, <1>3, <2>2, EndIs
  <2> QED
    BY <1>1, <2>2, <2>3 DEF Locate, Outcome, Failed
<1>5. Locate(fs, path) = Resolved(v.at)
  BY <1>3, <1>4, WalkFound DEF Locate, w
<1> QED
  BY <1>2, <1>4, <1>5 DEF w

\* The guard works out where data written under a path would be, through any chain of
\* links the kernel would follow.
THEOREM GuardFollowsTheKernel ==
    ASSUME NEW fs, IsTree(fs), NEW path \in Names,
           Locate(fs, path).end = "found", ~BackFromMissing(fs, path)
    PROVE  CanonicalizeWithNonexistent(fs, path) = Locate(fs, path)
<1>1. PICK v \in Leads(fs, "oneway", StartOf(path)) :
          v.path = <<>> /\ Locate(fs, path) = Resolved(v.at)
  BY JudgedWhole
<1>2. v.links \in Nat /\ 0 + v.links <= MaxHops
  <2>1. v \in Walks
    BY WalkIs, LeadsClosed
  <2>2. v.links \in Nat /\ v.links <= MaxLinks
    BY <2>1, WalkTyped
  <2> QED
    BY <2>2, HopsAssumption
<1>3. 0 \in Nat
  OBVIOUS
<1>4. Judgement(fs)[[path |-> path, hops |-> 0]] = Resolved(v.at)
  BY <1>1, <1>2, <1>3, JudgementAgrees
<1> QED
  BY <1>1, <1>4, GuardIsJudgement

-----------------------------------------------------------------------------
(* A tree that grows by directories                                        *)

\* A tree that has more directories than another, and is the same otherwise.
Grown(fs, g) ==
    /\ IsTree(fs) /\ IsTree(g)
    /\ \A p \in DOMAIN fs : p \in DOMAIN g /\ g[p] = fs[p]
    /\ \A p \in DOMAIN g : p \notin DOMAIN fs => g[p] = Dir

\* What is found stays where it was found.
LEMMA FoundStays ==
    ASSUME NEW fs, NEW g, Grown(fs, g), NEW w \in Walks, NEW v \in Leads(fs, "fails", w)
    PROVE  v \in Leads(g, "fails", w)
<1> DEFINE U == {u \in Walks : u \in Leads(g, "fails", w)}
<1>1. w \in U /\ U \in SUBSET Walks
  BY LeadsClosed DEF Grown
<1>2. ASSUME NEW u \in U, ~Stuck(fs, "fails", u)
      PROVE  Advance(fs, u) \in U
  <2>1. Advance(fs, u) \in Walks
    BY <1>2, AdvanceTyped DEF Stuck, Grown
  <2>2. Head(u.path) # ".." => Entry(u) \in DOMAIN fs
    <3>1. Entry(u) # <<>> \/ u.path = <<>>
      BY WalkTyped, FirstOf, Appended DEF Entry
    <3> QED
      BY <1>2, <3>1 DEF Stuck, Obstacle, Absent
  <2>3. ~Stuck(g, "fails", u) /\ Advance(g, u) = Advance(fs, u)
    BY <1>2, <2>2 DEF Stuck, Obstacle, Advance, IsLink, Absent, Grown
  <2> QED
    BY <1>2, <2>1, <2>3, LeadsClosed DEF Closed, Grown
<1>3. Closed(fs, "fails", U)
  BY <1>2 DEF Closed
<1>4. v \in U
  <2> HIDE DEF U
  <2> QED
    BY <1>1, <1>3, LeadsLeast
<1> QED
  BY <1>4

\* Neither does what a path that is found stands for.
LEMMA CanonicalStays ==
    ASSUME NEW fs, NEW g, Grown(fs, g), NEW path \in Names, Canonicalize(fs, path).end = "found"
    PROVE  Canonicalize(g, path) = Canonicalize(fs, path)
<1>1. PICK v \in Leads(fs, "fails", StartOf(path)) : v.path = <<>>
  BY WalkFound DEF Canonicalize, Grown
<1>2. StartOf(path) \in Walks /\ v \in Leads(g, "fails", StartOf(path))
  BY <1>1, WalkIs, FoundStays DEF Grown
<1> QED
  BY <1>1, <1>2, WalkFound DEF Canonicalize, Grown

\* A directory that exists is where the guard says, and nothing is missing on the way.
LEMMA ExistsClear ==
    ASSUME NEW fs, IsTree(fs), NEW path \in Names, Canonicalize(fs, path).end = "found"
    PROVE  CanonicalizeWithNonexistent(fs, path) = Canonicalize(fs, path)
<1>1. PICK v \in Leads(fs, "fails", StartOf(path)) : v.path = <<>>
  BY WalkFound DEF Canonicalize
<1>2. StartOf(path) \in Walks /\ v \in Leads(fs, "oneway", StartOf(path))
  BY <1>1, WalkIs, RootReal, FailsStaysReal
<1>3. v \in Leads(fs, "made", StartOf(path))
  BY <1>2, JudgedIsMade
<1>4. Locate(fs, path) = Resolved(v.at) /\ Canonicalize(fs, path) = Resolved(v.at)
      /\ ~BackFromMissing(fs, path)
  BY <1>1, <1>2, <1>3, WalkFound DEF Locate, Canonicalize, BackFromMissing, Resolved
<1> QED
  BY <1>4, GuardFollowsTheKernel DEF Resolved

\* Names that are taken as written, from a directory in which the first doesn't exist.
LEMMA PlainDown ==
    ASSUME NEW fs, NEW g, Grown(fs, g), NEW w \in Walks, Plain(w.path),
           w.path # <<>> => Absent(fs, Entry(w))
    PROVE  \E v \in Leads(g, "oneway", w) :
              /\ v.path = <<>> /\ v.at = w.at \o w.path /\ v.links = w.links
              /\ w.path # <<>> => Absent(fs, v.at)
<1> DEFINE Down(u) == /\ u.at \o u.path = w.at \o w.path /\ u.links = w.links
                      /\ Plain(u.path)
                      /\ u = w \/ Absent(fs, u.at)
           U == {u \in Leads(g, "oneway", w) : Down(u)}
           v == End(g, "oneway", w)
<1>1. w \in U /\ U \in SUBSET Walks
  BY LeadsClosed DEF Grown
<1>2. ASSUME NEW u \in U, u.path # <<>>
      PROVE  /\ Head(u.path) # ".." /\ Head(u.path) \in Component
             /\ Absent(fs, Entry(u)) /\ ~IsLink(g, Entry(u)) /\ Obstacle(g, u, "oneway") = "none"
  <2>1. u \in Walks /\ u.at \in Names /\ u.path \in Names
    BY <1>1, WalkTyped
  <2>2. Head(u.path) # ".." /\ Head(u.path) \in Component
    BY <1>2, <2>1, FirstOf, PlainRest
  <2>3. Absent(fs, Entry(u))
    BY <1>2, <2>1, <2>2, AbsentUnder DEF Entry, Grown
  <2>4. ~IsLink(g, Entry(u))
    BY <2>3 DEF IsLink, Absent, Grown, Dir
  <2> QED
    BY <2>2, <2>3, <2>4 DEF Obstacle
<1>3. ASSUME NEW u \in U, ~Stuck(g, "oneway", u)
      PROVE  Advance(g, u) \in U
  <2>1. u.path # <<>> /\ u \in Walks /\ u.at \in Names /\ u.path \in Names
    BY <1>1, <1>3, WalkTyped DEF Stuck
  <2>2. /\ Head(u.path) # ".." /\ Head(u.path) \in Component
        /\ Absent(fs, Entry(u)) /\ ~IsLink(g, Entry(u))
    BY <1>2, <2>1
  <2> DEFINE h == Head(u.path)
             t == Tail(u.path)
             x == Walking(Entry(u), t, u.links)
  <2>3. Advance(g, u) = x
    BY <2>2 DEF Advance
  <2>4. x \in Leads(g, "oneway", w)
    BY <1>3, <2>3, LeadsClosed DEF Closed, Grown
  <2>5. x.at = Entry(u) /\ x.path = t /\ x.links = u.links
    BY DEF Walking
  <2>6. t \in Names /\ <<h>> \in Names /\ u.path = <<h>> \o t /\ Entry(u) = u.at \o <<h>> /\ Plain(t)
    BY <1>3, <2>1, <2>2, FirstOf, Appended, PlainRest DEF Entry
  <2> HIDE DEF x, h, t
  <2>7. (u.at \o <<h>>) \o t = u.at \o (<<h>> \o t)
    BY <2>1, <2>6, JoinedTwice
  <2>8. x.at \o x.path = w.at \o w.path
    BY <1>3, <2>5, <2>6, <2>7
  <2>9. Down(x)
    BY <1>3, <2>2, <2>5, <2>6, <2>8
  <2> QED
    BY <2>3, <2>4, <2>9
<1>4. Closed(g, "oneway", U)
  BY <1>3 DEF Closed
<1>5. v \in Leads(g, "oneway", w) /\ Stuck(g, "oneway", v)
  BY EndIs DEF Grown
<1> HIDE DEF v
<1>6. v \in U
  <2> HIDE DEF U
  <2> QED
    BY <1>1, <1>4, <1>5, LeadsLeast
<1>7. v.path = <<>>
  BY <1>2, <1>5, <1>6 DEF Stuck
<1>8. v.at = w.at \o w.path
  <2>1. v.at \in Names
    BY <1>1, <1>6, WalkTyped
  <2> QED
    BY <1>6, <1>7, <2>1, EmptyPath
<1> QED
  BY <1>5, <1>6, <1>7, <1>8
\* The first names of two paths in turn.
LEMMA PrefixIs ==
    ASSUME NEW p \in Names, NEW q \in Names
    PROVE  SubSeq(p \o q, 1, Len(p)) = p
<1> DEFINE r == p \o q
           k == Len(p)
           S == Component
<1>1. k \in Nat /\ Len(q) \in Nat /\ r \in Seq(S) /\ p \in Seq(S) /\ Len(r) = k + Len(q)
  BY Joined DEF Names
<1>2. \A i \in 1 .. k : r[i] = p[i]
  BY <1>1, ConcatProperties DEF Names
<1>3. SubSeq(r, 1, k) \in Seq(S) /\ Len(SubSeq(r, 1, k)) = k /\ \A i \in 1 .. k : SubSeq(r, 1, k)[i] = r[i]
  <2>1. r \in Names /\ k \in 0 .. Len(r)
    BY <1>1 DEF Names
  <2> HIDE DEF r, k
  <2> QED
    BY <2>1, PathAt DEF Names
<1> HIDE DEF r, k, S
<1>4. SubSeq(r, 1, k) = p
  <2>1. Len(p) = k
    BY DEF k
  <2> QED
    BY <1>1, <1>2, <1>3, <2>1, SeqEqual
<1> QED
  BY <1>4 DEF r, k

\* A directory that can be made: where its last existing name is, and that the rest
\* are names that lie nowhere yet, one under the other.
Makes(fs, path, u) ==
    LET e == Existing(fs, path)
        r == Rest(fs, path)
    IN /\ u \in Leads(fs, "fails", StartOf(e)) /\ u.path = <<>>
       /\ Plain(r)
       /\ r # <<>> => Absent(fs, Append(u.at, Head(r)))

\* A directory that can be made without ".." out of what is missing is made so.
LEMMA MakesIs ==
    ASSUME NEW fs, IsTree(fs), NEW path \in Names,
           Creatable(fs, path), ~BackFromMissing(fs, path)
    PROVE  \E u \in Walks : Makes(fs, path, u)
<1> DEFINE e == Existing(fs, path)
           r == Rest(fs, path)
<1>1. e \in Names /\ r \in Names /\ path = e \o r
      /\ (r # <<>> => Head(r) \in Component /\ ~LStat(fs, Append(e, Head(r))))
  BY ExistingIs
<1>2. PICK u \in Leads(fs, "fails", StartOf(e)) : u.path = <<>>
  BY <1>1, WalkFound DEF Creatable, Canonicalize
<1>3. r # <<>> => Head(r) # ".." /\ Absent(fs, Append(u.at, Head(r)))
  BY <1>1, <1>2, NoEntry
<1> HIDE DEF e, r
<1> DEFINE w == Plus(u, r)
           v == End(fs, "oneway", w)
<1>4. StartOf(e) \in Walks /\ StartOf(path) \in Walks /\ Plus(StartOf(e), r) = StartOf(path) /\ u \in Walks
  <2>1. StartOf(e) \in Walks /\ StartOf(path) \in Walks /\ Plus(StartOf(e), r) = StartOf(path)
    BY <1>1, WalkIs, StartOfBoth
  <2> QED
    BY <1>2, <2>1, LeadsClosed
<1>5. w \in Walks /\ w.at = u.at /\ w.path = r
  <2>1. w \in Walks /\ w.at = u.at /\ w.path = u.path \o r
    BY <1>1, <1>4, PlusTyped
  <2> QED
    BY <1>1, <1>2, <2>1, EmptyPath
<1>6. w \in Leads(fs, "oneway", StartOf(path))
  <2>1. u \in Leads(fs, "oneway", StartOf(e))
    BY <1>2, <1>4, RootReal, FailsStaysReal
  <2> QED
    BY <1>1, <1>4, <2>1, PlusLeads
<1>7. Entry(w) = Append(u.at, Head(r))
  BY <1>5 DEF Entry
<1> HIDE DEF w
<1>8. v \in Leads(fs, "oneway", w) /\ Stuck(fs, "oneway", v) /\ v = End(fs, "oneway", StartOf(path))
  BY <1>4, <1>5, <1>6, EndIs, EndStays
<1> HIDE DEF v
<1>9. v.path = <<>>
  <2> SUFFICES ASSUME v.path # <<>> PROVE FALSE
    OBVIOUS
  <2>1. Obstacle(fs, v, "oneway") # "back"
    <3>1. Walk(fs, path, "oneway") = Outcome(fs, "oneway", v)
      BY <1>1, <1>8, WalkIs
    <3> QED
      BY <3>1 DEF BackFromMissing, Outcome, Failed
  <2>2. v \in Walks /\ v.at \in Names /\ v.path \in Names
    BY <1>5, <1>8, LeadsClosed, WalkTyped
  <2>3. Head(v.path) # ".." /\ IsLink(fs, Entry(v)) /\ Head(v.path) \in Component
    BY <1>8, <2>1, <2>2, FirstOf DEF Stuck, Obstacle
  <2>4. v # w /\ r # <<>>
    <3>1. v = w => r # <<>>
      BY <1>5
    <3>2. v # w
      BY <1>3, <1>5, <1>7, <2>3, <3>1 DEF IsLink, Absent
    <3>3. ~Stuck(fs, "oneway", w)
      BY <1>5, <1>8, <3>2, LeadsFirst
    <3> QED
      BY <1>5, <3>2, <3>3 DEF Stuck
  <2> DEFINE x == Advance(fs, w)
  <2>5. ~Stuck(fs, "oneway", w) /\ x \in Walks /\ v \in Leads(fs, "oneway", x)
    <3>1. ~Stuck(fs, "oneway", w)
      BY <1>5, <1>8, <2>4, LeadsFirst
    <3> QED
      BY <1>5, <1>8, <2>4, <3>1, LeadsFirst, AdvanceTyped DEF Stuck
  <2>6. x.at = Entry(w)
    BY <1>3, <1>5, <1>7, <2>4 DEF Advance, IsLink, Absent, Walking
  <2> HIDE DEF x
  <2>7. Absent(fs, v.at)
    BY <1>3, <1>7, <2>4, <2>5, <2>6, AbsentGoesDown
  <2> QED
    BY <2>2, <2>3, <2>7, AbsentUnder DEF Entry
<1>10. Plain(r)
  BY <1>3, <1>5, <1>7, <1>8, <1>9, ComesDown
<1> QED
  BY <1>2, <1>3, <1>4, <1>10 DEF Makes, e, r

\* Whether the kernel comes from path to at, with nothing missing that is left by "..".
Comes(fs, path, at) ==
    /\ \E v \in Leads(fs, "oneway", StartOf(path)) : v.path = <<>> /\ v.at = at
    /\ Locate(fs, path) = Resolved(at)

\* Where the first of its missing names are, now and in a tree that has more of them.
LEMMA MakesDown ==
    ASSUME NEW fs, NEW g, Grown(fs, g), NEW path \in Names, NEW u \in Walks, Makes(fs, path, u),
           NEW e \in Names, e = Existing(fs, path), NEW p \in Names, NEW s \in Names,
           p \o s = Rest(fs, path)
    PROVE  /\ Comes(g, e \o p, u.at \o p)
           /\ p # <<>> => Absent(fs, u.at \o p)
<1> DEFINE w == Plus(u, p)
           r == Rest(fs, path)
<1>1. e \in Names /\ r \in Names /\ u.at \in Names /\ Plain(r)
  BY ExistingIs, WalkTyped DEF Makes
<1>2. u \in Leads(g, "oneway", StartOf(e)) /\ StartOf(e) \in Walks
  <2>1. u \in Leads(fs, "fails", StartOf(e)) /\ StartOf(e) \in Walks
    BY <1>1, WalkIs DEF Makes, Grown
  <2>2. u \in Leads(g, "fails", StartOf(e))
    BY <2>1, FoundStays
  <2> QED
    BY <2>1, <2>2, RootReal, FailsStaysReal DEF Grown
<1>3. w \in Walks /\ w.at = u.at /\ w.path = p
  <2>1. w \in Walks /\ w.at = u.at /\ w.path = u.path \o p
    BY PlusTyped
  <2> QED
    BY <2>1, EmptyPath DEF Makes
<1>4. w \in Leads(g, "oneway", StartOf(e \o p)) /\ StartOf(e \o p) \in Walks /\ e \o p \in Names
  <2>1. e \o p \in Names /\ Plus(StartOf(e), p) = StartOf(e \o p)
    BY <1>1, Joined, StartOfBoth
  <2>2. w \in Leads(g, "oneway", Plus(StartOf(e), p))
    BY <1>2, PlusLeads DEF Grown
  <2> QED
    BY <2>1, <2>2, WalkIs DEF Grown
<1>5. Plain(p) /\ (p # <<>> => Absent(fs, Entry(w)))
  <2>1. Len(p) \in Nat /\ Len(s) \in Nat /\ p \in Seq(Component) /\ s \in Seq(Component)
    BY DEF Names
  <2>2. \A i \in 1 .. Len(p) : r[i] = p[i] /\ i \in 1 .. Len(r)
    BY <2>1, ConcatProperties
  <2>3. Plain(p)
    BY <1>1, <2>2 DEF Plain
  <2>4. p # <<>> => r # <<>> /\ Head(r) = Head(p)
    BY Joined
  <2>5. Entry(w) = Append(u.at, Head(p))
    BY <1>3 DEF Entry
  <2> QED
    BY <2>3, <2>4, <2>5 DEF Makes
<1> HIDE DEF w, r
<1>6. PICK v \in Leads(g, "oneway", w) :
          /\ v.path = <<>> /\ v.at = w.at \o w.path
          /\ w.path # <<>> => Absent(fs, v.at)
  BY <1>3, <1>5, PlainDown
<1>7. v \in Leads(g, "oneway", StartOf(e \o p)) /\ v \in Leads(g, "made", StartOf(e \o p))
  <2>1. v \in Leads(g, "oneway", StartOf(e \o p))
    BY <1>4, <1>6, LeadsOn DEF Grown
  <2> QED
    BY <1>4, <2>1, JudgedIsMade DEF Grown
<1>8. Locate(g, e \o p) = Resolved(v.at)
  <2> DEFINE q == e \o p
  <2>1. q \in Names /\ v \in Leads(g, "made", StartOf(q))
    BY <1>4, <1>7
  <2> HIDE DEF q
  <2>2. IsTree(g) /\ v.path = <<>>
    BY <1>6 DEF Grown
  <2>3. Walk(g, q, "made") = Resolved(v.at)
    BY <2>1, <2>2, WalkFound
  <2>4. Locate(g, q) = Resolved(v.at)
    BY <2>3 DEF Locate
  <2> QED
    BY <2>4 DEF q
<1> QED
  BY <1>3, <1>6, <1>7, <1>8 DEF Comes
\* A function on an initial part of the numbers is a sequence.
LEMMA SequenceOf ==
    ASSUME NEW n \in Nat, NEW m, DOMAIN m = 1 .. n, m = [i \in 1 .. n |-> m[i]],
           NEW T, \A i \in 1 .. n : m[i] \in T
    PROVE  m \in Seq(T) /\ Len(m) = n
<1>1. m \in [1 .. n -> T]
  OBVIOUS
<1>2. m \in Seq(T)
  BY <1>1, SeqDef
<1>3. Len(m) \in Nat /\ 1 .. Len(m) = 1 .. n
  BY <1>2, LenProperties
<1> QED
  BY <1>2, <1>3

\* What the database makes: the missing names, each where it leads, and its own folder.
Made(fs, path) == Append(Missing(fs, path), Append(Locate(fs, path).at, "partitions"))

\* The directories that are made lie one under the other, and none of them is there yet.
LEMMA MadeIs ==
    ASSUME NEW fs, IsTree(fs), NEW path \in Names, NEW u \in Walks, Makes(fs, path, u)
    PROVE  LET r == Rest(fs, path)
           IN /\ r \in Names /\ Len(r) \in Nat
              /\ Locate(fs, path) = Resolved(u.at \o r)
              /\ Len(Made(fs, path)) = Len(r) + 1 /\ DOMAIN Made(fs, path) = 1 .. Len(r) + 1
              /\ \E S : Made(fs, path) \in Seq(S)
              /\ Made(fs, path)[Len(r) + 1] = Append(u.at \o r, "partitions")
              /\ \A i \in 1 .. Len(r) :
                    /\ Made(fs, path)[i] = u.at \o SubSeq(r, 1, i)
                    /\ SubSeq(r, 1, i) # <<>> /\ Absent(fs, u.at \o SubSeq(r, 1, i))
<1> DEFINE e == Existing(fs, path)
           r == Rest(fs, path)
           k == Kept(fs, path)
           n == TakenOff(fs, path)
           m == Missing(fs, path)
           last == Append(Locate(fs, path).at, "partitions")
<1>1. /\ e \in Names /\ r \in Names /\ path = e \o r /\ Len(r) = n /\ n \in Nat
      /\ k \in Nat /\ Len(path) \in Nat /\ k + n = Len(path) /\ Grown(fs, fs)
  <2>1. e \in Names /\ r \in Names /\ path = e \o r /\ Len(r) = n /\ Len(r) \in Nat
    BY ExistingIs DEF Names
  <2>2. k \in 0 .. Len(path) /\ Len(path) \in Nat /\ n = Len(path) - k
    BY KeptIs
  <2> QED
    BY <2>1, <2>2 DEF Grown
<1>2. Len(e) = k
  <2>1. Len(path) = Len(e) + Len(r)
    BY <1>1, Joined
  <2>2. Len(e) \in Nat
    BY <1>1 DEF Names
  <2> QED
    BY <1>1, <2>1, <2>2
<1>3. m = [i \in 1 .. n |-> Locate(fs, SubSeq(path, 1, k + i)).at]
      /\ e = Existing(fs, path) /\ r = Rest(fs, path)
  BY DEF Missing
<1> HIDE DEF e, k, n, m, r
<1>4. ASSUME NEW i \in 1 .. n
      PROVE  /\ Locate(fs, SubSeq(path, 1, k + i)) = Resolved(u.at \o SubSeq(r, 1, i))
             /\ SubSeq(r, 1, i) # <<>> /\ Absent(fs, u.at \o SubSeq(r, 1, i))
  <2> DEFINE p == SubSeq(r, 1, i)
             s == SubSeq(r, i + 1, Len(r))
  <2>1. p \in Names /\ s \in Names /\ r = p \o s /\ Len(p) = i
    <3>1. i \in 0 .. Len(r)
      BY <1>1
    <3> HIDE DEF r
    <3> QED
      BY <1>1, <3>1, PathAt
  <2>2. p # <<>>
    BY <2>1
  <2> HIDE DEF p, s
  <2>3. e \in Names /\ p \in Names /\ s \in Names /\ path = e \o r /\ r = p \o s
    BY <1>1, <2>1
  <2>4. Grown(fs, fs) /\ e = Existing(fs, path) /\ r = Rest(fs, path) /\ p \o s = r
    BY <1>1, <1>3, <2>3
  <2>5. Comes(fs, e \o p, u.at \o p) /\ Absent(fs, u.at \o p)
    BY <2>2, <2>3, <2>4, MakesDown
  <2>6. SubSeq(path, 1, k + i) = e \o p
    <3>1. e \o p \in Names /\ Len(e \o p) = k + i
      <4>1. e \o p \in Names /\ Len(e \o p) = Len(e) + Len(p)
        BY <2>3, Joined
      <4>2. Len(e) = k /\ Len(p) = i
        BY <1>2, <2>1
      <4> QED
        BY <4>1, <4>2
    <3>2. path = (e \o p) \o s
      <4>1. (e \o p) \o s = e \o (p \o s)
        BY <2>3, JoinedTwice
      <4> QED
        BY <2>3, <4>1
    <3> DEFINE q == e \o p
    <3>3. q \in Names /\ Len(q) = k + i /\ path = q \o s
      BY <3>1, <3>2
    <3> HIDE DEF q
    <3>4. SubSeq(path, 1, k + i) = q
      BY <2>1, <3>3, PrefixIs
    <3> QED
      BY <3>4 DEF q
  <2> QED
    BY <2>2, <2>5, <2>6 DEF p, Comes
<1>5. Locate(fs, path) = Resolved(u.at \o r)
  <2>1. r \o <<>> = r /\ <<>> \in Names
    BY <1>1, EmptyPath DEF Names
  <2>2. Grown(fs, fs) /\ e = Existing(fs, path) /\ r = Rest(fs, path) /\ r \in Names
    BY <1>1, <1>3
  <2>3. e \in Names
    BY <1>1
  <2>4. Comes(fs, e \o r, u.at \o r)
    BY <2>1, <2>2, <2>3, MakesDown
  <2> QED
    BY <1>1, <2>4 DEF Comes
<1>6. Locate(fs, path).at = u.at \o r
  BY <1>5 DEF Resolved
<1>7. \A i \in 1 .. n : m[i] = u.at \o SubSeq(r, 1, i)
  <2> SUFFICES ASSUME NEW i \in 1 .. n PROVE m[i] = u.at \o SubSeq(r, 1, i)
    OBVIOUS
  <2>1. m[i] = Locate(fs, SubSeq(path, 1, k + i)).at
    BY <1>3
  <2>2. Locate(fs, SubSeq(path, 1, k + i)) = Resolved(u.at \o SubSeq(r, 1, i))
    BY <1>4
  <2> QED
    BY <2>1, <2>2 DEF Resolved
<1> DEFINE T == {m[i] : i \in 1 .. n}
<1>8. m \in Seq(T) /\ Len(m) = n
  <2>1. \A i \in 1 .. n : m[i] \in T
    OBVIOUS
  <2>2. DOMAIN m = 1 .. n /\ m = [i \in 1 .. n |-> m[i]]
    BY <1>3
  <2> HIDE DEF T
  <2> QED
    BY <1>1, <2>1, <2>2, SequenceOf
<1> HIDE DEF last
<1>9. /\ Len(Append(m, last)) = n + 1 /\ DOMAIN Append(m, last) = 1 .. n + 1
      /\ Append(m, last)[n + 1] = last /\ (\E S : Append(m, last) \in Seq(S))
      /\ \A i \in 1 .. n : Append(m, last)[i] = m[i]
  <2> DEFINE S == T \cup {last}
  <2>1. m \in Seq(S) /\ last \in S
    <3>1. T \subseteq S /\ last \in S
      OBVIOUS
    <3> HIDE DEF S, T
    <3> QED
      BY <1>8, <3>1, SeqMonotonic
  <2> HIDE DEF S
  <2>2. /\ Append(m, last) \in Seq(S) /\ Len(Append(m, last)) = Len(m) + 1
        /\ Append(m, last)[Len(m) + 1] = last
        /\ \A i \in 1 .. Len(m) : Append(m, last)[i] = m[i]
    BY <2>1, AppendProperties
  <2>3. DOMAIN Append(m, last) = 1 .. Len(m) + 1
    BY <2>2, LenProperties
  <2> QED
    BY <1>1, <1>8, <2>2, <2>3
<1> DEFINE a == Made(fs, path)
<1>10. a = Append(m, last)
  BY DEF Made, m, last
<1> HIDE DEF r, a
<1>11. Len(a) = n + 1 /\ DOMAIN a = 1 .. n + 1 /\ a[n + 1] = last /\ (\E S : a \in Seq(S))
       /\ \A i \in 1 .. n : a[i] = m[i]
  BY <1>9, <1>10
<1>12. last = Append(u.at \o r, "partitions")
  BY <1>6 DEF last
<1> QED
  BY <1>1, <1>4, <1>5, <1>7, <1>11, <1>12 DEF r, a

\* Directories made in directories, or in each other, leave a tree.
LEMMA TreeGrows ==
    ASSUME NEW fs, IsTree(fs), NEW S \in SUBSET (Names \ {<<>>}),
           \A p \in S : p \notin DOMAIN fs /\ Len(p) > 1 =>
              Real(fs, Front(p)) \/ (Front(p) \in S /\ Front(p) \notin DOMAIN fs)
    PROVE  Grown(fs, MakeDirs(fs, S)) /\ DOMAIN MakeDirs(fs, S) = DOMAIN fs \cup S
<1> DEFINE g == MakeDirs(fs, S)
<1>1. DOMAIN g = DOMAIN fs \cup S /\ \A p \in DOMAIN fs \cup S : g[p] = IF p \in DOMAIN fs THEN fs[p] ELSE Dir
  <2>1. (DOMAIN fs \cup S) \ {<<>>} = DOMAIN fs \cup S
    BY DEF IsTree
  <2> QED
    BY <2>1 DEF MakeDirs
<1> HIDE DEF g
<1>2. ASSUME NEW p \in DOMAIN g
      PROVE  /\ g[p] \in [link : BOOLEAN, absolute : BOOLEAN, to : Names]
             /\ Len(p) > 1 => Front(p) \in DOMAIN g /\ ~g[Front(p)].link
  <2>1. CASE p \in DOMAIN fs
    BY <1>1, <2>1 DEF IsTree
  <2>2. CASE p \notin DOMAIN fs
    <3>1. g[p] = Dir /\ p \in S /\ p \in Names
      BY <1>1, <2>2
    <3>2. Dir \in [link : BOOLEAN, absolute : BOOLEAN, to : Names] /\ ~Dir.link
      BY DEF Dir, Names
    <3>3. ASSUME Len(p) > 1
          PROVE  Front(p) \in DOMAIN g /\ ~g[Front(p)].link
      <4>1. Front(p) # <<>>
        <5>1. p # <<>>
          BY <3>1
        <5>2. Len(Front(p)) = Len(p) - 1
          BY <3>1, <5>1, LastOf
        <5>3. Len(p) \in Nat /\ Len(<<>>) = 0
          BY <3>1 DEF Names
        <5> QED
          BY <3>3, <5>2, <5>3
      <4>2. CASE Real(fs, Front(p))
        BY <1>1, <4>1, <4>2 DEF Real
      <4>3. CASE Front(p) \in S /\ Front(p) \notin DOMAIN fs
        BY <1>1, <3>2, <4>3
      <4> QED
        BY <2>2, <3>1, <3>3, <4>2, <4>3
    <3> QED
      BY <3>1, <3>2, <3>3
  <2> QED
    BY <2>1, <2>2
<1>3. IsTree(g)
  BY <1>1, <1>2 DEF IsTree
<1> QED
  BY <1>1, <1>3 DEF Grown, g

\* Making the first few of them leaves a tree, in which the path leaves no missing name.
LEMMA MadeInOrder ==
    ASSUME NEW fs, IsTree(fs), NEW path \in Names, NEW u \in Walks, Makes(fs, path, u),
           NEW k \in 0 .. Len(Made(fs, path))
    PROVE  LET g == MakeDirs(fs, Range(SubSeq(Made(fs, path), 1, k)))
           IN /\ Grown(fs, g) /\ ~BackFromMissing(g, path)
            /\ DOMAIN g = DOMAIN fs \cup Range(SubSeq(Made(fs, path), 1, k))
<1> DEFINE r == Rest(fs, path)
           n == Len(r)
           a == Made(fs, path)
           S == Range(SubSeq(a, 1, k))
           g == MakeDirs(fs, S)
<1>1. /\ r \in Names /\ n \in Nat
      /\ Len(a) = n + 1 /\ DOMAIN a = 1 .. n + 1 /\ (\E T : a \in Seq(T))
      /\ a[n + 1] = Append(u.at \o r, "partitions")
      /\ \A i \in 1 .. n : /\ a[i] = u.at \o SubSeq(r, 1, i)
                           /\ SubSeq(r, 1, i) # <<>> /\ Absent(fs, u.at \o SubSeq(r, 1, i))
  BY MadeIs
<1>2. u.at \in Names /\ Real(fs, u.at)
  <2>1. StartOf(Existing(fs, path)) \in Walks
    BY ExistingIs, WalkIs
  <2> QED
    BY <2>1, WalkTyped, RootReal, FailsStaysReal DEF Makes
<1>3. path = Existing(fs, path) \o r /\ Existing(fs, path) \in Names /\ k \in 0 .. Len(a)
      /\ r = Rest(fs, path)
  BY ExistingIs
<1> HIDE DEF a, r
<1>4. S = {a[i] : i \in 1 .. k}
  <2>1. k \in Nat /\ k <= n + 1 /\ 1 .. k \subseteq DOMAIN a
    BY <1>1, <1>3
  <2>2. DOMAIN SubSeq(a, 1, k) = 1 .. k /\ \A i \in 1 .. k : SubSeq(a, 1, k)[i] = a[i]
    <3> DEFINE T == {a[i] : i \in 1 .. n + 1}
    <3>1. \A i \in 1 .. k : a[i] \in T
      BY <1>1, <2>1
    <3> HIDE DEF T
    <3>2. /\ SubSeq(a, 1, k) \in Seq(T)
          /\ Len(SubSeq(a, 1, k)) = IF 1 <= k THEN k - 1 + 1 ELSE 0
          /\ \A i \in 1 .. k - 1 + 1 : SubSeq(a, 1, k)[i] = a[1 + i - 1]
      BY <2>1, <3>1, SubSeqProperties
    <3> QED
      BY <2>1, <3>2
  <2> QED
    BY <2>2 DEF Range
<1>5. \A i \in 1 .. n : SubSeq(r, 1, i) \in Names /\ u.at \o SubSeq(r, 1, i) \in Names
  <2> SUFFICES ASSUME NEW i \in 1 .. n
               PROVE  SubSeq(r, 1, i) \in Names /\ u.at \o SubSeq(r, 1, i) \in Names
    OBVIOUS
  <2>1. i \in 0 .. Len(r)
    BY <1>1
  <2>2. SubSeq(r, 1, i) \in Names
    BY <1>1, <2>1, PathAt
  <2> QED
    BY <1>2, <2>2, Joined
<1>6. ASSUME NEW i \in 1 .. n + 1
      PROVE  /\ a[i] \in Names \ {<<>>}
             /\ Front(a[i]) = IF i = 1 THEN u.at ELSE a[i - 1]
  <2> DEFINE q == SubSeq(r, 1, i - 1)
             b == u.at \o q
  <2>1. q \in Names /\ b \in Names /\ b = IF i = 1 THEN u.at ELSE a[i - 1]
    <3>1. CASE i = 1
      <4>1. q = <<>>
        <5>1. i - 1 = 0 /\ 0 \in 0 .. Len(r)
          BY <1>1, <3>1
        <5>2. SubSeq(r, 1, 0) \in Names /\ Len(SubSeq(r, 1, 0)) = 0
          BY <1>1, <5>1, PathAt
        <5> QED
          BY <5>1, <5>2, EmptySeq DEF Names
      <4>2. u.at \o <<>> = u.at /\ <<>> \in Names
        BY <1>2, EmptyPath DEF Names
      <4> QED
        BY <1>2, <3>1, <4>1, <4>2
    <3>2. CASE i # 1
      <4>1. i - 1 \in 1 .. n
        BY <1>1, <3>2
      <4> QED
        BY <1>1, <1>5, <3>2, <4>1
    <3> QED
      BY <3>1, <3>2
  <2>2. \E x \in Component : a[i] = Append(b, x)
    <3>1. CASE i = n + 1
      <4>1. q = r
        <5>1. SubSeq(r, 1, Len(r)) = r
          BY <1>1 DEF Names
        <5>2. i - 1 = Len(r)
          BY <1>1, <3>1
        <5> QED
          BY <5>1, <5>2
      <4>2. a[i] = Append(b, "partitions")
        BY <1>1, <3>1, <4>1
      <4> QED
        BY <4>2, ComponentAssumption
    <3>2. CASE i # n + 1
      <4>1. i \in 1 .. n /\ 0 \in Nat /\ 0 < i /\ 0 + 1 = 1 /\ i \in 1 .. Len(r)
        BY <1>1, <3>2
      <4>2. r \in Seq(Component) /\ r[i] \in Component
        BY <1>1, <4>1 DEF Names
      <4>3. SubSeq(r, 1, i) = Append(q, r[i])
        <5> DEFINE T == Component
        <5>1. r \in Seq(T)
          BY <4>2
        <5> HIDE DEF T
        <5>2. SubSeq(r, 0 + 1, i) = Append(SubSeq(r, 0 + 1, i - 1), r[i])
          BY <4>1, <5>1, OneMore
        <5> QED
          BY <5>2
      <4> DEFINE x == r[i]
      <4>4. x \in Component /\ SubSeq(r, 1, i) = Append(q, x)
        BY <4>2, <4>3
      <4> HIDE DEF x, q
      <4>5. Append(q, x) = q \o <<x>> /\ <<x>> \in Names /\ Append(b, x) = b \o <<x>>
        BY <2>1, <4>4, Appended
      <4>6. (u.at \o q) \o <<x>> = u.at \o (q \o <<x>>)
        BY <1>2, <2>1, <4>5, JoinedTwice
      <4>7. a[i] = u.at \o SubSeq(r, 1, i)
        BY <1>1, <4>1
      <4> QED
        BY <4>4, <4>5, <4>6, <4>7
    <3> QED
      BY <3>1, <3>2
  <2> HIDE DEF b
  <2>3. PICK x \in Component : a[i] = Append(b, x)
    BY <2>2
  <2>4. a[i] \in Names /\ a[i] # <<>> /\ Front(a[i]) = b
    BY <2>1, <2>3, Appended
  <2> QED
    BY <2>1, <2>4
<1>7. k \in 0 .. n + 1
  BY <1>1 DEF a
<1>8. Grown(fs, g) /\ DOMAIN g = DOMAIN fs \cup S
  <2>1. S \in SUBSET (Names \ {<<>>})
    <3>1. 1 .. k \subseteq 1 .. n + 1
      BY <1>1, <1>7
    <3>2. \A i \in 1 .. n + 1 : a[i] \in Names \ {<<>>}
      BY <1>6
    <3> QED
      BY <1>4, <3>1, <3>2
  <2>2. ASSUME NEW p \in S
        PROVE  Real(fs, Front(p)) \/ (Front(p) \in S /\ Front(p) \notin DOMAIN fs)
    <3>1. PICK i \in 1 .. k : p = a[i]
      BY <1>4
    <3>2. i \in 1 .. n + 1
      BY <1>1, <1>7
    <3>3. CASE i = 1
      BY <1>2, <1>6, <3>1, <3>2, <3>3
    <3>4. CASE i # 1
      <4>1. i - 1 \in 1 .. n /\ i - 1 \in 1 .. k
        BY <1>1, <1>7, <3>4
      <4>2. Front(p) = a[i - 1]
        BY <1>6, <3>1, <3>2, <3>4
      <4>3. a[i - 1] \in S
        BY <1>4, <4>1
      <4>4. a[i - 1] \notin DOMAIN fs
        BY <1>1, <4>1 DEF Absent
      <4> QED
        BY <4>2, <4>3, <4>4
    <3> QED
      BY <3>3, <3>4
  <2> HIDE DEF S
  <2> QED
    BY <2>1, <2>2, TreeGrows
<1>9. ~BackFromMissing(g, path)
  <2> HIDE DEF g
  <2>1. r \o <<>> = r /\ <<>> \in Names
    BY <1>1, EmptyPath DEF Names
  <2> DEFINE e == Existing(fs, path)
  <2>2. e = Existing(fs, path) /\ path = e \o r /\ e \in Names /\ r = Rest(fs, path) /\ Grown(fs, g)
    BY <1>3, <1>8
  <2> HIDE DEF e
  <2>3. Comes(g, e \o r, u.at \o r)
    BY <1>1, <2>2, <2>1, MakesDown
  <2>4. PICK v \in Leads(g, "oneway", StartOf(e \o r)) : v.path = <<>>
    BY <2>3 DEF Comes
  <2>5. v \in Leads(g, "oneway", StartOf(path)) /\ IsTree(g)
    BY <2>1, <2>2, <2>4 DEF Grown
  <2>6. Walk(g, path, "oneway") = Resolved(v.at)
    BY <2>4, <2>5, WalkFound
  <2> QED
    BY <2>6 DEF BackFromMissing, Resolved
<1> QED
  BY <1>8, <1>9 DEF a

\* Making all of them makes the directory, where the guard took it to be.
LEMMA MadeIsThere ==
    ASSUME NEW fs, IsTree(fs), NEW path \in Names, NEW u \in Walks, Makes(fs, path, u)
    PROVE  Canonicalize(MakeDirs(fs, Range(Made(fs, path))), path) = Locate(fs, path)
<1> DEFINE r == Rest(fs, path)
           n == Len(r)
           a == Made(fs, path)
           g == MakeDirs(fs, Range(a))
<1>1. /\ r \in Names /\ n \in Nat
      /\ Len(a) = n + 1 /\ DOMAIN a = 1 .. n + 1
      /\ Locate(fs, path) = Resolved(u.at \o r) /\ (\E T : a \in Seq(T))
      /\ \A i \in 1 .. n : a[i] = u.at \o SubSeq(r, 1, i)
  BY MadeIs
<1>2. path = Existing(fs, path) \o r /\ Existing(fs, path) \in Names /\ r = Rest(fs, path)
  BY ExistingIs
<1> HIDE DEF a, r
<1>3. Grown(fs, g) /\ DOMAIN g = DOMAIN fs \cup Range(a)
  <2>1. SubSeq(a, 1, n + 1) = a
    BY <1>1, SubSeqFull
  <2>2. n + 1 \in 0 .. Len(Made(fs, path))
    BY <1>1 DEF a
  <2>3. LET h == MakeDirs(fs, Range(SubSeq(Made(fs, path), 1, n + 1)))
        IN Grown(fs, h) /\ DOMAIN h = DOMAIN fs \cup Range(SubSeq(Made(fs, path), 1, n + 1))
    BY <2>2, MadeInOrder
  <2> QED
    BY <2>1, <2>3 DEF a
<1> HIDE DEF g
<1>5. r \o <<>> = r /\ <<>> \in Names
  BY <1>1, EmptyPath DEF Names
<1>6. PICK v \in Leads(g, "oneway", StartOf(path)) : v.path = <<>> /\ v.at = u.at \o r
  <2> DEFINE e == Existing(fs, path)
  <2>1. e = Existing(fs, path) /\ path = e \o r /\ e \in Names
    BY <1>2
  <2> HIDE DEF e
  <2>2. Comes(g, e \o r, u.at \o r)
    BY <1>1, <1>2, <1>3, <1>5, <2>1, MakesDown
  <2> QED
    BY <2>1, <2>2 DEF Comes
<1>7. ~Absent(g, v.at)
  <2>1. CASE r = <<>>
    <3>1. StartOf(Existing(fs, path)) \in Walks
      BY <1>2, WalkIs
    <3>2. Real(fs, u.at) /\ u.at \in Names
      BY <3>1, WalkTyped, RootReal, FailsStaysReal DEF Makes
    <3>3. v.at = u.at
      BY <1>6, <2>1, <3>2, EmptyPath
    <3> QED
      BY <1>3, <3>2, <3>3 DEF Absent, Real, Grown
  <2>2. CASE r # <<>>
    <3>1. n \in 1 .. n /\ SubSeq(r, 1, n) = r
      BY <1>1, <2>2 DEF Names
    <3>2. v.at = a[n] /\ n \in DOMAIN a
      BY <1>1, <1>6, <3>1
    <3> QED
      BY <1>3, <3>2 DEF Absent, Range
  <2> QED
    BY <2>1, <2>2
<1>8. v \in Leads(g, "fails", StartOf(path)) /\ StartOf(path) \in Walks
  BY <1>3, <1>6, <1>7, WalkIs, FoundOrAbsent DEF Grown
<1>9. Canonicalize(g, path) = Resolved(v.at)
  BY <1>3, <1>6, <1>8, WalkFound DEF Canonicalize, Grown
<1> QED
  BY <1>1, <1>6, <1>9 DEF g, a

\* What the guard judged is what becomes of the path: it is made where the guard took it
\* to be, and however much of it is made, it goes on being a path that can be judged.
THEOREM MadeWhereJudged ==
    ASSUME NEW fs, IsTree(fs), NEW path \in Names,
           Creatable(fs, path), ~BackFromMissing(fs, path)
    PROVE  /\ Locate(fs, path).end = "found"
           /\ LET g == MakeDirs(fs, Range(Made(fs, path)))
              IN /\ Grown(fs, g) /\ ~BackFromMissing(g, path)
                 /\ Canonicalize(g, path) = Locate(fs, path)
           /\ \A k \in 0 .. Len(Made(fs, path)) :
                 LET g == MakeDirs(fs, Range(SubSeq(Made(fs, path), 1, k)))
                 IN Grown(fs, g) /\ ~BackFromMissing(g, path)
<1>1. PICK u \in Walks : Makes(fs, path, u)
  BY MakesIs
<1>2. /\ Len(Made(fs, path)) \in Nat /\ (\E S : Made(fs, path) \in Seq(S))
      /\ Locate(fs, path) = Resolved(u.at \o Rest(fs, path))
  BY <1>1, MadeIs
<1>3. SubSeq(Made(fs, path), 1, Len(Made(fs, path))) = Made(fs, path)
  BY <1>2, SubSeqFull
<1>4. \A k \in 0 .. Len(Made(fs, path)) :
         LET g == MakeDirs(fs, Range(SubSeq(Made(fs, path), 1, k)))
         IN Grown(fs, g) /\ ~BackFromMissing(g, path)
  BY <1>1, MadeInOrder
<1>5. Len(Made(fs, path)) \in 0 .. Len(Made(fs, path))
  BY <1>2
<1>6. LET g == MakeDirs(fs, Range(Made(fs, path))) IN Grown(fs, g) /\ ~BackFromMissing(g, path)
  BY <1>3, <1>4, <1>5
<1>7. Canonicalize(MakeDirs(fs, Range(Made(fs, path))), path) = Locate(fs, path)
  BY <1>1, MadeIsThere
<1> QED
  BY <1>2, <1>4, <1>6, <1>7 DEF Resolved
-----------------------------------------------------------------------------
(* A tree stays one, whatever path the directories are made for            *)

\* A tree that has grown from one that has grown.
LEMMA GrownOn ==
    ASSUME NEW fs, NEW g, NEW h, Grown(fs, g), Grown(g, h)
    PROVE  Grown(fs, h)
<1>1. ASSUME NEW p \in DOMAIN h, p \notin DOMAIN fs PROVE h[p] = Dir
  BY <1>1 DEF Grown
<1> QED
  BY <1>1 DEF Grown

\* Directories that are made at once or in turn.
LEMMA MakeInTurn ==
    ASSUME NEW fs, NEW S, NEW T
    PROVE  MakeDirs(fs, S \cup T) = MakeDirs(MakeDirs(fs, S), T)
<1> DEFINE g == MakeDirs(fs, S)
           h == MakeDirs(g, T)
           k == MakeDirs(fs, S \cup T)
<1>1. DOMAIN g = (DOMAIN fs \cup S) \ {<<>>}
      /\ \A p \in DOMAIN g : g[p] = IF p \in DOMAIN fs THEN fs[p] ELSE Dir
  BY DEF MakeDirs
<1> HIDE DEF g
<1>2. h = [p \in (DOMAIN g \cup T) \ {<<>>} |-> IF p \in DOMAIN g THEN g[p] ELSE Dir]
  BY DEF MakeDirs
<1>3. k = [p \in (DOMAIN fs \cup (S \cup T)) \ {<<>>} |-> IF p \in DOMAIN fs THEN fs[p] ELSE Dir]
  BY DEF MakeDirs
<1> HIDE DEF h, k
<1>4. DOMAIN h = DOMAIN k
  BY <1>1, <1>2, <1>3
<1>5. ASSUME NEW p \in DOMAIN k PROVE h[p] = k[p]
  BY <1>1, <1>2, <1>3, <1>4
<1>6. h = [p \in DOMAIN h |-> h[p]] /\ k = [p \in DOMAIN k |-> k[p]]
  BY <1>2, <1>3
<1> QED
  BY <1>4, <1>5, <1>6 DEF g, h, k

\* Nothing is made of what is there.
LEMMA MakeNothing ==
    ASSUME NEW fs, IsTree(fs), NEW T, T \subseteq DOMAIN fs \cup {<<>>}
    PROVE  LET g == MakeDirs(fs, T)
           IN Grown(fs, g) /\ DOMAIN g = DOMAIN fs /\ \A p \in DOMAIN fs : g[p] = fs[p]
<1> DEFINE g == MakeDirs(fs, T)
<1>1. (DOMAIN fs \cup T) \ {<<>>} = DOMAIN fs
  BY DEF IsTree
<1>2. DOMAIN g = DOMAIN fs /\ \A p \in DOMAIN fs : g[p] = fs[p]
  BY <1>1 DEF MakeDirs
<1> HIDE DEF g
<1>3. IsTree(g)
  BY <1>2 DEF IsTree
<1>4. Grown(fs, g)
  BY <1>2, <1>3 DEF Grown
<1> QED
  BY <1>2, <1>4 DEF g

\* One directory more, in one that is there.
LEMMA OneDirMore ==
    ASSUME NEW fs, NEW S, Grown(fs, MakeDirs(fs, S)), NEW p,
           \/ Real(MakeDirs(fs, S), p)
           \/ p \in Names \ {<<>>} /\ Real(MakeDirs(fs, S), Front(p))
    PROVE  /\ Grown(fs, MakeDirs(fs, S \cup {p}))
           /\ Real(MakeDirs(fs, S), p) \/ p \notin DOMAIN MakeDirs(fs, S)
                  => Real(MakeDirs(fs, S \cup {p}), p)
<1> DEFINE g == MakeDirs(fs, S)
<1>1. MakeDirs(fs, S \cup {p}) = MakeDirs(g, {p})
  BY MakeInTurn
<1>2. IsTree(g) /\ Grown(fs, g)
  BY DEF Grown
<1> HIDE DEF g
<1>3. /\ Grown(g, MakeDirs(g, {p}))
      /\ Real(g, p) \/ p \notin DOMAIN g => Real(MakeDirs(g, {p}), p)
  <2>1. CASE Real(g, p)
    <3>1. {p} \subseteq DOMAIN g \cup {<<>>}
      BY <2>1 DEF Real
    <3>2. Grown(g, MakeDirs(g, {p})) /\ DOMAIN MakeDirs(g, {p}) = DOMAIN g
          /\ \A q \in DOMAIN g : MakeDirs(g, {p})[q] = g[q]
      BY <1>2, <3>1, MakeNothing
    <3> QED
      BY <2>1, <3>2 DEF Real
  <2>2. CASE p \in Names \ {<<>>} /\ Real(g, Front(p))
    <3>1. {p} \in SUBSET (Names \ {<<>>})
      BY <2>2
    <3>2. Grown(g, MakeDirs(g, {p})) /\ DOMAIN MakeDirs(g, {p}) = DOMAIN g \cup {p}
      BY <1>2, <2>2, <3>1, TreeGrows
    <3>3. p \notin DOMAIN g => MakeDirs(g, {p})[p] = Dir
      BY <3>2 DEF Grown
    <3>4. Real(g, p) => p \in DOMAIN g
      BY <2>2 DEF Real
    <3>5. Real(g, p) => Real(MakeDirs(g, {p}), p)
      BY <3>2, <3>4 DEF Real, Grown
    <3>6. ~Dir.link
      BY DEF Dir
    <3> QED
      BY <3>2, <3>3, <3>5, <3>6 DEF Real
  <2> QED
    BY <2>1, <2>2 DEF g
<1> QED
  BY <1>1, <1>2, <1>3, GrownOn DEF g

\* What is found once some of the missing directories are there was located there before.
LEMMA MadeTheSame ==
    ASSUME NEW fs, NEW g, Grown(fs, g), NEW w \in Walks, NEW v \in Leads(g, "fails", w)
    PROVE  v \in Leads(fs, "made", w)
<1> DEFINE U == Leads(fs, "made", w)
<1>1. w \in U /\ U \in SUBSET Walks /\ Closed(fs, "made", U)
  BY LeadsClosed DEF Grown
<1>2. ASSUME NEW u \in U, ~Stuck(g, "fails", u)
      PROVE  Advance(g, u) \in U
  <2>1. \A p : IsLink(fs, p) <=> IsLink(g, p)
    BY DEF IsLink, Grown, Dir
  <2>2. ~Stuck(fs, "made", u)
    BY <1>2, <2>1 DEF Stuck, Obstacle
  <2>3. IsLink(fs, Entry(u)) => fs[Entry(u)] = g[Entry(u)]
    BY DEF IsLink, Grown
  <2>4. Advance(g, u) = Advance(fs, u)
    BY <2>1, <2>3 DEF Advance
  <2> HIDE DEF U
  <2> QED
    BY <1>1, <1>2, <2>2, <2>4 DEF Closed
<1>3. Closed(g, "fails", U)
  <2> HIDE DEF U
  <2> QED
    BY <1>2 DEF Closed
<1>4. v \in U
  <2> HIDE DEF U
  <2> QED
    BY <1>1, <1>3, LeadsLeast
<1> QED
  BY <1>4

LEMMA FoundIsLocated ==
    ASSUME NEW fs, NEW g, Grown(fs, g), NEW path \in Names, Canonicalize(g, path).end = "found"
    PROVE  Real(g, Locate(fs, path).at)
<1>1. PICK v \in Leads(g, "fails", StartOf(path)) : v.path = <<>>
  BY WalkFound DEF Canonicalize, Grown
<1>2. StartOf(path) \in Walks
  BY WalkIs DEF Grown
<1>3. v \in Leads(fs, "made", StartOf(path)) /\ Real(g, v.at)
  BY <1>1, <1>2, MadeTheSame, RootReal, FailsStaysReal DEF Grown
<1>4. Locate(fs, path) = Resolved(v.at)
  BY <1>1, <1>3, WalkFound DEF Locate, Grown
<1> QED
  BY <1>3, <1>4 DEF Resolved

\* What mkdir leaves is a directory, or a new entry in one.
LEMMA MkDirMakes ==
    ASSUME NEW fs, NEW g, Grown(fs, g), NEW path \in Names, path # <<>>, MkDirWorks(g, path)
    PROVE  LET p == Locate(fs, path).at
           IN Real(g, p) \/ (p \in Names \ {<<>>} /\ p \notin DOMAIN g /\ Real(g, Front(p)))
<1> DEFINE q == Front(path)
           n == Last(path)
<1>1. CASE Canonicalize(g, path).end = "found"
  BY <1>1, FoundIsLocated
<1>2. CASE /\ Canonicalize(g, q).end = "found" /\ n # ".."
           /\ Append(Canonicalize(g, q).at, n) \notin DOMAIN g
  <2>1. q \in Names /\ n \in Component /\ path = Append(q, n)
    BY LastOf
  <2> HIDE DEF q, n
  <2>2. PICK u \in Leads(g, "fails", StartOf(q)) : u.path = <<>>
    BY <1>2, <2>1, WalkFound DEF Canonicalize, Grown
  <2>3. StartOf(q) \in Walks /\ u \in Walks /\ u.at \in Names
    BY <2>1, <2>2, WalkIs, LeadsClosed, WalkTyped DEF Grown
  <2>4. u \in Leads(fs, "made", StartOf(q)) /\ Real(g, u.at) /\ Canonicalize(g, q).at = u.at
    <3>1. u \in Leads(fs, "made", StartOf(q)) /\ Real(g, u.at)
      BY <2>2, <2>3, MadeTheSame, RootReal, FailsStaysReal DEF Grown
    <3>2. Canonicalize(g, q) = Resolved(u.at)
      BY <2>1, <2>2, WalkFound DEF Canonicalize, Grown
    <3> QED
      BY <3>1, <3>2 DEF Resolved
  <2> DEFINE w == Walking(u.at, <<n>>, u.links)
             x == Advance(fs, w)
  <2>5. w \in Leads(fs, "made", StartOf(path)) /\ StartOf(path) \in Walks
    BY <2>1, <2>2, <2>4, OneNameMore DEF Grown
  <2>6. w.path = <<n>> /\ w.path # <<>> /\ Head(w.path) = n /\ Tail(w.path) = <<>>
        /\ Entry(w) = Append(u.at, n)
    BY DEF Walking, Entry
  <2>7. ~IsLink(fs, Entry(w))
    BY <1>2, <2>4, <2>6 DEF IsLink, Grown
  <2>8. ~Stuck(fs, "made", w)
    BY <1>2, <2>6, <2>7 DEF Stuck, Obstacle
  <2>9. x.path = <<>> /\ x.at = Append(u.at, n)
    BY <1>2, <2>6, <2>7 DEF Advance, Walking
  <2>10. x \in Leads(fs, "made", StartOf(path))
    BY <2>5, <2>8, LeadsClosed DEF Closed, Grown
  <2> HIDE DEF w, x
  <2>11. Locate(fs, path) = Resolved(Append(u.at, n))
    <3>1. IsTree(fs)
      BY DEF Grown
    <3>2. \A v \in Leads(fs, "made", StartOf(path)) :
             v.path = <<>> => Walk(fs, path, "made") = Resolved(v.at)
      BY <3>1, WalkFound
    <3>3. Walk(fs, path, "made") = Resolved(x.at)
      BY <2>9, <2>10, <3>2
    <3> QED
      BY <2>9, <3>3 DEF Locate
  <2>12. Append(u.at, n) \in Names /\ Append(u.at, n) # <<>> /\ Front(Append(u.at, n)) = u.at
    BY <2>1, <2>3, Appended
  <2> QED
    BY <1>2, <2>4, <2>11, <2>12 DEF Resolved
<1> QED
  BY <1>1, <1>2 DEF MkDirWorks

\* The first directories that are missing.
First(fs, path, n) == {Missing(fs, path)[j] : j \in 1 .. n}

\* The n-th of them: where its path is, and that it has one.
LEMMA MissingIs ==
    ASSUME NEW fs, NEW path \in Names, NEW n \in 1 .. TakenOff(fs, path)
    PROVE  LET q == SubSeq(path, 1, Kept(fs, path) + n)
           IN /\ q \in Names /\ q # <<>> /\ Missing(fs, path)[n] = Locate(fs, q).at
              /\ n = TakenOff(fs, path) => q = path
<1> DEFINE k == Kept(fs, path)
           m == k + n
<1>1. /\ k \in Nat /\ Len(path) \in Nat /\ n \in Nat /\ n > 0
      /\ TakenOff(fs, path) = Len(path) - k /\ m \in 0 .. Len(path) /\ m > 0
  BY KeptIs
<1>2. n = TakenOff(fs, path) => m = Len(path)
  BY <1>1
<1>3. Missing(fs, path)[n] = Locate(fs, SubSeq(path, 1, m)).at
  BY DEF Missing
<1> HIDE DEF k, m
<1>4. SubSeq(path, 1, m) \in Names /\ Len(SubSeq(path, 1, m)) = m
  BY <1>1, PathAt
<1>5. SubSeq(path, 1, Len(path)) = path
  BY DEF Names
<1> QED
  BY <1>1, <1>2, <1>3, <1>4, <1>5 DEF m, k

\* create_dir_all leaves a tree, however far it comes.
LEMMA ComesToGrows ==
    ASSUME NEW fs, IsTree(fs), NEW path \in Names, NEW n \in 0 .. TakenOff(fs, path),
           ComesTo(fs, path, n)
    PROVE  /\ Grown(fs, MakeDirs(fs, First(fs, path, n)))
           /\ n # 0 => Real(MakeDirs(fs, First(fs, path, n)), Missing(fs, path)[n])
<1> DEFINE S(m) == First(fs, path, m)
           Right(m) == /\ Grown(fs, MakeDirs(fs, S(m)))
                       /\ m # 0 => Real(MakeDirs(fs, S(m)), Missing(fs, path)[m])
           Bad == {m \in 0 .. n : ~Right(m)}
<1>1. n \in Nat /\ TakenOff(fs, path) \in Nat
  BY KeptIs
<1> SUFFICES ASSUME Bad # {} PROVE FALSE
  <2>1. Bad = {} => n \notin Bad
    OBVIOUS
  <2>2. n \in 0 .. n
    BY <1>1
  <2> HIDE DEF S
  <2> QED
    BY <2>1, <2>2 DEF S
<1>2. PICK m \in Bad : \A i \in Bad : m <= i
  <2>1. Bad \in SUBSET Nat
    BY <1>1
  <2> HIDE DEF Bad
  <2> QED
    BY <2>1, Least
<1>3. m \in 0 .. n /\ ~Right(m)
  BY <1>2
<1>4. CASE m = 0
  <2>1. S(0) = {}
    BY DEF First
  <2>2. Grown(fs, MakeDirs(fs, {}))
    BY MakeNothing
  <2> QED
    BY <1>3, <1>4, <2>1, <2>2
<1>5. CASE m # 0
  <2>1. m \in 1 .. n /\ m - 1 \in 0 .. n /\ ~(m <= m - 1) /\ m \in 1 .. TakenOff(fs, path)
    BY <1>1, <1>3, <1>5
  <2>2. Grown(fs, MakeDirs(fs, S(m - 1)))
    <3>1. m - 1 \notin Bad
      <4> HIDE DEF Bad
      <4> QED
        BY <1>2, <2>1
    <3> QED
      BY <2>1, <3>1
  <2> DEFINE q == SubSeq(path, 1, Kept(fs, path) + m)
             p == Missing(fs, path)[m]
  <2>3. q \in Names /\ q # <<>> /\ p = Locate(fs, q).at
    BY <2>1, MissingIs
  <2>4. MkDirWorks(MakeDirs(fs, S(m - 1)), q)
    BY <2>1 DEF ComesTo, First
  <2>5. S(m) = S(m - 1) \cup {p}
    <3>1. 1 .. m = (1 .. m - 1) \cup {m}
      BY <2>1
    <3> QED
      BY <3>1 DEF First
  <2> HIDE DEF S, q, p
  <2>6. \/ Real(MakeDirs(fs, S(m - 1)), p)
        \/ /\ p \in Names \ {<<>>} /\ p \notin DOMAIN MakeDirs(fs, S(m - 1))
           /\ Real(MakeDirs(fs, S(m - 1)), Front(p))
    BY <2>2, <2>3, <2>4, MkDirMakes
  <2>7. Grown(fs, MakeDirs(fs, S(m - 1) \cup {p})) /\ Real(MakeDirs(fs, S(m - 1) \cup {p}), p)
    BY <2>2, <2>6, OneDirMore
  <2> QED
    BY <1>3, <2>5, <2>7 DEF p
<1> QED
  BY <1>4, <1>5

\* What create_dir_all leaves of a path that it cannot make whole.
LEMMA MakeableGrows ==
    ASSUME NEW fs, IsTree(fs), NEW path \in Names
    PROVE  Grown(fs, MakeDirs(fs, Makeable(fs, path)))
<1> DEFINE N == TakenOff(fs, path)
           M == {m \in 1 .. N : ComesTo(fs, path, m)}
           Above == {k \in Nat : \A m \in M : m <= k}
<1>1. N \in Nat
  BY KeptIs
<1>2. PICK k \in Above : \A i \in Above : k <= i
  <2>1. N \in Above
    BY <1>1
  <2> HIDE DEF Above
  <2>2. Above \in SUBSET Nat
    BY DEF Above
  <2> QED
    BY <2>1, <2>2, Least
<1>3. k \in Nat /\ \A m \in M : m <= k
  BY <1>2
<1>4. k # 0 => k \in M
  <2> SUFFICES ASSUME k # 0, k \notin M PROVE FALSE
    OBVIOUS
  <2>1. \A m \in M : m \in Nat /\ m <= k /\ m # k
    BY <1>3
  <2>2. k - 1 \in Nat /\ \A m \in M : m <= k - 1
    <3> HIDE DEF M
    <3> QED
      BY <1>3, <2>1
  <2>3. k - 1 \in Above
    <3> HIDE DEF M
    <3> QED
      BY <2>2
  <2> HIDE DEF Above
  <2> QED
    BY <1>2, <1>3, <2>3
<1>5. k \in 0 .. N /\ ComesTo(fs, path, k)
  <2>1. CASE k = 0
    BY <1>1, <2>1 DEF ComesTo
  <2>2. CASE k # 0
    BY <1>1, <1>4, <2>2
  <2> QED
    BY <2>1, <2>2
<1>6. M = 1 .. k
  <2>1. ASSUME NEW m \in 1 .. k PROVE m \in M
    <3>1. m \in 1 .. N /\ 1 .. m \subseteq 1 .. k
      BY <1>1, <1>5, <2>1
    <3> QED
      BY <1>5, <3>1 DEF ComesTo
  <2>2. M \subseteq 1 .. k
    BY <1>1, <1>3
  <2> QED
    BY <2>1, <2>2
<1>7. Makeable(fs, path) = {Missing(fs, path)[m] : m \in M}
  BY DEF Makeable
<1> HIDE DEF M
<1>8. Makeable(fs, path) = First(fs, path, k)
  BY <1>6, <1>7 DEF First
<1> QED
  BY <1>5, <1>8, ComesToGrows

\* The first few of what the database makes.
LEMMA FirstOfMade ==
    ASSUME NEW fs, NEW path \in Names, NEW k \in 0 .. Len(Made(fs, path))
    PROVE  LET n == TakenOff(fs, path)
           IN /\ n \in Nat /\ Len(Made(fs, path)) = n + 1 /\ (\E S : Made(fs, path) \in Seq(S))
              /\ Range(SubSeq(Made(fs, path), 1, k)) =
                    IF k <= n THEN First(fs, path, k)
                    ELSE First(fs, path, n) \cup {Append(Locate(fs, path).at, "partitions")}
<1> DEFINE n == TakenOff(fs, path)
           m == Missing(fs, path)
           a == Made(fs, path)
           last == Append(Locate(fs, path).at, "partitions")
           S == {m[i] : i \in 1 .. n} \cup {last}
<1>1. n \in Nat
  BY KeptIs
<1>2. m \in Seq(S) /\ Len(m) = n
  <2>1. \A i \in 1 .. n : m[i] \in S
    OBVIOUS
  <2>2. DOMAIN m = 1 .. n /\ m = [i \in 1 .. n |-> m[i]]
    BY DEF Missing
  <2> HIDE DEF S, m, n
  <2> QED
    BY <1>1, <2>1, <2>2, SequenceOf
<1>3. a = Append(m, last) /\ last \in S
  BY DEF Made
<1> HIDE DEF last
<1>4. a \in Seq(S) /\ Len(a) = n + 1 /\ a[n + 1] = last /\ \A i \in 1 .. n : a[i] = m[i]
  <2> HIDE DEF S, m, n, a
  <2> QED
    BY <1>2, <1>3, AppendProperties
<1>5. First(fs, path, k) = {m[i] : i \in 1 .. k} /\ First(fs, path, n) = {m[i] : i \in 1 .. n}
  BY DEF First
<1>6. k \in 0 .. n + 1
  BY <1>4
<1> HIDE DEF S, m, n, a
<1>7. Range(SubSeq(a, 1, k)) = {a[i] : i \in 1 .. k}
  <2>1. DOMAIN SubSeq(a, 1, k) = 1 .. k /\ \A i \in 1 .. k : SubSeq(a, 1, k)[i] = a[i]
    <3>1. /\ SubSeq(a, 1, k) \in Seq(S)
          /\ Len(SubSeq(a, 1, k)) = IF 1 <= k THEN k - 1 + 1 ELSE 0
          /\ \A i \in 1 .. k - 1 + 1 : SubSeq(a, 1, k)[i] = a[1 + i - 1]
      <4>1. \A i \in 1 .. k : a[i] \in S
        BY <1>1, <1>4, <1>6
      <4> QED
        BY <1>1, <1>4, <1>6, <4>1, SubSeqProperties
    <3> QED
      BY <1>1, <1>6, <3>1
  <2> QED
    BY <2>1 DEF Range
<1>8. CASE k <= n
  <2>1. \A i \in 1 .. k : a[i] = m[i]
    BY <1>1, <1>4, <1>6, <1>8
  <2> QED
    BY <1>1, <1>4, <1>5, <1>7, <1>8, <2>1 DEF n, a
<1>9. CASE ~(k <= n)
  <2>1. k = n + 1 /\ 1 .. k = (1 .. n) \cup {n + 1}
    BY <1>1, <1>6, <1>9
  <2>2. {a[i] : i \in 1 .. k} = {m[i] : i \in 1 .. n} \cup {last}
    BY <1>4, <2>1
  <2> QED
    BY <1>1, <1>4, <1>5, <1>7, <1>9, <2>2 DEF n, a, last
<1> QED
  BY <1>8, <1>9

\* Whatever the path, and however far the database has come in making the directories,
\* what is left is a tree.
THEOREM TreeKept ==
    ASSUME NEW fs, IsTree(fs), NEW path \in Names
    PROVE  /\ Grown(fs, MakeDirs(fs, Makeable(fs, path)))
           /\ Creatable(fs, path) =>
                 /\ Grown(fs, MakeDirs(fs, Range(Made(fs, path))))
                 /\ \A k \in 0 .. Len(Made(fs, path)) :
                       Grown(fs, MakeDirs(fs, Range(SubSeq(Made(fs, path), 1, k))))
<1> DEFINE n == TakenOff(fs, path)
           a == Made(fs, path)
           at == Locate(fs, path).at
           S == First(fs, path, n)
           g == MakeDirs(fs, S)
<1>1. n \in Nat /\ Len(a) = n + 1 /\ (\E T : a \in Seq(T)) /\ 0 \in 0 .. Len(a)
  <2>1. TakenOff(fs, path) \in Nat /\ Len(Missing(fs, path)) = TakenOff(fs, path)
        /\ \E T : Missing(fs, path) \in Seq(T)
    <3> DEFINE m == Missing(fs, path)
               T == {m[i] : i \in 1 .. n}
    <3>1. n \in Nat
      BY KeptIs
    <3>2. DOMAIN m = 1 .. n /\ m = [i \in 1 .. n |-> m[i]]
      BY DEF Missing
    <3>3. \A i \in 1 .. n : m[i] \in T
      OBVIOUS
    <3> HIDE DEF m, T, n
    <3>4. m \in Seq(T) /\ Len(m) = n
      BY <3>1, <3>2, <3>3, SequenceOf
    <3> QED
      BY <3>1, <3>4 DEF m, n
  <2>2. Len(a) \in Nat /\ Len(a) = n + 1
    <3>1. PICK T : Missing(fs, path) \in Seq(T)
      BY <2>1
    <3> DEFINE last == Append(at, "partitions")
               U == T \cup {last}
    <3>2. Missing(fs, path) \in Seq(U) /\ last \in U
      <4>1. T \subseteq U /\ last \in U
        OBVIOUS
      <4> HIDE DEF U
      <4> QED
        BY <3>1, <4>1, SeqMonotonic
    <3> HIDE DEF U, last
    <3>3. Len(Append(Missing(fs, path), last)) = Len(Missing(fs, path)) + 1
      BY <3>2, AppendProperties
    <3> QED
      BY <2>1, <3>3 DEF Made, last
  <2>3. 0 \in 0 .. Len(a)
    BY <2>2
  <2> HIDE DEF a, n
  <2> QED
    BY <2>2, <2>3, FirstOfMade DEF a, n
<1> SUFFICES ASSUME Creatable(fs, path)
             PROVE  /\ Grown(fs, MakeDirs(fs, Range(a)))
                    /\ \A k \in 0 .. Len(a) : Grown(fs, MakeDirs(fs, Range(SubSeq(a, 1, k))))
  BY MakeableGrows
<1>2. ASSUME NEW k \in 0 .. n
      PROVE  /\ Grown(fs, MakeDirs(fs, First(fs, path, k)))
             /\ k # 0 => Real(MakeDirs(fs, First(fs, path, k)), Missing(fs, path)[k])
  <2>1. ComesTo(fs, path, k)
    <3>1. 1 .. k \subseteq 1 .. n
      BY <1>1
    <3> HIDE DEF n
    <3> QED
      BY <3>1 DEF Creatable, ComesTo, n
  <2> QED
    BY <2>1, ComesToGrows
<1>3. Grown(fs, g)
  BY <1>1, <1>2
<1>4. Real(g, at) /\ at \in Names
  <2>1. Real(g, at)
    <3>1. CASE n = 0
      <4>1. Existing(fs, path) = path
        BY <3>1, EmptyPath, ExistingIs, EmptySeq DEF Names
      <4>2. Canonicalize(fs, path).end = "found"
        BY <4>1 DEF Creatable
      <4>3. Canonicalize(g, path).end = "found"
        BY <1>3, <4>2, CanonicalStays
      <4> QED
        BY <1>3, <4>3, FoundIsLocated
    <3>2. CASE n # 0
      <4>1. n \in 1 .. n /\ n \in 1 .. TakenOff(fs, path)
        BY <1>1, <3>2
      <4>2. at = Missing(fs, path)[n]
        BY <4>1, MissingIs
      <4> QED
        BY <1>2, <3>2, <4>1, <4>2
    <3> QED
      BY <3>1, <3>2
  <2> HIDE DEF g, at
  <2>2. at \in Names
    <3>1. <<>> \in Names
      BY DEF Names
    <3> QED
      BY <1>3, <2>1, <3>1 DEF Real, Grown, IsTree
  <2> QED
    BY <2>1, <2>2
<1>5. Grown(fs, MakeDirs(fs, S \cup {Append(at, "partitions")}))
  <2>1. /\ Append(at, "partitions") \in Names /\ Append(at, "partitions") # <<>>
        /\ Front(Append(at, "partitions")) = at
    BY <1>4, Appended, ComponentAssumption
  <2> QED
    BY <1>3, <1>4, <2>1, OneDirMore
<1>6. ASSUME NEW k \in 0 .. Len(a) PROVE Grown(fs, MakeDirs(fs, Range(SubSeq(a, 1, k))))
  <2>1. CASE k <= n
    <3>1. Range(SubSeq(a, 1, k)) = First(fs, path, k)
      BY <2>1, FirstOfMade
    <3>2. k \in 0 .. n
      BY <1>1, <2>1
    <3> QED
      BY <1>2, <3>1, <3>2
  <2>2. CASE ~(k <= n)
    <3>1. Range(SubSeq(a, 1, k)) = S \cup {Append(at, "partitions")}
      BY <2>2, FirstOfMade
    <3> QED
      BY <1>5, <3>1
  <2> QED
    BY <2>1, <2>2
<1>7. SubSeq(a, 1, Len(a)) = a /\ Len(a) \in 0 .. Len(a)
  BY <1>1, SubSeqFull
<1> QED
  BY <1>6, <1>7
=============================================================================
