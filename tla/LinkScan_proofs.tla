--------------------------- MODULE LinkScan_proofs ---------------------------
(***************************************************************************)
(* Proof that a pass over the roots watches exactly what is below them,     *)
(* through links, for every tree, every sequence of roots and every order   *)
(* of the entries of a directory.                                           *)
(***************************************************************************)
EXTENDS LinkScan, FiniteSetTheorems, SequenceTheorems, TLAPS

Frame == [path : Paths, any : BOOLEAN]

(* What a call of scan stands for, and those still to come. *)
MeantBy(f) ==
  IF monitor = "inotify" /\ ~f.any /\ tree[f.path] # Dir THEN {} ELSE Meant(f.path)

Ahead(s) == UNION {MeantBy(s[i]) : i \in DOMAIN s}

Below(p) == UNION {Meant(c) : c \in Entered(p)}

(* Links are not watched when they are followed;                            *)
LinksFollowed == follow => \A p \in watched : ~IsLink(p)

(* nothing is watched, or will be, that is not below the roots;             *)
Sound == \A S \in SUBSET Paths : Closed(S) => watched \cup Ahead(todo) \subseteq S

(* and what is below a root that was visited, or below a directory that is  *)
(* watched, is watched or will be.                                          *)
Exact == monitor = "poll" \/ follow

Complete ==
  Exact =>
    /\ \A i \in DOMAIN Roots : i < root => Meant(Roots[i]) \subseteq watched \cup Ahead(todo)
    /\ \A p \in watched : Recursive /\ tree[p] = Dir => Below(p) \subseteq watched \cup Ahead(todo)

IInv == TypeOK /\ ATree(tree) /\ LinksFollowed /\ Sound /\ Complete

-----------------------------------------------------------------------------
(* Sequences of calls.                                                      *)

LEMMA AheadEmpty == Ahead(<<>>) = {}
  BY DEF Ahead

LEMMA AheadOne == ASSUME NEW f PROVE Ahead(<<f>>) = MeantBy(f)
  BY DEF Ahead

LEMMA AheadConcat ==
  ASSUME NEW s \in Seq(Frame), NEW t \in Seq(Frame)
  PROVE  Ahead(s \o t) = Ahead(s) \cup Ahead(t)
  <1>1. /\ s \o t \in Seq(Frame) /\ Len(s \o t) = Len(s) + Len(t)
        /\ \A i \in 1 .. Len(s) + Len(t) :
             (s \o t)[i] = IF i <= Len(s) THEN s[i] ELSE t[i - Len(s)]
    BY ConcatProperties
  <1>2. /\ DOMAIN s = 1 .. Len(s) /\ DOMAIN t = 1 .. Len(t)
        /\ DOMAIN (s \o t) = 1 .. Len(s) + Len(t)
        /\ Len(s) \in Nat /\ Len(t) \in Nat
    BY <1>1, LenProperties
  <1>3. ASSUME NEW i \in DOMAIN (s \o t)
        PROVE  MeantBy((s \o t)[i]) \subseteq Ahead(s) \cup Ahead(t)
    <2>1. CASE i <= Len(s)
      BY <1>1, <1>2, <2>1 DEF Ahead
    <2>2. CASE ~(i <= Len(s))
      <3>1. i - Len(s) \in DOMAIN t /\ (s \o t)[i] = t[i - Len(s)]
        BY <1>1, <1>2, <2>2
      <3> QED
        BY <3>1 DEF Ahead
    <2> QED
      BY <2>1, <2>2
  <1>4. ASSUME NEW i \in DOMAIN s PROVE MeantBy(s[i]) \subseteq Ahead(s \o t)
    <2>1. i \in DOMAIN (s \o t) /\ (s \o t)[i] = s[i]
      BY <1>1, <1>2
    <2> QED
      BY <2>1 DEF Ahead
  <1>5. ASSUME NEW i \in DOMAIN t PROVE MeantBy(t[i]) \subseteq Ahead(s \o t)
    <2>1. i + Len(s) \in DOMAIN (s \o t) /\ (s \o t)[i + Len(s)] = t[i]
      BY <1>1, <1>2
    <2> QED
      BY <2>1 DEF Ahead
  <1>6. Ahead(s \o t) \subseteq Ahead(s) \cup Ahead(t)
    BY <1>3 DEF Ahead
  <1>7. Ahead(s) \subseteq Ahead(s \o t) /\ Ahead(t) \subseteq Ahead(s \o t)
    BY <1>4, <1>5 DEF Ahead
  <1> QED
    BY <1>6, <1>7

LEMMA AheadHead ==
  ASSUME NEW s \in Seq(Frame), s # <<>>
  PROVE  Ahead(s) = MeantBy(Head(s)) \cup Ahead(Tail(s))
  <1>1. Head(s) \in Frame /\ Tail(s) \in Seq(Frame)
    BY HeadTailProperties
  <1>2. s = <<Head(s)>> \o Tail(s)
    OBVIOUS
  <1>3. <<Head(s)>> \in Seq(Frame)
    BY <1>1
  <1> QED
    BY <1>1, <1>2, <1>3, AheadConcat, AheadOne

LEMMA AheadChildren ==
  ASSUME NEW p, NEW cs \in SetToSeqs(Children(p))
  PROVE  LET s == [i \in DOMAIN cs |-> Item(cs[i], FALSE)]
         IN  s \in Seq(Frame) /\ Ahead(s) = Below(p)
  <1> DEFINE C == Children(p)
             n == Cardinality(C)
             s == [i \in DOMAIN cs |-> Item(cs[i], FALSE)]
  <1>1. IsFiniteSet(C) /\ n \in Nat /\ C \subseteq Paths
    BY LinksAssumption, FS_Subset, FS_CardinalityType DEF Children
  <1>2. cs \in [1 .. n -> C] /\ \A i, j \in 1 .. n : i # j => cs[i] # cs[j]
    BY DEF SetToSeqs
  <1> HIDE DEF C, n
  <1>3. \A c \in C : \E i \in 1 .. n : cs[i] = c
    <2>1. cs \in Injection(1 .. n, C)
      BY <1>2 DEF Injection, IsInjective
    <2>2. Cardinality(1 .. n) = n
      BY <1>1, FS_Interval
    <2>3. cs \in Surjection(1 .. n, C)
      BY <1>1, <2>1, <2>2, FS_Injection DEF n
    <2> QED
      BY <2>3 DEF Surjection
  <1>4. DOMAIN cs = 1 .. n
    BY <1>2
  <1>5. ASSUME NEW i \in 1 .. n PROVE s[i] = Item(cs[i], FALSE) /\ s[i] \in Frame /\ s[i].path = cs[i]
    BY <1>1, <1>2, <1>4, <1>5 DEF Item, Frame
  <1>6. DOMAIN s = 1 .. n
    BY <1>4
  <1>7. s \in Seq(Frame)
    <2> DEFINE Child(c) == Item(c, FALSE)
    <2>1. \A c \in C : Child(c) \in Frame
      BY <1>1 DEF Item, Frame
    <2>2. cs \in [1 .. n -> C]
      BY <1>2
    <2>3. s = [i \in DOMAIN cs |-> Child(cs[i])]
      OBVIOUS
    <2> HIDE DEF Child, s
    <2>4. s \in [1 .. n -> Frame]
      BY <1>4, <2>1, <2>2, <2>3
    <2> QED
      BY <1>1, <2>4
  <1> HIDE DEF s
  <1>8. Ahead(s) \subseteq Below(p)
    <2>1. ASSUME NEW i \in DOMAIN s PROVE MeantBy(s[i]) \subseteq Below(p)
      <3>1. s[i].path = cs[i] /\ cs[i] \in C /\ ~s[i].any
        BY <1>2, <1>5, <1>6 DEF Item
      <3> QED
        BY <3>1 DEF MeantBy, Below, Entered, C
    <2> QED
      BY <2>1 DEF Ahead
  <1>9. Below(p) \subseteq Ahead(s)
    <2>1. ASSUME NEW c \in Entered(p) PROVE Meant(c) \subseteq Ahead(s)
      <3>1. PICK i \in 1 .. n : cs[i] = c
        BY <1>3 DEF Entered, C
      <3>2. s[i].path = c
        BY <1>5, <3>1
      <3>3. MeantBy(s[i]) = Meant(c)
        BY <3>2 DEF MeantBy, Entered
      <3> QED
        BY <1>6, <3>3 DEF Ahead
    <2> QED
      BY <2>1 DEF Below, C
  <1> QED
    BY <1>7, <1>8, <1>9 DEF s

(* What a path stands for.                                                  *)
LEMMA MeantFacts ==
  ASSUME TypeOK, ATree(tree), NEW p \in Paths
  PROVE  /\ Meant(p) \subseteq Paths
         /\ tree[p] = Absent => Meant(p) = {}
         /\ ~(follow /\ IsLink(p)) => Meant(p) \subseteq {p}
         /\ ~(follow /\ IsLink(p)) /\ tree[p] # Absent /\ Accepted(p) => Meant(p) = {p}
         /\ ~(follow /\ IsLink(p)) /\ ~Accepted(p) => Meant(p) = {}
         /\ follow /\ tree[p] = Broken => Meant(p) = {}
         /\ follow /\ IsLink(p) /\ tree[p] # Broken =>
              tree[p] \in Paths /\ Meant(p) = Meant(tree[p])
  <1>1. Broken \notin Paths /\ Absent \notin Paths /\ Absent # Broken
    BY LinksAssumption
  <1>2. ASSUME follow, IsLink(p), tree[p] # Broken
        PROVE  tree[p] \in Paths /\ Meant(p) = Meant(tree[p])
    <2>1. tree[p] \in Paths /\ tree[p] # Absent
      BY <1>1, <1>2 DEF IsLink
    <2>2. tree[tree[p]] \in Objects
      BY <2>1 DEF ATree
    <2>3. tree[tree[p]] # Absent /\ ~IsLink(tree[p])
      BY <2>2, LinksAssumption DEF IsLink, Objects
    <2>4. Meant(p) = {q \in {tree[p]} : q \in Paths /\ Accepted(q)}
      BY <1>2, <2>1 DEF Meant
    <2>5. Meant(tree[p]) = {q \in {tree[p]} : q \in Paths /\ Accepted(q)}
      BY <2>3 DEF Meant
    <2> QED
      BY <2>1, <2>4, <2>5
  <1>3. follow /\ tree[p] = Broken => Meant(p) = {}
    BY <1>1 DEF Meant, IsLink
  <1>4. ASSUME ~(follow /\ IsLink(p)), tree[p] # Absent
        PROVE  Meant(p) = {q \in {p} : q \in Paths /\ Accepted(q)}
    BY <1>4 DEF Meant
  <1>5. tree[p] = Absent => Meant(p) = {}
    BY DEF Meant
  <1>6. Meant(p) \subseteq Paths
    BY DEF Meant
  <1> QED
    BY <1>2, <1>3, <1>4, <1>5, <1>6

-----------------------------------------------------------------------------
(* The steps.                                                               *)

Static == UNCHANGED <<tree, monitor, follow>>

LEMMA StaticSame ==
  ASSUME Static
  PROVE  /\ \A p : Meant(p)' = Meant(p)
         /\ \A p : Below(p)' = Below(p)
         /\ \A s : Ahead(s)' = Ahead(s)
         /\ \A S : Closed(S)' <=> Closed(S)
         /\ \A p : IsLink(p)' <=> IsLink(p)
         /\ Exact' <=> Exact
  BY DEF Static, Meant, MeantBy, Below, Entered, Ahead, Closed, IsLink, Accepted, Children, Exact

LEMMA InitHolds == Init => IInv
  <1> SUFFICES ASSUME Init PROVE IInv
    OBVIOUS
  <1>1. TypeOK
    <2>1. Len(Roots) \in Nat
      BY LinksAssumption, LenProperties
    <2> QED
      BY <2>1 DEF Init, TypeOK
  <1>2. \A i \in DOMAIN Roots : ~(i < root)
    BY LinksAssumption, LenProperties DEF Init
  <1> QED
    BY <1>1, <1>2, AheadEmpty DEF Init, IInv, LinksFollowed, Sound, Complete

LEMMA ScannedTyped ==
  ASSUME TypeOK, todo # <<>>
  PROVE  /\ todo \in Seq(Frame)
         /\ Head(todo) \in Frame /\ Scanned \in Paths
         /\ Tail(todo) \in Seq(Frame)
         /\ Ahead(todo) = MeantBy(Head(todo)) \cup Ahead(Tail(todo))
  <1>1. todo \in Seq(Frame)
    BY DEF TypeOK, Frame
  <1>2. Head(todo) \in Frame /\ Tail(todo) \in Seq(Frame)
    BY <1>1, HeadTailProperties
  <1>3. Scanned \in Paths
    BY <1>2 DEF Scanned, Frame
  <1>4. Ahead(todo) = MeantBy(Head(todo)) \cup Ahead(Tail(todo))
    BY <1>1, AheadHead
  <1> QED
    BY <1>1, <1>2, <1>3, <1>4

LEMMA VisitRootHolds == IInv /\ VisitRoot => IInv'
  <1> SUFFICES ASSUME IInv, VisitRoot PROVE IInv'
    OBVIOUS
  <1> DEFINE r == Roots[root]
  <1>1. Static /\ watched' = watched /\ todo = <<>> /\ root' = root + 1
    BY DEF VisitRoot, Static
  <1>2. /\ Len(Roots) \in Nat /\ DOMAIN Roots = 1 .. Len(Roots)
        /\ root \in DOMAIN Roots /\ r \in Paths
        /\ root \in Nat /\ root' \in 1 .. Len(Roots) + 1
    <2>1. Len(Roots) \in Nat /\ DOMAIN Roots = 1 .. Len(Roots)
      BY LinksAssumption, LenProperties
    <2>2. root \in 1 .. Len(Roots)
      BY <2>1 DEF IInv, TypeOK, VisitRoot
    <2> QED
      BY <1>1, <2>1, <2>2, LinksAssumption, ElementOfSeq
  <1>3. /\ Item(r, TRUE) \in Frame
        /\ Ahead(<<Item(r, TRUE)>>) = Meant(r)
    <2>1. Item(r, TRUE) \in Frame /\ MeantBy(Item(r, TRUE)) = Meant(r)
      BY <1>2 DEF Item, Frame, MeantBy
    <2> QED
      BY <2>1, AheadOne
  <1>4. todo' \in Seq(Frame) /\ Ahead(todo') \subseteq Meant(r)
    <2>1. CASE todo' = <<>>
      BY <2>1, AheadEmpty
    <2>2. CASE todo' = <<Item(r, TRUE)>>
      <3> DEFINE f == Item(r, TRUE)
      <3>1. f \in Frame /\ Ahead(<<f>>) = Meant(r)
        BY <1>3
      <3> HIDE DEF f
      <3>2. <<f>> \in Seq(Frame)
        BY <3>1
      <3> QED
        BY <2>2, <3>1, <3>2 DEF f
    <2> QED
      BY <2>1, <2>2 DEF VisitRoot
  <1>5. Ahead(todo) = {}
    BY <1>1, AheadEmpty
  <1> HIDE DEF r
  <1>6. TypeOK'
    BY <1>1, <1>2, <1>4 DEF IInv, TypeOK, Static, Frame
  <1>7. ATree(tree)' /\ LinksFollowed'
    BY <1>1, StaticSame DEF IInv, ATree, Static, LinksFollowed
  <1>8. Sound'
    <2>1. ASSUME NEW S \in SUBSET Paths, Closed(S) PROVE watched \cup Ahead(todo') \subseteq S
      <3>1. Meant(r) \subseteq S
        BY <1>2, <2>1 DEF Closed, r
      <3> QED
        BY <1>4, <2>1, <3>1 DEF IInv, Sound
    <2> QED
      BY <1>1, <2>1, StaticSame DEF Sound
  <1>9. Complete'
    <2> SUFFICES ASSUME Exact PROVE Complete'
      BY <1>1, StaticSame DEF Complete
    <2>1. Meant(r) \subseteq watched \cup Ahead(todo')
      <3>1. CASE todo' = <<Item(r, TRUE)>>
        BY <1>3, <3>1
      <3>2. CASE monitor # "poll" /\ r \in watched
        <4>1. follow /\ ~IsLink(r)
          BY <3>2 DEF Exact, IInv, LinksFollowed
        <4> QED
          BY <1>2, <3>2, <4>1, MeantFacts DEF IInv
      <3> QED
        BY <3>1, <3>2 DEF VisitRoot, r
    <2>2. ASSUME NEW i \in DOMAIN Roots, i < root'
          PROVE  Meant(Roots[i]) \subseteq watched \cup Ahead(todo')
      <3>1. i < root \/ i = root
        BY <1>1, <1>2, <2>2
      <3> QED
        BY <1>5, <2>1, <3>1 DEF IInv, Complete, r
    <2>3. \A p \in watched : Recursive /\ tree[p] = Dir => Below(p) \subseteq watched \cup Ahead(todo')
      BY <1>5 DEF IInv, Complete
    <2> QED
      BY <1>1, <2>2, <2>3, StaticSame DEF Complete, Static
  <1> QED
    BY <1>6, <1>7, <1>8, <1>9 DEF IInv

(* A step that watches nothing, and forgets nothing a call stands for.      *)
LEMMA QuietStep ==
  ASSUME IInv, Static, UNCHANGED <<root, watched>>, todo' \in Seq(Frame),
         Ahead(todo') \subseteq Ahead(todo),
         Exact => Ahead(todo) \subseteq watched \cup Ahead(todo')
  PROVE  IInv'
  <1>1. TypeOK'
    BY DEF IInv, TypeOK, Static, Frame
  <1>2. ATree(tree)' /\ LinksFollowed'
    BY StaticSame DEF IInv, ATree, Static, LinksFollowed
  <1>3. Sound'
    BY StaticSame DEF IInv, Sound
  <1>4. Complete'
    <2> SUFFICES ASSUME Exact PROVE Complete'
      BY StaticSame DEF Complete
    <2>1. watched \cup Ahead(todo) \subseteq watched \cup Ahead(todo')
      OBVIOUS
    <2>2. \A i \in DOMAIN Roots : i < root => Meant(Roots[i]) \subseteq watched \cup Ahead(todo')
      BY <2>1 DEF IInv, Complete
    <2>3. \A p \in watched : Recursive /\ tree[p] = Dir => Below(p) \subseteq watched \cup Ahead(todo')
      BY <2>1 DEF IInv, Complete
    <2> QED
      BY <2>2, <2>3, StaticSame DEF Complete, Static
  <1> QED
    BY <1>1, <1>2, <1>3, <1>4 DEF IInv

LEMMA FollowLinkHolds == IInv /\ FollowLink => IInv'
  <1> SUFFICES ASSUME IInv, FollowLink PROVE IInv'
    OBVIOUS
  <1>1. /\ Static /\ UNCHANGED <<root, watched>> /\ todo # <<>>
        /\ follow /\ IsLink(Scanned) /\ TypeOK /\ ATree(tree)
    BY DEF FollowLink, ToFollow, Static, IInv
  <1>2. /\ Head(todo) \in Frame /\ Scanned \in Paths /\ Tail(todo) \in Seq(Frame)
        /\ Ahead(todo) = Meant(Scanned) \cup Ahead(Tail(todo))
        /\ monitor = "inotify" => Head(todo).any
    <2>1. monitor = "inotify" => Head(todo).any
      BY <1>1, LinksAssumption DEF FollowLink, ToFollow, LookedAt, IsLink, Objects
    <2> QED
      BY <1>1, <2>1, ScannedTyped DEF MeantBy, Scanned
  <1>3. CASE tree[Scanned] = Broken
    <2>1. todo' = Tail(todo) /\ Meant(Scanned) = {}
      BY <1>1, <1>2, <1>3, MeantFacts DEF FollowLink
    <2> QED
      BY <1>1, <1>2, <2>1, QuietStep
  <1>4. CASE tree[Scanned] # Broken
    <2> DEFINE f == Item(tree[Scanned], Head(todo).any)
    <2>1. todo' = <<f>> \o Tail(todo)
      BY <1>4 DEF FollowLink
    <2>2. tree[Scanned] \in Paths /\ Meant(Scanned) = Meant(tree[Scanned])
      BY <1>1, <1>2, <1>4, MeantFacts
    <2>3. f \in Frame /\ MeantBy(f) = Meant(tree[Scanned])
      BY <1>2, <2>2 DEF Item, Frame, MeantBy
    <2> HIDE DEF f
    <2>4. <<f>> \in Seq(Frame) /\ Ahead(<<f>>) = Meant(Scanned)
      BY <2>2, <2>3, AheadOne
    <2>5. todo' \in Seq(Frame) /\ Ahead(todo') = Meant(Scanned) \cup Ahead(Tail(todo))
      BY <1>2, <2>1, <2>4, AheadConcat, ConcatProperties
    <2> QED
      BY <1>1, <1>2, <2>5, QuietStep
  <1> QED
    BY <1>3, <1>4

LEMMA LeavingHolds == IInv /\ (AddFails \/ LeaveOut) => IInv'
  <1> SUFFICES ASSUME IInv, AddFails \/ LeaveOut PROVE IInv'
    OBVIOUS
  <1>1. /\ Static /\ UNCHANGED <<root, watched>> /\ todo # <<>> /\ todo' = Tail(todo)
        /\ TypeOK /\ ATree(tree)
    BY DEF AddFails, LeaveOut, Static, IInv
  <1>2. /\ Scanned \in Paths /\ Tail(todo) \in Seq(Frame)
        /\ Ahead(todo) = MeantBy(Head(todo)) \cup Ahead(Tail(todo))
    BY <1>1, ScannedTyped
  <1>3. ASSUME Exact PROVE MeantBy(Head(todo)) \subseteq watched
    <2>1. LeaveOut
      BY <1>3 DEF Exact, AddFails, ToAdd, IsLink
    <2>2. CASE ~LookedAt
      <3>1. tree[Scanned] = Absent \/ (monitor = "inotify" /\ ~Head(todo).any /\ tree[Scanned] # Dir)
        BY <2>2 DEF LookedAt
      <3> QED
        BY <1>1, <1>2, <3>1, MeantFacts DEF MeantBy, Scanned
    <2>3. CASE LookedAt
      <3>1. ~(follow /\ IsLink(Scanned)) /\ (~Accepted(Scanned) \/ Scanned \in watched)
        BY <2>1, <2>3 DEF LeaveOut, ToFollow, ToAdd
      <3>2. Meant(Scanned) \subseteq watched
        BY <1>1, <1>2, <3>1, MeantFacts
      <3> QED
        BY <3>2 DEF MeantBy, Scanned
    <2> QED
      BY <2>2, <2>3
  <1> QED
    BY <1>1, <1>2, <1>3, QuietStep

LEMMA AddHolds == IInv /\ Add => IInv'
  <1> SUFFICES ASSUME IInv, Add PROVE IInv'
    OBVIOUS
  <1> DEFINE p == Scanned
             K == IF Recursive /\ tree[p] = Dir THEN Below(p) ELSE {}
  <1>1. /\ Static /\ root' = root /\ watched' = watched \cup {p} /\ todo # <<>>
        /\ tree[p] # Absent /\ ~(follow /\ IsLink(p)) /\ Accepted(p)
        /\ TypeOK /\ ATree(tree)
    BY DEF Add, ToAdd, LookedAt, Static, IInv
  <1>2. /\ p \in Paths /\ Tail(todo) \in Seq(Frame)
        /\ Ahead(todo) = Meant(p) \cup Ahead(Tail(todo))
    <2>1. monitor = "inotify" => Head(todo).any \/ tree[p] = Dir
      BY DEF Add, ToAdd, LookedAt
    <2>2. MeantBy(Head(todo)) = Meant(p)
      BY <2>1 DEF MeantBy, Scanned
    <2> QED
      BY <1>1, <2>2, ScannedTyped
  <1>3. Meant(p) = {p}
    BY <1>1, <1>2, MeantFacts
  <1>4. todo' \in Seq(Frame) /\ Ahead(todo') = K \cup Ahead(Tail(todo))
    <2>1. CASE Recursive /\ tree[p] = Dir
      <3>1. PICK cs \in SetToSeqs(Children(p)) :
              todo' = [i \in DOMAIN cs |-> Item(cs[i], FALSE)] \o Tail(todo)
        BY <2>1 DEF Add
      <3> DEFINE s == [i \in DOMAIN cs |-> Item(cs[i], FALSE)]
      <3>2. s \in Seq(Frame) /\ Ahead(s) = Below(p)
        BY <3>1, AheadChildren
      <3> HIDE DEF s
      <3>3. todo' = s \o Tail(todo)
        BY <3>1 DEF s
      <3> QED
        BY <1>2, <2>1, <3>2, <3>3, AheadConcat, ConcatProperties
    <2>2. CASE ~(Recursive /\ tree[p] = Dir)
      BY <1>2, <2>2 DEF Add
    <2> QED
      BY <2>1, <2>2
  <1>5. watched' \cup Ahead(todo') = watched \cup Ahead(todo) \cup K
    BY <1>1, <1>2, <1>3, <1>4
  <1>6. TypeOK'
    BY <1>1, <1>2, <1>4 DEF TypeOK, Static, Frame
  <1>7. ATree(tree)' /\ LinksFollowed'
    BY <1>1, StaticSame DEF IInv, ATree, Static, LinksFollowed
  <1>8. Sound'
    <2>1. ASSUME NEW S \in SUBSET Paths, Closed(S)
          PROVE  watched' \cup Ahead(todo') \subseteq S
      <3>1. watched \cup Ahead(todo) \subseteq S
        BY <2>1 DEF IInv, Sound
      <3>2. p \in S
        BY <1>2, <1>3, <3>1
      <3>3. K \subseteq S
        BY <2>1, <3>2 DEF Closed, Below
      <3> QED
        BY <1>5, <3>1, <3>3
    <2> QED
      BY <1>1, <2>1, StaticSame DEF Sound
  <1>9. Complete'
    <2> SUFFICES ASSUME Exact PROVE Complete'
      BY <1>1, StaticSame DEF Complete
    <2>1. \A i \in DOMAIN Roots : i < root => Meant(Roots[i]) \subseteq watched' \cup Ahead(todo')
      BY <1>5 DEF IInv, Complete
    <2>2. ASSUME NEW q \in watched', Recursive, tree[q] = Dir
          PROVE  Below(q) \subseteq watched' \cup Ahead(todo')
      <3>1. CASE q \in watched
        BY <1>5, <2>2, <3>1 DEF IInv, Complete
      <3>2. CASE q = p
        BY <1>5, <2>2, <3>2
      <3> QED
        BY <1>1, <3>1, <3>2
    <2> QED
      BY <1>1, <2>1, <2>2, StaticSame DEF Complete, Static
  <1> QED
    BY <1>6, <1>7, <1>8, <1>9 DEF IInv

LEMMA NextKeepsIInv == IInv /\ [Next]_vars => IInv'
  <1> SUFFICES ASSUME IInv, [Next]_vars PROVE IInv'
    OBVIOUS
  <1>1. CASE Next
    BY <1>1, VisitRootHolds, FollowLinkHolds, AddHolds, LeavingHolds DEF Next
  <1>2. CASE UNCHANGED vars
    <2>1. Static /\ UNCHANGED <<root, watched, todo>>
      BY <1>2 DEF vars, Static
    <2>2. todo' \in Seq(Frame)
      BY <2>1 DEF IInv, TypeOK, Frame
    <2> QED
      BY <2>1, <2>2, QuietStep
  <1> QED
    BY <1>1, <1>2

(* The inductive invariant holds in every state.                            *)
THEOREM ScanInvariant == Spec => []IInv
  BY InitHolds, NextKeepsIInv, PTL DEF Spec

(* Every state of a pass is well typed, and nothing is watched that lstat   *)
(* did not find.                                                            *)
THEOREM ScanTypeOK == Spec => []TypeOK
  <1>1. IInv => TypeOK
    BY DEF IInv
  <1> QED
    BY <1>1, ScanInvariant, PTL

(* A pass (scan) watches exactly what is below the roots: the poll and the  *)
(* kqueue monitor through all links, the inotify monitor through roots that *)
(* are links.                                                               *)
THEOREM PassExact == Spec => []ScanExact
  <1>1. IInv => ScanExact
    <2> SUFFICES ASSUME IInv, Done, Exact PROVE watched = Wanted
      BY DEF ScanExact, Exact
    <2>1. Ahead(todo) = {} /\ watched \subseteq Paths
      BY AheadEmpty DEF Done, IInv, TypeOK
    <2>2. watched \subseteq Wanted
      BY <2>1 DEF IInv, Sound, Wanted
    <2>3. Closed(watched)
      <3>1. \A i \in DOMAIN Roots : i < root
        BY LinksAssumption, LenProperties DEF Done, IInv, TypeOK
      <3> QED
        BY <2>1, <3>1 DEF Closed, IInv, Complete, Below
    <2>4. Wanted \subseteq watched
      BY <2>1, <2>3 DEF Wanted
    <2> QED
      BY <2>2, <2>4
  <1> QED
    BY <1>1, ScanInvariant, PTL
-----------------------------------------------------------------------------
(* Every step of a pass brings it closer to its end.                        *)

Under(p) == {s \in Paths : IsPrefix(p, s)}

UnderAll(s) == {p \in Paths : \E i \in DOMAIN s : p \in Under(s[i].path)}

(* The calls of the inotify monitor that are still to come have nothing in  *)
(* common below them, and only a root may be a link.                        *)
ApartIn(s) ==
  /\ \A i \in DOMAIN s : s[i].any => Len(s) = 1
  /\ \A i, j \in DOMAIN s : i # j => Under(s[i].path) \cap Under(s[j].path) = {}

Apart == monitor = "inotify" => ApartIn(todo)

LEMMA PrefixMeans ==
  ASSUME NEW s \in Seq(Names), NEW t \in Seq(Names)
  PROVE  IsPrefix(s, t) <=> Len(s) <= Len(t) /\ \A i \in 1 .. Len(s) : s[i] = t[i]
  <1>1. Len(s) \in Nat /\ Len(t) \in Nat
    BY LenProperties
  <1>2. CASE Len(s) <= Len(t)
    <2> DEFINE a == SubSeq(s, 1, Len(s))
               b == SubSeq(t, 1, Len(s))
    <2>1. \A i \in 1 .. Len(s) : s[i] \in Names /\ t[i] \in Names
      BY <1>1, <1>2, ElementOfSeq
    <2>2. /\ a \in Seq(Names) /\ Len(a) = Len(s)
          /\ b \in Seq(Names) /\ Len(b) = Len(s)
          /\ \A i \in 1 .. Len(s) : a[i] = s[i] /\ b[i] = t[i]
      BY <1>1, <2>1, SubSeqProperties
    <2>3. a = b <=> \A i \in 1 .. Len(s) : a[i] = b[i]
      BY <2>2, SeqEqual
    <2> QED
      BY <1>2, <2>2, <2>3 DEF IsPrefix
  <1>3. CASE ~(Len(s) <= Len(t))
    BY <1>3 DEF IsPrefix
  <1> QED
    BY <1>2, <1>3

LEMMA PathsAreSeqs == \A p \in Paths : p \in Seq(Names) /\ Len(p) \in Nat
  BY LinksAssumption, LenProperties

LEMMA UnderItself == ASSUME NEW p \in Paths PROVE p \in Under(p)
  BY PathsAreSeqs, PrefixMeans DEF Under

LEMMA ChildUnder ==
  ASSUME NEW p \in Paths, NEW c \in Children(p)
  PROVE  c \in Paths /\ Under(c) \subseteq Under(p) \ {p}
  <1>1. /\ c \in Paths /\ c \in Seq(Names) /\ p \in Seq(Names)
        /\ Len(c) = Len(p) + 1 /\ Len(p) \in Nat
        /\ \A i \in 1 .. Len(p) : p[i] = c[i]
    BY PathsAreSeqs, PrefixMeans DEF Children
  <1>2. ASSUME NEW s \in Under(c) PROVE s \in Under(p) \ {p}
    <2>1. /\ s \in Paths /\ s \in Seq(Names) /\ Len(s) \in Nat
          /\ Len(c) <= Len(s) /\ \A i \in 1 .. Len(c) : c[i] = s[i]
      BY <1>1, PathsAreSeqs, PrefixMeans DEF Under
    <2>2. Len(p) <= Len(s) /\ \A i \in 1 .. Len(p) : p[i] = s[i]
      BY <1>1, <2>1
    <2>3. s # p
      BY <1>1, <2>1
    <2> QED
      BY <1>1, <2>1, <2>2, <2>3, PrefixMeans DEF Under
  <1> QED
    BY <1>1, <1>2

LEMMA ChildrenApart ==
  ASSUME NEW p \in Paths, NEW c \in Children(p), NEW d \in Children(p), c # d
  PROVE  Under(c) \cap Under(d) = {}
  <1> SUFFICES ASSUME NEW s \in Under(c), s \in Under(d) PROVE FALSE
    OBVIOUS
  <1>1. /\ c \in Seq(Names) /\ d \in Seq(Names) /\ s \in Seq(Names)
        /\ Len(c) = Len(d) /\ Len(c) \in Nat
    BY PathsAreSeqs DEF Children, Under
  <1>2. \A i \in 1 .. Len(c) : c[i] = s[i] /\ d[i] = s[i]
    BY <1>1, PrefixMeans DEF Under
  <1> QED
    BY <1>1, <1>2, SeqEqual

(* The head of a stack is replaced.                                         *)
LEMMA ReplacesHead ==
  ASSUME NEW t \in Seq(Frame), t # <<>>, NEW s \in Seq(Frame)
  PROVE  /\ s \o Tail(t) \in Seq(Frame)
         /\ Len(s \o Tail(t)) = Len(s) + Len(t) - 1
         /\ DOMAIN (s \o Tail(t)) = 1 .. Len(s) + Len(t) - 1
         /\ \A i \in 1 .. Len(s) : (s \o Tail(t))[i] = s[i]
         /\ \A i \in 1 .. Len(s) + Len(t) - 1 :
              i > Len(s) => (s \o Tail(t))[i] = t[i - Len(s) + 1]
  <1>1. /\ Tail(t) \in Seq(Frame) /\ Len(Tail(t)) = Len(t) - 1
        /\ \A i \in 1 .. Len(t) - 1 : Tail(t)[i] = t[i + 1]
    BY HeadTailProperties
  <1>2. Len(s) \in Nat /\ Len(t) \in Nat /\ Len(t) > 0
    BY LenProperties, EmptySeq
  <1>3. /\ s \o Tail(t) \in Seq(Frame)
        /\ Len(s \o Tail(t)) = Len(s) + Len(t) - 1
        /\ \A i \in 1 .. Len(s) + Len(t) - 1 :
             (s \o Tail(t))[i] = IF i <= Len(s) THEN s[i] ELSE Tail(t)[i - Len(s)]
    BY <1>1, <1>2, ConcatProperties
  <1>4. DOMAIN (s \o Tail(t)) = 1 .. Len(s) + Len(t) - 1
    BY <1>3, LenProperties
  <1>5. ASSUME NEW i \in 1 .. Len(s) + Len(t) - 1, i > Len(s)
        PROVE  (s \o Tail(t))[i] = t[i - Len(s) + 1]
    <2>1. i - Len(s) \in 1 .. Len(t) - 1
      BY <1>2, <1>5
    <2>2. Tail(t)[i - Len(s)] = t[i - Len(s) + 1]
      BY <1>1, <2>1
    <2> QED
      BY <1>2, <1>3, <1>5, <2>2
  <1>6. \A i \in 1 .. Len(s) : (s \o Tail(t))[i] = s[i]
    BY <1>2, <1>3
  <1> QED
    BY <1>3, <1>4, <1>5, <1>6

(* Calls for what is strictly below a path, with nothing in common.         *)
CallsBelow(s, p) ==
  /\ \A i \in DOMAIN s : ~s[i].any /\ Under(s[i].path) \subseteq Under(p) \ {p}
  /\ \A i, j \in DOMAIN s : i # j => Under(s[i].path) \cap Under(s[j].path) = {}

LEMMA NothingFollows ==
  ASSUME NEW f PROVE <<f>> \o <<>> = <<f>>
  <1>1. <<f>> \in Seq({f})
    OBVIOUS
  <1> QED
    BY <1>1, ConcatEmptySeq

LEMMA ApartShort == ApartIn(<<>>) /\ \A f : ApartIn(<<f>>)
  <1>1. ApartIn(<<>>)
    BY DEF ApartIn
  <1>2. ASSUME NEW f PROVE ApartIn(<<f>>)
    <2>1. Len(<<f>>) = 1 /\ DOMAIN <<f>> = {1}
      OBVIOUS
    <2> QED
      BY <2>1 DEF ApartIn
  <1> QED
    BY <1>1, <1>2

(* A call of scan is replaced by calls for what is strictly below its path. *)
LEMMA StackShrinks ==
  ASSUME NEW t \in Seq(Frame), t # <<>>, ApartIn(t), NEW s \in Seq(Frame),
         CallsBelow(s, t[1].path)
  PROVE  LET r == s \o Tail(t) IN
         /\ ApartIn(r)
         /\ \A i \in DOMAIN r : ~r[i].any
         /\ Cardinality(UnderAll(r)) < Cardinality(UnderAll(t))
         /\ Cardinality(UnderAll(r)) \in Nat /\ Cardinality(UnderAll(t)) \in Nat
  <1> DEFINE r == s \o Tail(t)
             m == Len(s)
             n == Len(t)
             p == t[1].path
  <1>1. /\ r \in Seq(Frame) /\ Len(r) = m + n - 1 /\ DOMAIN r = 1 .. m + n - 1
        /\ \A i \in 1 .. m : r[i] = s[i]
        /\ \A i \in 1 .. m + n - 1 : i > m => r[i] = t[i - m + 1]
    BY ReplacesHead
  <1>2. m \in Nat /\ n \in Nat /\ n > 0 /\ DOMAIN s = 1 .. m /\ DOMAIN t = 1 .. n
    BY LenProperties, EmptySeq
  <1>3. t[1] \in Frame /\ p \in Paths
    <2>1. 1 \in 1 .. Len(t)
      BY <1>2
    <2>2. t[1] \in Frame
      BY <2>1, ElementOfSeq
    <2> QED
      BY <2>2 DEF Frame
  <1> HIDE DEF r, m, n, p
  <1>4. ASSUME NEW i \in DOMAIN r, i > m
        PROVE  i - m + 1 \in DOMAIN t /\ i - m + 1 # 1 /\ r[i] = t[i - m + 1]
    BY <1>1, <1>2, <1>4
  <1>5. \A k \in DOMAIN t : k # 1 => ~t[k].any /\ Under(t[k].path) \cap Under(p) = {}
    <2> SUFFICES ASSUME NEW k \in DOMAIN t, k # 1
                 PROVE  ~t[k].any /\ Under(t[k].path) \cap Under(p) = {}
      OBVIOUS
    <2>1. Len(t) # 1 /\ 1 \in DOMAIN t
      BY <1>2 DEF n
    <2> QED
      BY <2>1 DEF ApartIn, p
  <1>6. ASSUME NEW i \in DOMAIN r PROVE ~r[i].any
    <2>1. CASE i <= m
      <3>1. i \in DOMAIN s /\ r[i] = s[i]
        BY <1>1, <1>2, <2>1
      <3> QED
        BY <3>1 DEF CallsBelow
    <2>2. CASE i > m
      BY <1>4, <1>5, <2>2
    <2> QED
      BY <1>1, <1>2, <2>1, <2>2
  <1>7. ASSUME NEW i \in DOMAIN r, NEW j \in DOMAIN r, i # j
        PROVE  Under(r[i].path) \cap Under(r[j].path) = {}
    <2>1. ASSUME NEW a \in DOMAIN r, a <= m
          PROVE  a \in DOMAIN s /\ r[a] = s[a] /\ Under(r[a].path) \subseteq Under(p) \ {p}
      <3>1. a \in DOMAIN s /\ r[a] = s[a]
        BY <1>1, <1>2, <2>1
      <3> QED
        BY <3>1 DEF CallsBelow, p
    <2>2. CASE i <= m /\ j <= m
      BY <1>7, <2>1, <2>2 DEF CallsBelow
    <2>3. CASE i <= m /\ j > m
      BY <1>4, <1>5, <2>1, <2>3
    <2>4. CASE i > m /\ j <= m
      BY <1>4, <1>5, <2>1, <2>4
    <2>5. CASE i > m /\ j > m
      <3>1. i - m + 1 # j - m + 1
        BY <1>1, <1>2, <1>7
      <3> QED
        BY <1>4, <2>5, <3>1 DEF ApartIn
    <2> QED
      BY <1>1, <1>2, <2>2, <2>3, <2>4, <2>5
  <1>8. ApartIn(r)
    BY <1>6, <1>7 DEF ApartIn
  <1>9. p \in UnderAll(t) /\ UnderAll(r) \subseteq UnderAll(t) \ {p}
    <2>1. p \in Under(p) /\ 1 \in DOMAIN t
      BY <1>2, <1>3, UnderItself
    <2>2. ASSUME NEW i \in DOMAIN r, NEW q \in Under(r[i].path)
          PROVE  q # p /\ \E k \in DOMAIN t : q \in Under(t[k].path)
      <3>1. CASE i <= m
        <4>1. i \in DOMAIN s /\ r[i] = s[i]
          BY <1>1, <1>2, <3>1
        <4>2. q \in Under(p) \ {p}
          BY <2>2, <4>1 DEF CallsBelow, p
        <4> QED
          BY <2>1, <4>2 DEF p
      <3>2. CASE i > m
        BY <1>4, <1>5, <2>1, <2>2, <3>2
      <3> QED
        BY <1>1, <1>2, <3>1, <3>2
    <2> QED
      BY <1>3, <2>1, <2>2 DEF UnderAll, p
  <1>10. IsFiniteSet(UnderAll(t)) /\ UnderAll(t) \subseteq Paths
    BY LinksAssumption, FS_Subset DEF UnderAll
  <1>11. Cardinality(UnderAll(t) \ {p}) = Cardinality(UnderAll(t)) - 1
         /\ IsFiniteSet(UnderAll(t) \ {p})
    BY <1>9, <1>10, FS_RemoveElement
  <1>12. Cardinality(UnderAll(r)) <= Cardinality(UnderAll(t) \ {p})
         /\ IsFiniteSet(UnderAll(r))
    BY <1>9, <1>11, FS_Subset
  <1>13. Cardinality(UnderAll(t)) \in Nat /\ Cardinality(UnderAll(r)) \in Nat
    BY <1>10, <1>12, FS_CardinalityType
  <1> QED
    BY <1>6, <1>8, <1>11, <1>12, <1>13 DEF r
-----------------------------------------------------------------------------
LEMMA LessFirst ==
  ASSUME NEW a, NEW b, NEW c, NEW d, NEW e, NEW f, NEW g, NEW h, a < e
  PROVE  Less(<<a, b, c, d>>, <<e, f, g, h>>)
  <1>1. \A j \in 1 .. 1 - 1 : <<a, b, c, d>>[j] = <<e, f, g, h>>[j]
    OBVIOUS
  <1> QED
    BY <1>1 DEF Less

LEMMA LessSecond ==
  ASSUME NEW a, NEW b, NEW c, NEW d, NEW f, NEW g, NEW h, b < f
  PROVE  Less(<<a, b, c, d>>, <<a, f, g, h>>)
  <1>1. \A j \in 1 .. 2 - 1 : <<a, b, c, d>>[j] = <<a, f, g, h>>[j]
    OBVIOUS
  <1> QED
    BY <1>1 DEF Less

LEMMA LessThird ==
  ASSUME NEW a, NEW b, NEW c, NEW d, NEW g, NEW h, c < g
  PROVE  Less(<<a, b, c, d>>, <<a, b, g, h>>)
  <1>1. \A j \in 1 .. 3 - 1 : <<a, b, c, d>>[j] = <<a, b, g, h>>[j]
    OBVIOUS
  <1> QED
    BY <1>1 DEF Less

LEMMA LessFourth ==
  ASSUME NEW a, NEW b, NEW c, NEW d, NEW h, d < h
  PROVE  Less(<<a, b, c, d>>, <<a, b, c, h>>)
  <1>1. \A j \in 1 .. 4 - 1 : <<a, b, c, d>>[j] = <<a, b, c, h>>[j]
    OBVIOUS
  <1> QED
    BY <1>1 DEF Less

LEMMA RootsFewer ==
  ASSUME IInv, VisitRoot
  PROVE  RootsLeft' < RootsLeft
  <1>1. Len(Roots) \in Nat /\ root \in Nat /\ root <= Len(Roots) /\ root' = root + 1
    BY LinksAssumption, LenProperties DEF IInv, TypeOK, VisitRoot
  <1> QED
    BY <1>1 DEF RootsLeft

(* The target of a link is not a link.                                      *)
LEMMA TargetIsNoLink ==
  ASSUME IInv, FollowLink, tree[Scanned] # Broken
  PROVE  /\ todo' = <<Item(tree[Scanned], Head(todo).any)>> \o Tail(todo)
         /\ Head(todo') = Item(tree[Scanned], Head(todo).any)
         /\ AtLink' = 0
  <1> DEFINE f == Item(tree[Scanned], Head(todo).any)
  <1>1. TypeOK /\ ATree(tree) /\ todo # <<>> /\ IsLink(Scanned) /\ tree' = tree
    BY DEF FollowLink, ToFollow, IInv
  <1>2. Scanned \in Paths /\ Head(todo) \in Frame /\ Tail(todo) \in Seq(Frame)
    BY <1>1, ScannedTyped
  <1>3. tree[Scanned] \in Paths /\ tree[tree[Scanned]] \in Objects
    BY <1>1, <1>2 DEF IsLink, ATree
  <1>4. f \in Frame /\ f.path = tree[Scanned]
    BY <1>2, <1>3 DEF Item, Frame
  <1> HIDE DEF f
  <1>5. todo' = <<f>> \o Tail(todo)
    BY DEF FollowLink, f
  <1>6. Head(todo') = f
    <2>1. <<f>> \in Seq(Frame) /\ Len(<<f>>) = 1 /\ <<f>>[1] = f
      BY <1>4
    <2>2. Len(todo') >= 1 /\ todo'[1] = f
      BY <1>2, <1>5, <2>1, ConcatProperties, LenProperties
    <2> QED
      BY <2>2
  <1>7. ~ToFollow'
    <2>1. Scanned' = tree[Scanned]
      BY <1>4, <1>6 DEF Scanned
    <2>2. ~IsLink(Scanned)'
      BY <1>1, <1>3, <2>1, LinksAssumption DEF IsLink
    <2> QED
      BY <2>2 DEF ToFollow
  <1> QED
    BY <1>5, <1>6, <1>7 DEF AtLink, f

LEMMA TailShorter ==
  ASSUME TypeOK, todo # <<>>
  PROVE  Len(Tail(todo)) < Len(todo) /\ Len(todo) \in Nat
  BY ScannedTyped, HeadTailProperties, LenProperties, EmptySeq

(* The poll and the kqueue monitor.                                         *)
LEMMA OthersAdvance ==
  ASSUME IInv, Next, monitor # "inotify"
  PROVE  Less(Remaining', Remaining)
  <1>1. monitor' = monitor /\ TypeOK
    BY DEF IInv, Next, VisitRoot, FollowLink, Add, AddFails, LeaveOut
  <1>2. /\ Remaining = <<Cardinality(Paths \ watched), RootsLeft, Len(todo), AtLink>>
        /\ Remaining' = <<Cardinality(Paths \ watched'), RootsLeft', Len(todo'), AtLink'>>
    BY <1>1 DEF Remaining
  <1>3. CASE VisitRoot
    <2>1. watched' = watched
      BY <1>3 DEF VisitRoot
    <2> QED
      BY <1>2, <1>3, <2>1, RootsFewer, LessSecond
  <1>4. CASE FollowLink
    <2>1. watched' = watched /\ RootsLeft' = RootsLeft /\ todo # <<>> /\ AtLink = 1
      BY <1>4 DEF FollowLink, RootsLeft, AtLink
    <2>2. CASE tree[Scanned] = Broken
      <3>1. todo' = Tail(todo)
        BY <1>4, <2>2 DEF FollowLink
      <3> QED
        BY <1>1, <1>2, <2>1, <3>1, TailShorter, LessThird
    <2>3. CASE tree[Scanned] # Broken
      <3> DEFINE f == Item(tree[Scanned], Head(todo).any)
      <3>1. todo' = <<f>> \o Tail(todo) /\ AtLink' = 0
        BY <1>4, <2>3, TargetIsNoLink
      <3>2. f \in Frame /\ Tail(todo) \in Seq(Frame)
        BY <1>1, <1>4, <2>1, <2>3, ScannedTyped
        DEF FollowLink, ToFollow, IsLink, IInv, TypeOK, Item, Frame, Nodes
      <3>3. Len(todo') = Len(todo)
        <4> HIDE DEF f
        <4>1. <<f>> \in Seq(Frame) /\ Len(<<f>>) = 1
          BY <3>2
        <4>2. Len(todo') = 1 + Len(Tail(todo))
          BY <3>1, <3>2, <4>1, ConcatProperties
        <4>3. Len(Tail(todo)) = Len(todo) - 1 /\ Len(todo) \in Nat
          BY <1>1, <2>1, ScannedTyped, HeadTailProperties, LenProperties
        <4> QED
          BY <4>2, <4>3
      <3> QED
        BY <1>2, <2>1, <3>1, <3>3, LessFourth
    <2> QED
      BY <2>2, <2>3
  <1>5. CASE Add
    <2>1. /\ Scanned \in Paths /\ Scanned \notin watched
          /\ watched' = watched \cup {Scanned}
      BY <1>1, <1>5, ScannedTyped DEF Add, ToAdd
    <2>2. Paths \ watched' = (Paths \ watched) \ {Scanned} /\ Scanned \in Paths \ watched
      BY <2>1
    <2>3. IsFiniteSet(Paths \ watched)
      BY LinksAssumption, FS_Subset
    <2>4. Cardinality(Paths \ watched') < Cardinality(Paths \ watched)
      <3> DEFINE free == Paths \ watched
      <3>1. IsFiniteSet(free) /\ Scanned \in free /\ Paths \ watched' = free \ {Scanned}
        BY <2>2, <2>3
      <3> HIDE DEF free
      <3>2. Cardinality(free) \in Nat /\ Cardinality(free \ {Scanned}) = Cardinality(free) - 1
        BY <3>1, FS_RemoveElement, FS_CardinalityType
      <3> QED
        BY <3>1, <3>2 DEF free
    <2> QED
      BY <1>2, <2>4, LessFirst
  <1>6. CASE AddFails \/ LeaveOut
    <2>1. watched' = watched /\ RootsLeft' = RootsLeft /\ todo # <<>> /\ todo' = Tail(todo)
      BY <1>6 DEF AddFails, LeaveOut, RootsLeft
    <2> QED
      BY <1>1, <1>2, <2>1, TailShorter, LessThird
  <1> QED
    BY <1>3, <1>4, <1>5, <1>6 DEF Next

(* The inotify monitor: it is at a link only when that is a root.           *)
LEMMA OnlyRootsAreLinks ==
  ASSUME IInv, Apart, monitor = "inotify", todo # <<>>, ToFollow
  PROVE  Len(todo) = 1 /\ Tail(todo) = <<>>
  <1>1. todo \in Seq(Frame) /\ Head(todo) = todo[1] /\ 1 \in DOMAIN todo
    BY ScannedTyped, EmptySeq, LenProperties DEF IInv
  <1>2. Head(todo).any
    BY LinksAssumption DEF ToFollow, LookedAt, IsLink, Objects
  <1>3. Len(todo) = 1
    BY <1>1, <1>2 DEF Apart, ApartIn
  <1>4. Len(Tail(todo)) = 0 /\ Tail(todo) \in Seq(Frame)
    BY <1>1, <1>3, HeadTailProperties
  <1> QED
    BY <1>3, <1>4, EmptySeq

LEMMA NoLinkAhead ==
  ASSUME TypeOK', monitor = "inotify", monitor' = monitor, tree' = tree,
         \A i \in DOMAIN todo' : ~todo'[i].any
  PROVE  AtLink' = 0
  <1> SUFFICES ASSUME todo' # <<>>, ToFollow' PROVE FALSE
    BY DEF AtLink
  <1>1. todo' \in Seq(Frame)
    BY DEF TypeOK, Frame
  <1>2. Head(todo') = todo'[1] /\ 1 \in DOMAIN todo'
    BY <1>1, EmptySeq, LenProperties
  <1>3. tree'[Scanned'] = Dir
    BY <1>2 DEF ToFollow, LookedAt
  <1> QED
    BY <1>3, LinksAssumption DEF ToFollow, IsLink, Objects

(* What an added directory puts on the stack.                               *)
LEMMA ChildCalls ==
  ASSUME NEW p \in Paths, NEW cs \in SetToSeqs(Children(p))
  PROVE  LET s == [i \in DOMAIN cs |-> Item(cs[i], FALSE)] IN
         s \in Seq(Frame) /\ CallsBelow(s, p)
  <1> DEFINE s == [i \in DOMAIN cs |-> Item(cs[i], FALSE)]
             n == Cardinality(Children(p))
  <1>1. cs \in [1 .. n -> Children(p)] /\ \A i, j \in 1 .. n : i # j => cs[i] # cs[j]
    BY DEF SetToSeqs
  <1>2. s \in Seq(Frame)
    BY AheadChildren
  <1> HIDE DEF n
  <1>3. \A i \in DOMAIN s : i \in 1 .. n /\ s[i].path = cs[i] /\ s[i].any = FALSE
    BY <1>1 DEF Item
  <1>4. DOMAIN s = 1 .. n
    BY <1>1
  <1> HIDE DEF s
  <1>5. ASSUME NEW i \in DOMAIN s
        PROVE  ~s[i].any /\ Under(s[i].path) \subseteq Under(p) \ {p}
    BY <1>1, <1>3, ChildUnder
  <1>6. ASSUME NEW i \in DOMAIN s, NEW j \in DOMAIN s, i # j
        PROVE  Under(s[i].path) \cap Under(s[j].path) = {}
    BY <1>1, <1>3, <1>6, ChildrenApart
  <1>7. CallsBelow(s, p)
    BY <1>5, <1>6 DEF CallsBelow
  <1> QED
    BY <1>2, <1>7 DEF s

LEMMA InotifyAdvances ==
  ASSUME IInv, IInv', Apart, Next, monitor = "inotify"
  PROVE  Less(Remaining', Remaining) /\ Apart'
  <1>1. monitor' = monitor /\ tree' = tree /\ TypeOK /\ TypeOK'
    BY DEF IInv, Next, VisitRoot, FollowLink, Add, AddFails, LeaveOut
  <1>2. Beneath = UnderAll(todo) /\ Beneath' = UnderAll(todo')
    BY DEF Beneath, UnderAll, Under
  <1>3. /\ Remaining = <<0, RootsLeft, AtLink, Cardinality(UnderAll(todo))>>
        /\ Remaining' = <<0, RootsLeft', AtLink', Cardinality(UnderAll(todo'))>>
    BY <1>1, <1>2 DEF Remaining
  <1>4. CASE VisitRoot
    <2>1. todo' = <<>> \/ todo' = <<Item(Roots[root], TRUE)>>
      BY <1>4 DEF VisitRoot
    <2>2. ApartIn(todo')
      BY <2>1, ApartShort
    <2> QED
      BY <1>3, <1>4, <2>2, RootsFewer, LessSecond DEF Apart
  <1>5. CASE FollowLink
    <2>1. RootsLeft' = RootsLeft /\ todo # <<>> /\ AtLink = 1 /\ ToFollow
      BY <1>5 DEF FollowLink, RootsLeft, AtLink
    <2>2. Tail(todo) = <<>>
      BY <2>1, OnlyRootsAreLinks
    <2>3. CASE tree[Scanned] = Broken
      <3>1. todo' = <<>>
        BY <1>5, <2>2, <2>3 DEF FollowLink
      <3>2. ApartIn(todo') /\ AtLink' = 0
        BY <3>1, ApartShort DEF AtLink
      <3> QED
        BY <1>3, <2>1, <3>2, LessThird DEF Apart
    <2>4. CASE tree[Scanned] # Broken
      <3> DEFINE f == Item(tree[Scanned], Head(todo).any)
      <3>1. todo' = <<f>> \o Tail(todo) /\ AtLink' = 0
        BY <1>5, <2>4, TargetIsNoLink
      <3>2. todo' = <<f>>
        BY <2>2, <3>1, NothingFollows
      <3>3. ApartIn(todo')
        BY <3>2, ApartShort
      <3> QED
        BY <1>3, <2>1, <3>1, <3>3, LessThird DEF Apart
    <2> QED
      BY <2>3, <2>4
  <1>6. CASE Add \/ AddFails \/ LeaveOut
    <2>1. RootsLeft' = RootsLeft /\ todo # <<>> /\ AtLink = 0
      BY <1>6 DEF Add, AddFails, LeaveOut, ToAdd, ToFollow, RootsLeft, AtLink
    <2>2. todo \in Seq(Frame) /\ Tail(todo) \in Seq(Frame) /\ Scanned \in Paths
          /\ Scanned = todo[1].path
      BY <1>1, <2>1, ScannedTyped DEF Scanned
    <2>3. PICK s \in Seq(Frame) : todo' = s \o Tail(todo) /\ CallsBelow(s, Scanned)
      <3>1. CASE todo' = Tail(todo)
        <4>1. <<>> \in Seq(Frame) /\ <<>> \o Tail(todo) = Tail(todo)
          BY <2>2, EmptySeq, ConcatEmptySeq
        <4>2. CallsBelow(<<>>, Scanned)
          BY DEF CallsBelow
        <4> QED
          BY <3>1, <4>1, <4>2
      <3>2. CASE \E cs \in SetToSeqs(Children(Scanned)) :
                   todo' = [i \in DOMAIN cs |-> Item(cs[i], FALSE)] \o Tail(todo)
        <4>1. PICK cs \in SetToSeqs(Children(Scanned)) :
                   todo' = [i \in DOMAIN cs |-> Item(cs[i], FALSE)] \o Tail(todo)
          BY <3>2
        <4> DEFINE s == [i \in DOMAIN cs |-> Item(cs[i], FALSE)]
        <4>2. s \in Seq(Frame) /\ CallsBelow(s, Scanned)
          BY <2>2, <4>1, ChildCalls
        <4> HIDE DEF s
        <4>3. todo' = s \o Tail(todo)
          BY <4>1 DEF s
        <4> QED
          BY <4>2, <4>3
      <3> QED
        BY <1>6, <3>1, <3>2 DEF Add, AddFails, LeaveOut
    <2>5. /\ ApartIn(todo')
          /\ \A i \in DOMAIN todo' : ~todo'[i].any
          /\ Cardinality(UnderAll(todo')) < Cardinality(UnderAll(todo))
      BY <2>1, <2>2, <2>3, StackShrinks DEF Apart
    <2>6. AtLink' = 0
      BY <1>1, <2>5, NoLinkAhead
    <2> QED
      BY <1>3, <2>1, <2>5, <2>6, LessFourth DEF Apart
  <1> QED
    BY <1>4, <1>5, <1>6 DEF Next

LEMMA Advances == IInv /\ Apart /\ [Next]_vars => Apart' /\ [Less(Remaining', Remaining)]_vars
  <1> SUFFICES ASSUME IInv, Apart, [Next]_vars
               PROVE  Apart' /\ [Less(Remaining', Remaining)]_vars
    OBVIOUS
  <1>1. CASE UNCHANGED vars
    BY <1>1 DEF vars, Apart
  <1>2. CASE Next /\ monitor = "inotify"
    BY <1>2, NextKeepsIInv, InotifyAdvances
  <1>3. CASE Next /\ monitor # "inotify"
    <2>1. monitor' = monitor
      BY <1>3 DEF Next, VisitRoot, FollowLink, Add, AddFails, LeaveOut
    <2> QED
      BY <1>3, <2>1, OthersAdvance DEF Apart
  <1> QED
    BY <1>1, <1>2, <1>3

(* Each step of a pass brings it closer to its end, on every tree and for   *)
(* every sequence of roots: the links lead no monitor round and round.      *)
THEOREM EveryStepAdvances == Spec => PassAdvances
  <1>1. Init => Apart
    BY DEF Init, Apart, ApartIn
  <1> QED
    BY <1>1, Advances, ScanInvariant, PTL DEF Spec, PassAdvances
=============================================================================
