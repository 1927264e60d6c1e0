--------------------------- MODULE FileTree_proofs ---------------------------
(***************************************************************************)
(* Facts about the tree that the proofs about the monitors rest on: what    *)
(* its operators return, and that its changes keep it a tree.               *)
(***************************************************************************)
EXTENDS FileTree, FiniteSetTheorems, SequenceTheorems, WellFoundedInduction, TLAPS

LEMMA PathTyped ==
  ASSUME NEW p \in Paths
  PROVE  p \in Seq(Names) /\ Len(p) \in 1 .. Depth /\ Last(p) \in Names
  <1>1. PICK n \in 1 .. Depth : p \in [1 .. n -> Names]
    BY DEF Paths
  <1>2. Depth \in Nat /\ n \in Nat /\ Len(p) = n /\ p \in Seq(Names)
    BY <1>1, TreeAssumption
  <1>3. p[n] \in Names
    BY <1>1
  <1> QED
    BY <1>1, <1>2, <1>3 DEF Last

LEMMA ChildPath ==
  ASSUME NEW p \in Paths, NEW name \in Names, Len(p) < Depth
  PROVE  Append(p, name) \in Paths
  <1>1. p \in Seq(Names) /\ Len(p) \in 1 .. Depth /\ Depth \in Nat
    BY PathTyped, TreeAssumption
  <1>2. Append(p, name) \in Seq(Names) /\ Len(Append(p, name)) = Len(p) + 1
    BY <1>1, AppendProperties
  <1>3. Append(p, name) \in [1 .. Len(p) + 1 -> Names]
    BY <1>2, LenProperties
  <1>4. Len(p) + 1 \in 1 .. Depth
    BY <1>1
  <1> QED
    BY <1>3, <1>4 DEF Paths

LEMMA SeatTyped ==
  ASSUME NEW p \in Paths, IsDir(Parent(p))
  PROVE  <<Parent(p), Last(p)>> \in (Dirs \cup {Base}) \X Names
  BY PathTyped DEF IsDir

LEMMA MakeTyped ==
  ASSUME TreeTypeOK, NEW p \in Paths, NEW n \in Inodes, MakeNode(p, n)
  PROVE  seat' \in [Inodes -> ((Dirs \cup {Base}) \X Names) \cup {Nowhere}]
  BY SeatTyped DEF MakeNode, TreeTypeOK

LEMMA DeleteTyped ==
  ASSUME TreeTypeOK, NEW p \in Paths, NEW n \in Inodes, DeleteNode(p, n)
  PROVE  seat' \in [Inodes -> ((Dirs \cup {Base}) \X Names) \cup {Nowhere}]
  BY DEF DeleteNode, TreeTypeOK

LEMMA RenameTyped ==
  ASSUME TreeTypeOK, NEW p \in Paths, NEW q \in Paths, NEW n \in Inodes, RenameNode(p, q, n)
  PROVE  seat' \in [Inodes -> ((Dirs \cup {Base}) \X Names) \cup {Nowhere}]
  BY SeatTyped DEF RenameNode, TreeTypeOK

LEMMA ReplaceTyped ==
  ASSUME TreeTypeOK, NEW p \in Paths, NEW q \in Paths, NEW n \in Inodes, NEW m \in Inodes,
         ReplaceNode(p, q, n, m)
  PROVE  seat' \in [Inodes -> ((Dirs \cup {Base}) \X Names) \cup {Nowhere}]
  BY DEF ReplaceNode, TreeTypeOK

(* What readdir yields can be read in any order.                            *)
LEMMA ChildrenListed ==
  ASSUME NEW p \in Paths, NEW names \in SetToSeqs(Children(p))
  PROVE  /\ Cardinality(Children(p)) \in Nat
         /\ DOMAIN names = 1 .. Cardinality(Children(p))
         /\ \A i \in DOMAIN names : Append(p, names[i]) \in Paths
  <1>1. Cardinality(Children(p)) \in Nat
    BY TreeAssumption, FS_Subset, FS_CardinalityType DEF Children
  <1>2. names \in [1 .. Cardinality(Children(p)) -> Children(p)]
    BY DEF SetToSeqs
  <1>3. ASSUME NEW name \in Children(p)
        PROVE  Append(p, name) \in Paths
    BY ChildPath DEF Children
  <1> QED
    BY <1>1, <1>2, <1>3

LEMMA CountTyped == TreeTypeOK /\ Count => ops' \in 0 .. MaxOps
  BY TreeAssumption DEF TreeTypeOK, Count

-----------------------------------------------------------------------------
(* Lookup, entry by entry.                                                  *)

(* Induction: a set of numbers has a least one. *)
LEMMA LeastNumber ==
  ASSUME NEW T \in SUBSET Nat, T # {}
  PROVE  \E k \in T : \A j \in T : k <= j
  <1> DEFINE R == {ss \in Nat \X Nat : ss[1] < ss[2]}
  <1>1. IsWellFoundedOn(R, Nat)
    BY NatLessThanWellFounded DEF OpToRel
  <1> HIDE DEF R
  <1>2. PICK k \in T : \A j \in T : <<j, k>> \notin R
    BY <1>1, WFMin
  <1>3. \A j \in T : ~(j < k)
    BY <1>2 DEF R
  <1> QED
    BY <1>3

(* The inodes f that the first k names of s lead to. *)
Via(f, s, n) ==
  IF n = 0 THEN Base ELSE IF f[n - 1] = Nowhere THEN Nowhere ELSE Entry(f[n - 1], s[n])
Leads(f, s, k) == f = [n \in 0 .. k |-> Via(f, s, n)]

LEMMA SomeLeads ==
  ASSUME NEW s, NEW k \in Nat
  PROVE  \E f : Leads(f, s, k)
  <1> DEFINE T == {j \in Nat : ~\E f : Leads(f, s, j)}
  <1>1. SUFFICES ASSUME T # {} PROVE FALSE
    OBVIOUS
  <1>2. PICK j \in T : \A i \in T : j <= i
    BY <1>1, LeastNumber
  <1>3. CASE j = 0
    <2>1. Leads([n \in 0 .. 0 |-> Base], s, 0)
      BY DEF Leads, Via
    <2> QED
      BY <1>3, <2>1
  <1>4. CASE j # 0
    <2>1. j - 1 \in Nat /\ j - 1 \notin T
      BY <1>2, <1>4
    <2>2. PICK g : Leads(g, s, j - 1)
      BY <2>1
    <2> DEFINE f == [n \in 0 .. j |-> IF n = j THEN Via(g, s, n) ELSE g[n]]
    <2>3. ASSUME NEW n \in 0 .. j PROVE f[n] = Via(f, s, n)
      <3>1. \A i \in 0 .. j - 1 : g[i] = Via(g, s, i)
        BY <2>2 DEF Leads
      <3>2. \A i \in 0 .. j - 1 : i \in 0 .. j /\ i # j
        BY <2>1
      <3>3. \A i \in 0 .. j - 1 : f[i] = g[i]
        BY <3>2
      <3>4. n = j \/ n \in 0 .. j - 1
        BY <2>1
      <3>5. f[n] = Via(g, s, n)
        BY <3>1, <3>3, <3>4
      <3>6. n # 0 => n - 1 \in 0 .. j - 1
        BY <2>1
      <3>7. n # 0 => f[n - 1] = g[n - 1]
        BY <3>3, <3>6
      <3> HIDE DEF f
      <3> QED
        BY <3>5, <3>7 DEF Via
    <2>4. f = [n \in 0 .. j |-> Via(f, s, n)]
      <3>1. f = [n \in 0 .. j |-> f[n]]
        OBVIOUS
      <3> HIDE DEF f
      <3> QED
        BY <2>3, <3>1
    <2>5. Leads(f, s, j)
      BY <2>4 DEF Leads
    <2> QED
      BY <2>5
  <1> QED
    BY <1>3, <1>4

LEMMA LeadsAlike ==
  ASSUME NEW s, NEW t, NEW k \in Nat, NEW m \in Nat, k <= m,
         \A n \in 1 .. k : s[n] = t[n],
         NEW f, NEW g, Leads(f, s, k), Leads(g, t, m)
  PROVE  f[k] = g[k]
  <1> DEFINE T == {n \in 0 .. k : f[n] # g[n]}
  <1>1. SUFFICES ASSUME T # {} PROVE FALSE
    OBVIOUS
  <1>2. PICK j \in T : \A i \in T : j <= i
    <2>1. T \in SUBSET Nat
      OBVIOUS
    <2> HIDE DEF T
    <2> QED
      BY <1>1, <2>1, LeastNumber
  <1>3. j \in 0 .. k /\ j \in 0 .. m /\ f[j] # g[j]
    OBVIOUS
  <1>4. f[j] = Via(f, s, j) /\ g[j] = Via(g, t, j)
    BY <1>3 DEF Leads
  <1>5. j # 0
    BY <1>3, <1>4 DEF Via
  <1>6. j - 1 \in 0 .. k /\ j \in 1 .. k
    BY <1>3, <1>5
  <1>7. f[j - 1] = g[j - 1]
    <2>1. j - 1 \notin T
      BY <1>2, <1>6
    <2> QED
      BY <1>6, <2>1
  <1> QED
    BY <1>3, <1>4, <1>5, <1>6, <1>7 DEF Via

LEMMA ResolveLeads ==
  ASSUME NEW s, Len(s) \in Nat
  PROVE  \E f : Leads(f, s, Len(s)) /\ Resolve(s) = f[Len(s)]
  <1> DEFINE F == CHOOSE f : Leads(f, s, Len(s))
  <1>1. Resolve(s) = F[Len(s)]
    BY DEF Resolve, Leads, Via
  <1>2. Leads(F, s, Len(s))
    BY SomeLeads
  <1> QED
    BY <1>1, <1>2

(* A path leads to the entry of its last name in the directory that the     *)
(* names before it lead to; no name at all leads to the directory Base.     *)
LEMMA ResolveStep ==
  ASSUME NEW p \in Paths
  PROVE  /\ Len(p) = 1 => Parent(p) = Base
         /\ Resolve(p) = IF Parent(p) = Nowhere THEN Nowhere ELSE Entry(Parent(p), Last(p))
  <1> DEFINE k == Len(p) - 1
  <1>1. p \in Seq(Names) /\ Len(p) \in Nat \ {0} /\ k \in Nat /\ k + 1 = Len(p) /\ k <= Len(p)
    BY PathTyped, TreeAssumption
  <1>2. /\ Len(Front(p)) = k
        /\ \A n \in 1 .. k : Front(p)[n] = p[n]
    BY <1>1 DEF Front
  <1>3. PICK f : Leads(f, p, Len(p)) /\ Resolve(p) = f[Len(p)]
    BY <1>1, ResolveLeads
  <1>4. PICK g : Leads(g, Front(p), k) /\ Parent(p) = g[k]
    BY <1>1, <1>2, ResolveLeads DEF Parent
  <1>5. g[k] = f[k]
    <2> DEFINE s == Front(p)
               m == Len(p)
    <2>1. /\ Leads(g, s, k) /\ Leads(f, p, m)
          /\ \A n \in 1 .. k : s[n] = p[n]
          /\ k \in Nat /\ m \in Nat /\ k <= m
      BY <1>1, <1>2, <1>3, <1>4
    <2> HIDE DEF k, s, m
    <2> QED
      BY <2>1, LeadsAlike
  <1>6. f[Len(p)] = Via(f, p, Len(p)) /\ f[0] = Base
    BY <1>1, <1>3 DEF Leads, Via
  <1> HIDE DEF k
  <1>7. Len(p) = 1 => k = 0
    BY <1>1 DEF k
  <1>8. Len(p) - 1 = k
    BY <1>1
  <1> QED
    BY <1>1, <1>3, <1>4, <1>5, <1>6, <1>7, <1>8 DEF Via, Last

-----------------------------------------------------------------------------
(* Entries.                                                                 *)

LEMMA EntryFound ==
  ASSUME NEW d, NEW name
  PROVE  \/ Entry(d, name) \in Inodes /\ seat[Entry(d, name)] = <<d, name>>
         \/ Entry(d, name) = Nowhere /\ \A n \in Inodes : seat[n] # <<d, name>>
  BY DEF Entry

LEMMA EntryOf ==
  ASSUME SeatsDistinct, NEW d \in Dirs \cup {Base}, NEW name \in Names, NEW n \in Inodes
  PROVE  Entry(d, name) = n <=> seat[n] = <<d, name>>
  <1>1. <<d, name>> # Nowhere /\ n # Nowhere
    BY TreeAssumption
  <1> QED
    BY <1>1, EntryFound DEF SeatsDistinct

LEMMA ResolveFound ==
  ASSUME NEW p \in Paths
  PROVE  /\ Resolve(p) \in Inodes \cup {Nowhere}
         /\ \A n \in Inodes : Resolve(p) = n => seat[n] = <<Parent(p), Last(p)>>
         /\ Resolve(p) = Nowhere /\ Parent(p) # Nowhere =>
              \A n \in Inodes : seat[n] # <<Parent(p), Last(p)>>
  <1>1. \A n \in Inodes : n # Nowhere
    BY TreeAssumption
  <1> QED
    BY <1>1, ResolveStep, EntryFound

(* The one name of a path below Base is that of the seat it leads to.       *)
LEMMA ShortPath ==
  ASSUME SeatsDistinct, NEW p \in Paths, Len(p) = 1, NEW n \in Inodes
  PROVE  Resolve(p) = n <=> seat[n] = <<Base, Last(p)>>
  <1>1. Parent(p) = Base /\ Base # Nowhere
    BY ResolveStep, TreeAssumption
  <1>2. Resolve(p) = Entry(Base, Last(p)) /\ Last(p) \in Names
    BY <1>1, ResolveStep, PathTyped
  <1> QED
    BY <1>2, EntryOf

(* The same of the state before a step and of that after it.                *)
ShortPaths ==
  \A p \in Paths, n \in Inodes :
    SeatsDistinct /\ Len(p) = 1 => (Resolve(p) = n <=> seat[n] = <<Base, Last(p)>>)

LEMMA ShortPathsNow == ShortPaths
  BY ShortPath DEF ShortPaths

LEMMA ShortPathsLater == ShortPaths'
  BY ShortPathsNow, PTL

LEMMA MakeDistinct ==
  ASSUME SeatsDistinct, TreeTypeOK, NEW p \in Paths, NEW n \in Inodes, MakeNode(p, n)
  PROVE  SeatsDistinct'
  <1>1. Parent(p) # Nowhere
    BY TreeAssumption DEF MakeNode, IsDir
  <1>2. \A m \in Inodes : seat[m] # <<Parent(p), Last(p)>>
    BY <1>1, ResolveFound DEF MakeNode
  <1> QED
    BY <1>2 DEF MakeNode, SeatsDistinct, TreeTypeOK

LEMMA DeleteDistinct ==
  ASSUME SeatsDistinct, TreeTypeOK, NEW p \in Paths, NEW n \in Inodes, DeleteNode(p, n)
  PROVE  SeatsDistinct'
  BY DEF DeleteNode, SeatsDistinct, TreeTypeOK

LEMMA RenameDistinct ==
  ASSUME SeatsDistinct, TreeTypeOK, NEW p \in Paths, NEW q \in Paths, NEW n \in Inodes,
         RenameNode(p, q, n)
  PROVE  SeatsDistinct'
  <1>1. Parent(q) # Nowhere
    BY TreeAssumption DEF RenameNode, IsDir
  <1>2. \A m \in Inodes : seat[m] # <<Parent(q), Last(q)>>
    BY <1>1, ResolveFound DEF RenameNode
  <1> QED
    BY <1>2 DEF RenameNode, SeatsDistinct, TreeTypeOK

LEMMA ReplaceDistinct ==
  ASSUME SeatsDistinct, TreeTypeOK, NEW p \in Paths, NEW q \in Paths, NEW n \in Inodes,
         NEW m \in Inodes, ReplaceNode(p, q, n, m)
  PROVE  SeatsDistinct'
  BY DEF ReplaceNode, SeatsDistinct, TreeTypeOK

-----------------------------------------------------------------------------
(* Which paths a change of the tree touches.                                *)

LEMMA FrontPath ==
  ASSUME NEW p \in Paths, Len(p) # 1
  PROVE  Front(p) \in Paths /\ Len(Front(p)) = Len(p) - 1
  <1> DEFINE k == Len(p) - 1
  <1>1. p \in Seq(Names) /\ Len(p) \in 1 .. Depth /\ Depth \in Nat
    BY PathTyped, TreeAssumption
  <1>2. k \in 1 .. Depth /\ k <= Len(p) /\ k \in Nat
    <2> DEFINE m == Len(p)
    <2>1. m \in 1 .. Depth /\ Depth \in Nat /\ m # 1 /\ k = m - 1
      BY <1>1
    <2> HIDE DEF m, k
    <2>2. k \in 1 .. Depth /\ k <= m /\ k \in Nat
      BY <2>1
    <2> QED
      BY <2>2 DEF m
  <1>3. Front(p) = [i \in 1 .. k |-> p[i]]
    BY <1>1, <1>2 DEF Front
  <1>4. \A i \in 1 .. k : p[i] \in Names
    BY <1>1, <1>2, ElementOfSeq
  <1> HIDE DEF k
  <1>5. Front(p) \in [1 .. k -> Names] /\ Len(Front(p)) = k
    BY <1>2, <1>3, <1>4
  <1>6. Front(p) \in Paths
    BY <1>2, <1>5 DEF Paths
  <1> QED
    BY <1>5, <1>6 DEF k

LEMMA SamePath ==
  ASSUME NEW p \in Paths, NEW q \in Paths, Last(p) = Last(q),
         Len(p) = Len(q), Len(p) # 1 => Front(p) = Front(q)
  PROVE  p = q
  <1>1. /\ p \in Seq(Names) /\ Len(p) \in Nat \ {0}
        /\ q \in Seq(Names)
    BY PathTyped, TreeAssumption
  <1>2. ASSUME NEW i \in 1 .. Len(p), i # Len(p)
        PROVE  p[i] = q[i]
    <2>1. i \in 1 .. Len(p) - 1 /\ Len(p) # 1
      BY <1>1, <1>2
    <2>2. Front(p)[i] = p[i] /\ Front(q)[i] = q[i]
      BY <1>1, <2>1 DEF Front
    <2> QED
      BY <2>1, <2>2
  <1>3. p[Len(p)] = q[Len(q)]
    BY DEF Last
  <1> QED
    BY <1>1, <1>2, <1>3, SeqEqual

(* A name is put at the end of a path, and taken from it.                   *)
LEMMA AppendFront ==
  ASSUME NEW p \in Paths, NEW name \in Names
  PROVE  Front(Append(p, name)) = p /\ Last(Append(p, name)) = name
  <1> DEFINE c == Append(p, name)
             n == Len(p)
  <1>1. p \in Seq(Names) /\ n \in 1 .. Depth /\ Depth \in Nat
    BY PathTyped, TreeAssumption
  <1>2. /\ c \in Seq(Names) /\ Len(c) = n + 1 /\ c[n + 1] = name
        /\ \A i \in 1 .. n : c[i] = p[i]
    BY <1>1, AppendProperties
  <1>3. p = [i \in 1 .. n |-> p[i]]
    BY <1>1, LenProperties
  <1> HIDE DEF c, n
  <1>4. n \in Nat /\ Len(c) - 1 = n
    BY <1>1, <1>2
  <1>5. Front(c) = [i \in 1 .. n |-> c[i]]
    BY <1>2, <1>4 DEF Front
  <1>6. Front(c) = p /\ Last(c) = name
    BY <1>2, <1>3, <1>5 DEF Last
  <1> QED
    BY <1>6 DEF c

LEMMA FrontAppend ==
  ASSUME NEW p \in Paths, Len(p) # 1
  PROVE  Append(Front(p), Last(p)) = p
  <1> DEFINE f == Front(p)
             c == Append(f, Last(p))
  <1>1. Len(p) \in 1 .. Depth /\ Last(p) \in Names /\ Depth \in Nat
    BY PathTyped, TreeAssumption
  <1>2. f \in Paths /\ Len(f) = Len(p) - 1
    BY FrontPath
  <1> HIDE DEF f
  <1>3. Len(f) < Depth
    BY <1>1, <1>2
  <1>4. c \in Paths /\ Front(c) = f /\ Last(c) = Last(p)
    BY <1>1, <1>2, <1>3, ChildPath, AppendFront
  <1>5. Len(c) = Len(p)
    <2>1. f \in Seq(Names)
      BY <1>2, PathTyped
    <2> QED
      BY <1>1, <1>2, <2>1, AppendProperties
  <1> HIDE DEF c
  <1>6. c = p
    BY <1>4, <1>5, SamePath DEF f
  <1> QED
    BY <1>6 DEF c, f

(* The directory a path is in is Base, or the inode of a path of its own.   *)
LEMMA ParentIs ==
  ASSUME NEW p \in Paths
  PROVE  /\ Len(p) = 1 => Parent(p) = Base
         /\ Len(p) # 1 => Parent(p) = Resolve(Front(p)) /\ Parent(p) \in Inodes \cup {Nowhere}
         /\ Parent(p) = Base => Len(p) = 1
  <1>1. Len(p) # 1 => Parent(p) \in Inodes \cup {Nowhere}
    BY FrontPath, ResolveFound DEF Parent
  <1>2. Base \notin Inodes \cup {Nowhere}
    BY TreeAssumption
  <1> QED
    BY <1>1, <1>2, ResolveStep DEF Parent

(* Two paths do not lead to one inode. *)
LEMMA OnlyPath ==
  ASSUME NEW p \in Paths, NEW q \in Paths, Resolve(p) = Resolve(q), Resolve(p) \in Inodes
  PROVE  p = q
  <1> DEFINE Twice(s) == \E t \in Paths : Resolve(s) = Resolve(t) /\ Resolve(s) \in Inodes /\ s # t
             T == {j \in Nat : \E s \in Paths : Len(s) = j /\ Twice(s)}
  <1>1. SUFFICES ASSUME p # q PROVE FALSE
    OBVIOUS
  <1>2. T # {} /\ T \in SUBSET Nat
    <2>1. Twice(p) /\ Len(p) \in Nat
      BY <1>1, PathTyped
    <2> QED
      BY <2>1
  <1>3. PICK k \in T : \A j \in T : k <= j
    <2> HIDE DEF T
    <2> QED
      BY <1>2, LeastNumber
  <1>4. PICK s \in Paths : Twice(s) /\ Len(s) = k
    OBVIOUS
  <1>5. PICK t \in Paths : Resolve(s) = Resolve(t) /\ Resolve(s) \in Inodes /\ s # t
    BY <1>4
  <1>6. Parent(s) = Parent(t) /\ Last(s) = Last(t)
    <2> DEFINE n == Resolve(s)
    <2>1. seat[n] = <<Parent(s), Last(s)>> /\ seat[n] = <<Parent(t), Last(t)>>
      BY <1>5, ResolveFound
    <2> QED
      BY <2>1
  <1>7. Parent(s) # Nowhere
    BY <1>5, ResolveStep, TreeAssumption
  <1>8. CASE Len(s) = 1
    <2>1. Len(t) = 1
      BY <1>6, <1>8, ParentIs
    <2> QED
      BY <1>5, <1>6, <1>8, <2>1, SamePath
  <1>9. CASE Len(s) # 1
    <2>1. Len(t) # 1
      BY <1>6, <1>9, ParentIs
    <2>2. /\ Resolve(Front(s)) = Resolve(Front(t)) /\ Resolve(Front(s)) \in Inodes
          /\ Front(s) \in Paths /\ Front(t) \in Paths
          /\ Len(Front(s)) = Len(s) - 1 /\ Len(Front(t)) = Len(t) - 1
      BY <1>6, <1>7, <1>9, <2>1, ParentIs, FrontPath
    <2>3. Front(s) = Front(t)
      <3>1. SUFFICES ASSUME Front(s) # Front(t) PROVE FALSE
        OBVIOUS
      <3>2. Twice(Front(s))
        BY <2>2, <3>1
      <3>3. Len(Front(s)) \in T
        BY <2>2, <3>2, PathTyped
      <3>4. Len(s) <= Len(Front(s))
        BY <1>3, <1>4, <3>3
      <3>5. Len(s) \in Nat
        BY PathTyped
      <3> QED
        BY <2>2, <3>4, <3>5
    <2>4. Len(s) = Len(t)
      BY <2>2, <2>3, PathTyped
    <2> QED
      BY <1>5, <1>6, <2>3, <2>4, SamePath
  <1> QED
    BY <1>8, <1>9

(* What the lemmas above say of a state, for the state after a step, too.   *)
Steps ==
  \A p \in Paths :
    /\ Len(p) = 1 => Parent(p) = Base
    /\ Len(p) # 1 => Parent(p) = Resolve(Front(p))
    /\ \A d : Parent(p) = d =>
         Resolve(p) = IF d = Nowhere THEN Nowhere ELSE Entry(d, Last(p))
    /\ Resolve(p) \in Inodes \cup {Nowhere}

Entries ==
  TreeTypeOK /\ SeatsDistinct =>
    \A d \in Inodes \cup {Base}, name \in Names :
      /\ Entry(d, name) \in Inodes \cup {Nowhere}
      /\ \A n \in Inodes : Entry(d, name) = n <=> seat[n] = <<d, name>>

LEMMA StepsNow == Steps
  BY ResolveStep, ResolveFound DEF Steps, Parent

LEMMA StepsLater == Steps'
  BY StepsNow, PTL

LEMMA EntriesNow == Entries
  <1> SUFFICES ASSUME TreeTypeOK, SeatsDistinct,
                      NEW d \in Inodes \cup {Base}, NEW name \in Names
               PROVE  /\ Entry(d, name) \in Inodes \cup {Nowhere}
                      /\ \A n \in Inodes : Entry(d, name) = n <=> seat[n] = <<d, name>>
    BY DEF Entries
  <1>1. <<d, name>> # Nowhere /\ Nowhere \notin Inodes
    BY TreeAssumption
  <1> QED
    BY <1>1, EntryFound DEF SeatsDistinct

LEMMA EntriesLater == Entries'
  BY EntriesNow, PTL

(* A change at the paths of P: inodes without entries come or go there, and *)
(* nothing else moves.                                                      *)
EmptyAfter(n) == \A m \in Inodes, name \in Names : seat'[m] # <<n, name>>

PlaceOf(n, P) == seat[n] = Nowhere \/ \E r \in P : seat[n] = <<Parent(r), Last(r)>>

ChangesAt(P) ==
  /\ \A r \in P :
       /\ IsDir(Parent(r))
       /\ Resolve(r) = Nowhere \/ seat'[Resolve(r)] # seat[Resolve(r)]
  /\ \A n \in Inodes : seat'[n] # seat[n] =>
       /\ Empty(n)
       /\ PlaceOf(n, P)
       /\ seat'[n] = Nowhere \/ \E r \in P : seat'[n] = <<Parent(r), Last(r)>>
       /\ \A r \in P : Parent(r) # n

LEMMA EntryChanges ==
  ASSUME TreeTypeOK, SeatsDistinct, TreeTypeOK', SeatsDistinct',
         NEW P \in SUBSET Paths, ChangesAt(P),
         NEW d \in Inodes \cup {Base}, NEW name \in Names,
         Entry(d, name)' # Entry(d, name)
  PROVE  /\ \E r \in P : d = Parent(r) /\ name = Last(r)
         /\ Entry(d, name) = Nowhere \/ Empty(Entry(d, name))
         /\ Entry(d, name)' = Nowhere \/ EmptyAfter(Entry(d, name)')
  <1>1. ASSUME NEW n \in Inodes, seat'[n] # seat[n],
               seat[n] = <<d, name>> \/ seat'[n] = <<d, name>>
        PROVE  /\ \E r \in P : d = Parent(r) /\ name = Last(r)
               /\ Empty(n) /\ EmptyAfter(n)
    <2>1. <<d, name>> # Nowhere
      BY TreeAssumption
    <2>2. \E r \in P : d = Parent(r) /\ name = Last(r)
      <3>1. \E r \in P : <<d, name>> = <<Parent(r), Last(r)>>
        BY <1>1, <2>1 DEF ChangesAt, PlaceOf
      <3> QED
        BY <3>1
    <2>3. Empty(n) /\ \A r \in P : Parent(r) # n
      BY <1>1 DEF ChangesAt
    <2>4. ASSUME NEW m \in Inodes, NEW x \in Names, seat'[m] = <<n, x>>
          PROVE  FALSE
      <3>1. seat[m] # <<n, x>>
        BY <2>3 DEF Empty
      <3>2. <<n, x>> # Nowhere
        BY TreeAssumption
      <3>3. \E r \in P : <<n, x>> = <<Parent(r), Last(r)>>
        BY <2>4, <3>1, <3>2 DEF ChangesAt
      <3> QED
        BY <2>3, <3>3
    <2> QED
      BY <2>2, <2>3, <2>4 DEF EmptyAfter
  <1>2. /\ Entry(d, name) \in Inodes \cup {Nowhere}
        /\ \A n \in Inodes : Entry(d, name) = n <=> seat[n] = <<d, name>>
        /\ Entry(d, name)' \in Inodes \cup {Nowhere}
        /\ \A n \in Inodes : Entry(d, name)' = n <=> seat'[n] = <<d, name>>
    BY EntriesNow, EntriesLater DEF Entries
  <1> DEFINE a == Entry(d, name)
             b == Entry(d, name)'
  <1>3. a \in Inodes => seat'[a] # seat[a] /\ seat[a] = <<d, name>>
    BY <1>2
  <1>4. b \in Inodes => seat'[b] # seat[b] /\ seat'[b] = <<d, name>>
    BY <1>2
  <1>5. a \in Inodes \/ b \in Inodes
    BY <1>2
  <1>6. a \in Inodes => (\E r \in P : d = Parent(r) /\ name = Last(r)) /\ Empty(a)
    BY <1>1, <1>3
  <1>7. b \in Inodes => (\E r \in P : d = Parent(r) /\ name = Last(r)) /\ EmptyAfter(b)
    BY <1>1, <1>4
  <1> QED
    BY <1>2, <1>5, <1>6, <1>7

(* The directory of a changed path is not itself a changed path. *)
LEMMA FrontUnchanged ==
  ASSUME NEW P \in SUBSET Paths, ChangesAt(P), NEW r \in P, Len(r) # 1
  PROVE  Front(r) \in Paths \ P
  <1>1. Front(r) \in Paths /\ Parent(r) = Resolve(Front(r)) /\ Parent(r) \in Inodes \cup {Nowhere}
    BY FrontPath, ParentIs
  <1>2. Parent(r) # Nowhere
    BY TreeAssumption DEF ChangesAt, IsDir
  <1>3. Front(r) \notin P
    BY <1>1, <1>2 DEF ChangesAt
  <1> QED
    BY <1>1, <1>3

(* A path that is not among the changed ones leads where it led before, and *)
(* so do the directories of those that are.                                 *)
LEMMA OtherPaths ==
  ASSUME TreeTypeOK, SeatsDistinct, TreeTypeOK', SeatsDistinct',
         NEW P \in SUBSET Paths, ChangesAt(P)
  PROVE  /\ \A s \in Paths \ P : Resolve(s)' = Resolve(s)
         /\ \A r \in P : Parent(r)' = Parent(r)
  <1> DEFINE Moved(s) == s \notin P /\ Resolve(s)' # Resolve(s)
             T == {j \in Nat : \E s \in Paths : Len(s) = j /\ Moved(s)}
  <1>1. T = {}
    <2>1. SUFFICES ASSUME T # {} PROVE FALSE
      OBVIOUS
    <2>2. T \in SUBSET Nat
      OBVIOUS
    <2>3. PICK k \in T : \A j \in T : k <= j
      <3> HIDE DEF T
      <3> QED
        BY <2>1, <2>2, LeastNumber
    <2>4. PICK s \in Paths : Len(s) = k /\ Moved(s)
      OBVIOUS
    <2>5. ASSUME NEW t \in Paths, Len(t) = Len(s) - 1, t \notin P
          PROVE  Resolve(t)' = Resolve(t)
      <3>1. Len(t) \in Nat /\ Len(s) \in Nat
        BY PathTyped
      <3>2. Len(t) \notin T
        BY <2>3, <2>4, <2>5, <3>1
      <3> QED
        BY <2>5, <3>1, <3>2
    <2> HIDE DEF T
    <2>6. /\ Resolve(s) = IF Parent(s) = Nowhere THEN Nowhere ELSE Entry(Parent(s), Last(s))
          /\ \A d : Parent(s)' = d =>
               Resolve(s)' = IF d = Nowhere THEN Nowhere ELSE Entry(d, Last(s))'
          /\ Last(s) \in Names
      BY StepsNow, StepsLater, PathTyped DEF Steps
    <2>7. CASE Parent(s)' = Parent(s)
      <3>1. Parent(s) \in Inodes \cup {Base}
        BY <2>4, <2>6, <2>7, ParentIs
      <3>2. PICK r \in P : Parent(s) = Parent(r) /\ Last(s) = Last(r)
        <4>1. PICK d : d = Parent(s)
          OBVIOUS
        <4>2. d \in Inodes \cup {Base} /\ Entry(d, Last(s))' # Entry(d, Last(s))
          BY <2>4, <2>6, <2>7, <3>1, <4>1
        <4>3. \E r \in P : d = Parent(r) /\ Last(s) = Last(r)
          BY <2>6, <4>2, EntryChanges
        <4> QED
          BY <4>1, <4>3
      <3>3. s = r
        <4>1. CASE Len(s) = 1
          BY <3>2, <4>1, ParentIs, SamePath
        <4>2. CASE Len(s) # 1
          <5>1. Len(r) # 1
            BY <3>2, <4>2, ParentIs
          <5>2. Resolve(Front(s)) = Resolve(Front(r)) /\ Resolve(Front(s)) \in Inodes
            BY <3>1, <3>2, <4>2, <5>1, ParentIs
          <5>3. Front(s) \in Paths /\ Front(r) \in Paths
            BY <4>2, <5>1, FrontPath
          <5>4. Front(s) = Front(r)
            BY <5>2, <5>3, OnlyPath
          <5>5. Len(s) = Len(r)
            BY <4>2, <5>1, <5>4, FrontPath, PathTyped
          <5> QED
            BY <3>2, <5>4, <5>5, SamePath
        <4> QED
          BY <4>1, <4>2
      <3> QED
        BY <2>4, <3>3
    <2>8. CASE Parent(s)' # Parent(s)
      <3> DEFINE f == Front(s)
      <3>1. Len(s) # 1 /\ f \in Paths /\ Len(f) = Len(s) - 1
        <4>1. Len(s) # 1
          BY <2>8, StepsNow, StepsLater DEF Steps
        <4> QED
          BY <4>1, FrontPath
      <3>2. Parent(s) = Resolve(f) /\ Parent(s)' = Resolve(f)'
        BY DEF Parent
      <3>3. f \in P
        BY <2>5, <2>8, <3>1, <3>2
      <3>4. Parent(f)' = Parent(f)
        <4>1. CASE Len(f) = 1
          BY <3>1, <4>1, StepsNow, StepsLater DEF Steps
        <4>2. CASE Len(f) # 1
          <5>1. Front(f) \in Paths \ P /\ Len(Front(f)) = Len(f) - 1
            BY <3>1, <3>3, <4>2, FrontUnchanged, FrontPath
          <5>2. \A t \in Paths : Len(t) = Len(f) - 1 /\ t \notin P => Resolve(t)' = Resolve(t)
            <6>1. SUFFICES ASSUME NEW t \in Paths, Len(t) = Len(f) - 1, t \notin P
                           PROVE  Resolve(t)' = Resolve(t)
              OBVIOUS
            <6>2. Len(t) \in Nat /\ Len(s) \in Nat /\ Len(t) # Len(s) /\ Len(t) < Len(s)
              BY <3>1, <6>1, PathTyped
            <6>3. Len(t) \notin T
              BY <2>3, <2>4, <6>2
            <6> QED
              BY <6>1, <6>2, <6>3 DEF T
          <5>3. Resolve(Front(f))' = Resolve(Front(f))
            BY <5>1, <5>2
          <5> QED
            BY <3>1, <4>2, <5>3, StepsNow, StepsLater DEF Steps
        <4> QED
          BY <4>1, <4>2
      <3>5. /\ Parent(f) \in Inodes \cup {Base}
            /\ \A d : d = Parent(f) =>
                 Resolve(f) = Entry(d, Last(f)) /\ Resolve(f)' = Entry(d, Last(f))'
            /\ Last(f) \in Names
        <4>1. Parent(f) # Nowhere /\ Parent(f) \in Inodes \cup {Base} /\ Last(f) \in Names
          BY <3>1, <3>3, TreeAssumption, PathTyped DEF ChangesAt, IsDir
        <4>2. PICK d : d = Parent(f)
          OBVIOUS
        <4>3. Resolve(f)' = Entry(d, Last(f))' /\ Resolve(f) = Entry(d, Last(f))
          BY <3>1, <3>4, <4>1, <4>2, StepsNow, StepsLater DEF Steps
        <4> QED
          BY <4>1, <4>2, <4>3
      <3>6. /\ Resolve(f) = Nowhere \/ Empty(Resolve(f))
            /\ Resolve(f)' = Nowhere \/ EmptyAfter(Resolve(f)')
        <4>0. PICK d, name : d = Parent(f) /\ name = Last(f)
          OBVIOUS
        <4>1. /\ Resolve(f) = Entry(d, name) /\ Resolve(f)' = Entry(d, name)'
              /\ Entry(d, name)' # Entry(d, name)
          BY <2>8, <3>2, <3>5, <4>0
        <4>2. /\ Entry(d, name) = Nowhere \/ Empty(Entry(d, name))
              /\ Entry(d, name)' = Nowhere \/ EmptyAfter(Entry(d, name)')
          <5>1. d \in Inodes \cup {Base} /\ name \in Names
            BY <3>5, <4>0
          <5> QED
            BY <4>1, <5>1, EntryChanges
        <4> QED
          BY <4>1, <4>2
      <3>7. Resolve(s) = Nowhere
        <4>1. CASE Parent(s) = Nowhere
          BY <2>6, <4>1
        <4>2. CASE Parent(s) # Nowhere
          <5>1. Empty(Parent(s)) /\ Parent(s) \in Inodes
            BY <3>1, <3>2, <3>6, <4>2, StepsNow DEF Steps
          <5>2. Entry(Parent(s), Last(s)) \notin Inodes
            <6>1. SUFFICES ASSUME Entry(Parent(s), Last(s)) \in Inodes PROVE FALSE
              OBVIOUS
            <6>2. PICK m \in Inodes : m = Entry(Parent(s), Last(s))
              BY <6>1
            <6>3. Nowhere \notin Inodes
              BY TreeAssumption
            <6>4. seat[m] = <<Parent(s), Last(s)>>
              BY <6>2, <6>3, EntryFound
            <6> QED
              BY <2>6, <5>1, <6>4 DEF Empty
          <5>3. Nowhere \notin Inodes
            BY TreeAssumption
          <5> QED
            BY <2>6, <4>2, <5>2, <5>3, EntryFound
        <4> QED
          BY <4>1, <4>2
      <3>8. Resolve(s)' = Nowhere
        <4>1. CASE Parent(s)' = Nowhere
          BY <2>6, <4>1
        <4>2. CASE Parent(s)' # Nowhere
          <5>0. PICK d : d = Parent(s)'
            OBVIOUS
          <5>1. EmptyAfter(d) /\ d \in Inodes
            BY <3>1, <3>2, <3>6, <4>2, <5>0, StepsLater DEF Steps
          <5>2. Resolve(s)' \in Inodes \cup {Nowhere}
            BY StepsLater DEF Steps
          <5>3. Resolve(s)' = Entry(d, Last(s))'
            BY <2>6, <4>2, <5>0
          <5>4. \A n \in Inodes : Entry(d, Last(s))' = n <=> seat'[n] = <<d, Last(s)>>
            BY <2>6, <5>1, EntriesLater DEF Entries
          <5> QED
            BY <2>6, <5>1, <5>2, <5>3, <5>4 DEF EmptyAfter
        <4> QED
          BY <4>1, <4>2
      <3> QED
        BY <2>4, <3>7, <3>8
    <2> QED
      BY <2>7, <2>8
  <1>2. \A s \in Paths \ P : Resolve(s)' = Resolve(s)
    BY <1>1, PathTyped
  <1> HIDE DEF T, Moved
  <1>3. ASSUME NEW r \in P
        PROVE  Parent(r)' = Parent(r)
    <2>1. CASE Len(r) = 1
      BY <2>1, StepsNow, StepsLater DEF Steps
    <2>2. CASE Len(r) # 1
      <3>1. Front(r) \in Paths \ P
        BY <2>2, FrontUnchanged
      <3> QED
        BY <1>2, <3>1 DEF Parent
    <2> QED
      BY <2>1, <2>2
  <1> QED
    BY <1>2, <1>3

LEMMA ChangedPaths ==
  ASSUME TreeTypeOK, SeatsDistinct, TreeTypeOK', SeatsDistinct',
         NEW P \in SUBSET Paths, ChangesAt(P), NEW r \in P
  PROVE  /\ Resolve(r)' \in Inodes \cup {Nowhere}
         /\ \A n \in Inodes : Resolve(r)' = n <=> seat'[n] = <<Parent(r), Last(r)>>
  <1>1. Parent(r)' = Parent(r)
    BY OtherPaths
  <1>2. PICK d : d = Parent(r)
    OBVIOUS
  <1>3. d \in Inodes \cup {Base} /\ d # Nowhere /\ Last(r) \in Names
    BY <1>2, TreeAssumption, PathTyped DEF ChangesAt, IsDir
  <1>4. Resolve(r)' = Entry(d, Last(r))' /\ Resolve(r)' \in Inodes \cup {Nowhere}
    BY <1>1, <1>2, <1>3, StepsLater DEF Steps
  <1>5. \A n \in Inodes : Entry(d, Last(r))' = n <=> seat'[n] = <<d, Last(r)>>
    BY <1>3, EntriesLater DEF Entries
  <1> QED
    BY <1>2, <1>4, <1>5

(* An inode a path leads to is in a seat of that path; it is not among its  *)
(* own entries when it has none.                                            *)
LEMMA SeatOf ==
  ASSUME NEW p \in Paths, Resolve(p) \in Inodes
  PROVE  /\ seat[Resolve(p)] = <<Parent(p), Last(p)>>
         /\ IsDir(Parent(p)) => seat[Resolve(p)] # Nowhere
         /\ Empty(Resolve(p)) => Parent(p) # Resolve(p)
         /\ Last(p) \in Names
  <1>1. PICK n \in Inodes : n = Resolve(p)
    OBVIOUS
  <1>2. seat[n] = <<Parent(p), Last(p)>> /\ Last(p) \in Names
    BY <1>1, ResolveFound, PathTyped
  <1>3. IsDir(Parent(p)) => seat[n] # Nowhere
    BY <1>2, SeatTyped, TreeAssumption
  <1>4. Empty(n) => Parent(p) # n
    BY <1>2 DEF Empty
  <1> QED
    BY <1>1, <1>2, <1>3, <1>4

LEMMA MakeChanges ==
  ASSUME TreeTypeOK, SeatsDistinct, NoOrphans, NEW p \in Paths, NEW n \in Inodes, MakeNode(p, n)
  PROVE  ChangesAt({p})
  <1>1. /\ seat[n] = Nowhere /\ IsDir(Parent(p)) /\ Resolve(p) = Nowhere
        /\ seat' = [seat EXCEPT ![n] = <<Parent(p), Last(p)>>]
    BY DEF MakeNode
  <1>2. Empty(n)
    <2>1. CASE n \in Dirs
      BY <1>1, <2>1 DEF NoOrphans
    <2>2. CASE n \notin Dirs
      BY <2>2, TreeAssumption DEF TreeTypeOK, Empty
    <2> QED
      BY <2>1, <2>2
  <1>3. Parent(p) # n
    <2>1. SUFFICES ASSUME Parent(p) = n PROVE FALSE
      OBVIOUS
    <2>2. Len(p) # 1 /\ Front(p) \in Paths /\ Resolve(Front(p)) = n
      BY <2>1, ParentIs, FrontPath, TreeAssumption
    <2>3. seat[n] = <<Parent(Front(p)), Last(Front(p))>> /\ Last(Front(p)) \in Names
      BY <2>2, SeatOf
    <2>4. Parent(Front(p)) \in Inodes \cup {Base}
      <3>1. Parent(Front(p)) # Nowhere /\ Parent(Front(p)) \in Inodes \cup {Base, Nowhere}
        BY <2>2, ParentIs, ResolveStep, TreeAssumption
      <3> QED
        BY <3>1
    <2> QED
      BY <1>1, <2>3, <2>4, TreeAssumption
  <1>4. \A m \in Inodes : seat'[m] # seat[m] => m = n
    BY <1>1 DEF TreeTypeOK
  <1>5. seat'[n] = <<Parent(p), Last(p)>>
    BY <1>1 DEF TreeTypeOK
  <1> QED
    BY <1>1, <1>2, <1>3, <1>4, <1>5 DEF ChangesAt, PlaceOf

LEMMA DeleteChanges ==
  ASSUME TreeTypeOK, NEW p \in Paths, NEW n \in Inodes, DeleteNode(p, n)
  PROVE  ChangesAt({p})
  <1>1. /\ n = Resolve(p) /\ IsDir(Parent(p)) /\ Empty(n)
        /\ seat' = [seat EXCEPT ![n] = Nowhere]
    BY DEF DeleteNode
  <1>2. seat[n] = <<Parent(p), Last(p)>> /\ seat[n] # Nowhere /\ Parent(p) # n
    BY <1>1, SeatOf
  <1>3. seat'[n] = Nowhere /\ \A m \in Inodes : seat'[m] # seat[m] => m = n
    BY <1>1 DEF TreeTypeOK
  <1> QED
    BY <1>1, <1>2, <1>3 DEF ChangesAt, PlaceOf

(* The directory of the target is not the inode that is moved.              *)
LEMMA NotInto ==
  ASSUME NEW p \in Paths, NEW q \in Paths, ~IsPrefix(p, q), Resolve(p) \in Inodes
  PROVE  Parent(q) # Resolve(p)
  <1>1. SUFFICES ASSUME Parent(q) = Resolve(p) PROVE FALSE
    OBVIOUS
  <1>2. Len(q) # 1 /\ Front(q) \in Paths /\ Resolve(Front(q)) = Resolve(p)
    BY <1>1, ParentIs, FrontPath, TreeAssumption
  <1>3. Front(q) = p
    BY <1>2, OnlyPath
  <1>4. IsPrefix(Front(q), q)
    <2>1. q \in Seq(Names) /\ Len(q) \in Nat /\ Len(Front(q)) = Len(q) - 1
      BY <1>2, PathTyped, FrontPath, TreeAssumption
    <2>2. Len(Front(q)) <= Len(q) /\ Len(Front(q)) \in Nat
      BY <1>2, <2>1, PathTyped
    <2>3. \A i \in 1 .. Len(Front(q)) : Front(q)[i] = q[i]
      BY <2>1 DEF Front
    <2> QED
      BY <2>1, <2>2, <2>3 DEF IsPrefix
  <1> QED
    BY <1>3, <1>4

LEMMA RenameChanges ==
  ASSUME TreeTypeOK, NEW p \in Paths, NEW q \in Paths, NEW n \in Inodes,
         RenameNode(p, q, n), Empty(n)
  PROVE  ChangesAt({p, q})
  <1>1. /\ n = Resolve(p) /\ Resolve(q) = Nowhere
        /\ IsDir(Parent(p)) /\ IsDir(Parent(q)) /\ ~IsPrefix(p, q)
        /\ seat' = [seat EXCEPT ![n] = <<Parent(q), Last(q)>>]
    BY DEF RenameNode, MayMove
  <1>2. seat[n] = <<Parent(p), Last(p)>> /\ Parent(p) # n
    BY <1>1, SeatOf
  <1>3. Parent(q) # n
    BY <1>1, NotInto
  <1>4. seat'[n] = <<Parent(q), Last(q)>> /\ \A m \in Inodes : seat'[m] # seat[m] => m = n
    BY <1>1 DEF TreeTypeOK
  <1>5. seat'[n] # seat[n]
    <2>1. Parent(q) # Nowhere
      BY <1>1, TreeAssumption DEF IsDir
    <2> QED
      BY <1>1, <1>4, <2>1, ResolveFound
  <1> QED
    BY <1>1, <1>2, <1>3, <1>4, <1>5 DEF ChangesAt, PlaceOf

LEMMA ReplaceChanges ==
  ASSUME TreeTypeOK, NEW p \in Paths, NEW q \in Paths, NEW n \in Inodes, NEW m \in Inodes,
         ReplaceNode(p, q, n, m), Empty(n)
  PROVE  ChangesAt({p, q}) /\ n # m
  <1>1. /\ n = Resolve(p) /\ m = Resolve(q) /\ p # q
        /\ IsDir(Parent(p)) /\ IsDir(Parent(q)) /\ ~IsPrefix(p, q) /\ Empty(m)
        /\ seat' = [seat EXCEPT ![n] = seat[m], ![m] = Nowhere]
    BY DEF ReplaceNode, MayMove
  <1>2. n # m
    BY <1>1, OnlyPath
  <1>3. seat[n] = <<Parent(p), Last(p)>> /\ Parent(p) # n /\ seat[n] # Nowhere /\ Last(p) \in Names
    BY <1>1, SeatOf
  <1>4. seat[m] = <<Parent(q), Last(q)>> /\ Parent(q) # m /\ seat[m] # Nowhere
    BY <1>1, SeatOf
  <1>5. Parent(q) # n /\ Parent(p) # m
    BY <1>1, <1>3, NotInto DEF Empty
  <1>6. /\ seat'[n] = seat[m] /\ seat'[m] = Nowhere
        /\ \A k \in Inodes : seat'[k] # seat[k] => k \in {n, m}
    BY <1>1, <1>2 DEF TreeTypeOK
  <1>7. seat[n] # seat[m]
    BY <1>1, <1>2, <1>3, <1>4, ResolveStep
  <1> QED
    BY <1>1, <1>2, <1>3, <1>4, <1>5, <1>6, <1>7 DEF ChangesAt, PlaceOf

(* What each change does to the lookup of every path; a directory that is   *)
(* moved with its contents takes the paths below it along, and is left out. *)
TreeOK == TreeTypeOK /\ SeatsDistinct /\ NoOrphans

LEMMA MakeResolves ==
  ASSUME TreeOK, TreeTypeOK', NEW p \in Paths, NEW n \in Inodes, MakeNode(p, n)
  PROVE  \A s \in Paths : Resolve(s)' = IF s = p THEN n ELSE Resolve(s)
  <1>1. ChangesAt({p}) /\ SeatsDistinct' /\ {p} \in SUBSET Paths
    BY MakeChanges, MakeDistinct DEF TreeOK
  <1>2. \A s \in Paths : s # p => Resolve(s)' = Resolve(s)
    BY <1>1, OtherPaths DEF TreeOK
  <1>3. seat'[n] = <<Parent(p), Last(p)>>
    BY DEF MakeNode, TreeOK, TreeTypeOK
  <1>4. Resolve(p)' = n
    BY <1>1, <1>3, ChangedPaths DEF TreeOK
  <1> QED
    BY <1>2, <1>4

LEMMA DeleteResolves ==
  ASSUME TreeOK, TreeTypeOK', NEW p \in Paths, NEW n \in Inodes, DeleteNode(p, n)
  PROVE  \A s \in Paths : Resolve(s)' = IF s = p THEN Nowhere ELSE Resolve(s)
  <1>1. ChangesAt({p}) /\ SeatsDistinct' /\ {p} \in SUBSET Paths
    BY DeleteChanges, DeleteDistinct DEF TreeOK
  <1>2. \A s \in Paths : s # p => Resolve(s)' = Resolve(s)
    BY <1>1, OtherPaths DEF TreeOK
  <1>3. \A m \in Inodes : seat'[m] # <<Parent(p), Last(p)>>
    <2>1. /\ n = Resolve(p) /\ IsDir(Parent(p))
          /\ seat' = [seat EXCEPT ![n] = Nowhere]
      BY DEF DeleteNode
    <2>2. seat[n] = <<Parent(p), Last(p)>> /\ seat[n] # Nowhere
      BY <2>1, SeatOf
    <2> QED
      BY <2>1, <2>2 DEF TreeOK, TreeTypeOK, SeatsDistinct
  <1>4. Resolve(p)' = Nowhere
    BY <1>1, <1>3, ChangedPaths DEF TreeOK
  <1> QED
    BY <1>2, <1>4

LEMMA RenameResolves ==
  ASSUME TreeOK, TreeTypeOK', NEW p \in Paths, NEW q \in Paths, NEW n \in Inodes,
         RenameNode(p, q, n), Empty(n)
  PROVE  /\ p # q
         /\ \A s \in Paths :
              Resolve(s)' = IF s = p THEN Nowhere ELSE IF s = q THEN n ELSE Resolve(s)
  <1>1. ChangesAt({p, q}) /\ SeatsDistinct' /\ {p, q} \in SUBSET Paths
    BY RenameChanges, RenameDistinct DEF TreeOK
  <1>2. \A s \in Paths : s \notin {p, q} => Resolve(s)' = Resolve(s)
    BY <1>1, OtherPaths DEF TreeOK
  <1>3. /\ n = Resolve(p) /\ IsDir(Parent(p)) /\ p # q
        /\ seat' = [seat EXCEPT ![n] = <<Parent(q), Last(q)>>]
    BY DEF RenameNode, MayMove
  <1>4. seat'[n] = <<Parent(q), Last(q)>>
    BY <1>3 DEF TreeOK, TreeTypeOK
  <1>5. Resolve(q)' = n
    BY <1>1, <1>4, ChangedPaths DEF TreeOK
  <1>6. \A m \in Inodes : seat'[m] # <<Parent(p), Last(p)>>
    <2>1. seat[n] = <<Parent(p), Last(p)>> /\ seat[n] # Nowhere
      BY <1>3, SeatOf
    <2>2. seat'[n] # seat[n]
      <3>1. Resolve(q) = Nowhere /\ Parent(q) # Nowhere
        BY TreeAssumption DEF RenameNode, IsDir
      <3> QED
        BY <1>4, <3>1, ResolveFound
    <2> QED
      BY <1>3, <2>1, <2>2 DEF TreeOK, TreeTypeOK, SeatsDistinct
  <1>7. Resolve(p)' = Nowhere
    BY <1>1, <1>6, ChangedPaths DEF TreeOK
  <1> QED
    BY <1>2, <1>3, <1>5, <1>7

LEMMA ReplaceResolves ==
  ASSUME TreeOK, TreeTypeOK', NEW p \in Paths, NEW q \in Paths, NEW n \in Inodes, NEW m \in Inodes,
         ReplaceNode(p, q, n, m), Empty(n)
  PROVE  /\ p # q /\ n # m
         /\ \A s \in Paths :
              Resolve(s)' = IF s = p THEN Nowhere ELSE IF s = q THEN n ELSE Resolve(s)
  <1>1. ChangesAt({p, q}) /\ n # m /\ SeatsDistinct' /\ {p, q} \in SUBSET Paths
    BY ReplaceChanges, ReplaceDistinct DEF TreeOK
  <1>2. \A s \in Paths : s \notin {p, q} => Resolve(s)' = Resolve(s)
    BY <1>1, OtherPaths DEF TreeOK
  <1>3. /\ n = Resolve(p) /\ m = Resolve(q) /\ IsDir(Parent(p)) /\ IsDir(Parent(q)) /\ p # q
        /\ seat' = [seat EXCEPT ![n] = seat[m], ![m] = Nowhere]
    BY DEF ReplaceNode, MayMove
  <1>4. /\ seat[n] = <<Parent(p), Last(p)>> /\ seat[n] # Nowhere
        /\ seat[m] = <<Parent(q), Last(q)>> /\ seat[m] # Nowhere
    BY <1>3, SeatOf
  <1>5. seat'[n] = <<Parent(q), Last(q)>>
    BY <1>1, <1>3, <1>4 DEF TreeOK, TreeTypeOK
  <1>6. Resolve(q)' = n
    BY <1>1, <1>5, ChangedPaths DEF TreeOK
  <1>7. \A k \in Inodes : seat'[k] # <<Parent(p), Last(p)>>
    BY <1>1, <1>3, <1>4 DEF TreeOK, TreeTypeOK, SeatsDistinct
  <1>8. Resolve(p)' = Nowhere
    BY <1>1, <1>7, ChangedPaths DEF TreeOK
  <1> QED
    BY <1>1, <1>2, <1>3, <1>6, <1>8

-----------------------------------------------------------------------------
(* No change leaves entries behind in a directory that is gone.             *)

LEMMA ParentSeated ==
  ASSUME NEW p \in Paths, Parent(p) \in Dirs
  PROVE  seat[Parent(p)] # Nowhere
  <1>1. Len(p) # 1 /\ Front(p) \in Paths /\ Resolve(Front(p)) = Parent(p) /\ Parent(p) \in Inodes
    BY ParentIs, FrontPath, TreeAssumption
  <1>2. seat[Parent(p)] = <<Parent(Front(p)), Last(Front(p))>> /\ Last(Front(p)) \in Names
    BY <1>1, SeatOf
  <1>3. Parent(Front(p)) \in Inodes \cup {Base}
    BY <1>1, ParentIs, ResolveStep, TreeAssumption
  <1> QED
    BY <1>2, <1>3, TreeAssumption

LEMMA MakeOrphans ==
  ASSUME TreeOK, NEW p \in Paths, NEW n \in Inodes, MakeNode(p, n)
  PROVE  NoOrphans'
  <1>1. seat[n] = Nowhere /\ seat' = [seat EXCEPT ![n] = <<Parent(p), Last(p)>>]
    BY DEF MakeNode
  <1>2. Parent(p) \in Dirs => Parent(p) # n /\ seat[Parent(p)] # Nowhere
    BY <1>1, ParentSeated
  <1>3. <<Parent(p), Last(p)>> # Nowhere
    BY SeatTyped, TreeAssumption DEF MakeNode
  <1> QED
    BY <1>1, <1>2, <1>3, TreeAssumption DEF TreeOK, TreeTypeOK, NoOrphans, Empty

LEMMA DeleteOrphans ==
  ASSUME TreeOK, NEW p \in Paths, NEW n \in Inodes, DeleteNode(p, n)
  PROVE  NoOrphans'
  <1>1. Empty(n) /\ seat' = [seat EXCEPT ![n] = Nowhere]
    BY DEF DeleteNode
  <1>2. \A d \in Inodes, x \in Names : <<d, x>> # Nowhere
    BY TreeAssumption
  <1> QED
    BY <1>1, <1>2, TreeAssumption DEF TreeOK, TreeTypeOK, NoOrphans, Empty

LEMMA RenameOrphans ==
  ASSUME TreeOK, NEW p \in Paths, NEW q \in Paths, NEW n \in Inodes, RenameNode(p, q, n)
  PROVE  NoOrphans'
  <1>1. /\ n = Resolve(p) /\ IsDir(Parent(p))
        /\ seat' = [seat EXCEPT ![n] = <<Parent(q), Last(q)>>]
    BY DEF RenameNode
  <1>2. seat[n] # Nowhere /\ (Parent(q) \in Dirs => seat[Parent(q)] # Nowhere)
    BY <1>1, SeatOf, ParentSeated
  <1>3. <<Parent(q), Last(q)>> # Nowhere
    BY SeatTyped, TreeAssumption DEF RenameNode
  <1> QED
    BY <1>1, <1>2, <1>3, TreeAssumption DEF TreeOK, TreeTypeOK, NoOrphans, Empty

LEMMA ReplaceOrphans ==
  ASSUME TreeOK, NEW p \in Paths, NEW q \in Paths, NEW n \in Inodes, NEW m \in Inodes,
         ReplaceNode(p, q, n, m)
  PROVE  NoOrphans'
  <1>1. /\ m = Resolve(q) /\ IsDir(Parent(q)) /\ Empty(m) /\ n = Resolve(p) /\ IsDir(Parent(p))
        /\ seat' = [seat EXCEPT ![n] = seat[m], ![m] = Nowhere]
    BY DEF ReplaceNode
  <1>2. /\ seat[m] # Nowhere /\ seat[m] = <<Parent(q), Last(q)>> /\ Last(q) \in Names
        /\ Parent(q) # m
        /\ Parent(q) \in Dirs => seat[Parent(q)] # Nowhere
        /\ seat[n] # Nowhere
    BY <1>1, SeatOf, ParentSeated
  <1>3. \A d \in Dirs : seat'[d] = Nowhere => d = m \/ seat[d] = Nowhere
    BY <1>1, <1>2, TreeAssumption DEF TreeOK, TreeTypeOK
  <1>4. \A d \in Dirs : seat'[d] = Nowhere => Empty(d)
    BY <1>1, <1>3 DEF TreeOK, NoOrphans
  <1>5. \A d \in Dirs : seat'[d] = Nowhere => Parent(q) # d
    BY <1>2, <1>3
  <1>6. \A k \in Inodes : seat'[k] \in {seat[k], Nowhere, <<Parent(q), Last(q)>>}
    BY <1>1, <1>2 DEF TreeOK, TreeTypeOK
  <1>7. \A d \in Inodes, x \in Names : <<d, x>> # Nowhere
    BY TreeAssumption
  <1> QED
    BY <1>4, <1>5, <1>6, <1>7, TreeAssumption DEF NoOrphans, Empty

LEMMA TreeInitOK == TreeInit => TreeOK
  BY TreeAssumption DEF TreeInit, TreeOK, TreeTypeOK, SeatsDistinct, NoOrphans, Empty
=============================================================================
