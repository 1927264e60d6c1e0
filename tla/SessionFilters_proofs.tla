------------------------ MODULE SessionFilters_proofs ------------------------
(***************************************************************************)
(* Proof that a started monitor accepts what the filters of its session     *)
(* accept, however many filters earlier starts have left in it, for every   *)
(* set of filters, paths and regular expressions.                           *)
(***************************************************************************)
EXTENDS SessionApi_proofs

-----------------------------------------------------------------------------
(* Chains of filters.                                                       *)

(* For each path a chain has a first filter that matches, or none does. *)
Decided(chain) ==
  \A p \in FilterPaths : Unmatched(chain, p) \/ \E i \in DOMAIN chain : FirstMatch(chain, p, i)

(* Each filter of chain m is one of c, and those before it in c are before  *)
(* it in m, too.                                                            *)
MadeOf(m, c) ==
  \A i \in DOMAIN m : \E k \in DOMAIN c :
    /\ m[i] = c[k]
    /\ \A l \in DOMAIN c : l < k => \E j \in DOMAIN m : j < i /\ m[j] = c[l]

LEMMA EmptyChain == Decided(<<>>) /\ \A c : MadeOf(<<>>, c)
  BY DEF Decided, MadeOf, Unmatched

LEMMA Concatenated ==
  ASSUME NEW c \in Seq(Filters), NEW d \in Seq(Filters)
  PROVE  /\ c \o d \in Seq(Filters)
         /\ DOMAIN c = 1 .. Len(c)
         /\ DOMAIN d = 1 .. Len(d)
         /\ Len(c) \in Nat
         /\ Len(d) \in Nat
         /\ DOMAIN (c \o d) = 1 .. Len(c) + Len(d)
         /\ \A i \in DOMAIN c : i \in DOMAIN (c \o d) /\ (c \o d)[i] = c[i]
         /\ \A i \in DOMAIN d : /\ Len(c) + i \in DOMAIN (c \o d)
                                /\ (c \o d)[Len(c) + i] = d[i]
         /\ \A i \in DOMAIN (c \o d) : i \in DOMAIN c \/ i - Len(c) \in DOMAIN d
  OBVIOUS

(* The first match of a chain is that of its first half, or else that of    *)
(* its second.                                                              *)
LEMMA ConcatDecided ==
  ASSUME NEW c \in Seq(Filters), NEW d \in Seq(Filters), Decided(c), Decided(d)
  PROVE  Decided(c \o d)
<1> DEFINE m == c \o d
<1>0. /\ DOMAIN c = 1 .. Len(c) /\ DOMAIN d = 1 .. Len(d)
      /\ Len(c) \in Nat /\ Len(d) \in Nat
      /\ DOMAIN m = 1 .. Len(c) + Len(d)
      /\ \A i \in DOMAIN c : i \in DOMAIN m /\ m[i] = c[i]
      /\ \A i \in DOMAIN d : Len(c) + i \in DOMAIN m /\ m[Len(c) + i] = d[i]
      /\ \A i \in DOMAIN m : i \in DOMAIN c \/ i - Len(c) \in DOMAIN d
  BY Concatenated
<1> HIDE DEF m
<1> SUFFICES ASSUME NEW p \in FilterPaths
             PROVE  Unmatched(m, p) \/ \E i \in DOMAIN m : FirstMatch(m, p, i)
  BY DEF Decided, m
<1>1. CASE \E i \in DOMAIN c : FirstMatch(c, p, i)
  <2>1. PICK i \in DOMAIN c : FirstMatch(c, p, i)
    BY <1>1
  <2>2. \A j \in DOMAIN m : j < i => j \in DOMAIN c
    BY <1>0
  <2>3. FirstMatch(m, p, i)
    BY <1>0, <2>1, <2>2 DEF FirstMatch
  <2> QED
    BY <1>0, <2>3
<1>2. CASE Unmatched(c, p) /\ \E i \in DOMAIN d : FirstMatch(d, p, i)
  <2>1. PICK i \in DOMAIN d : FirstMatch(d, p, i)
    BY <1>2
  <2>2. ASSUME NEW j \in DOMAIN m, j < Len(c) + i
        PROVE  <<m[j], p>> \notin Matches
    <3>1. CASE j \in DOMAIN c
      BY <1>0, <1>2, <3>1 DEF Unmatched
    <3>2. CASE j - Len(c) \in DOMAIN d
      <4>1. m[j] = d[j - Len(c)]
        BY <1>0, <3>2
      <4>2. j - Len(c) < i
        BY <1>0, <2>2
      <4> QED
        BY <2>1, <3>2, <4>1, <4>2 DEF FirstMatch
    <3> QED
      BY <1>0, <3>1, <3>2
  <2>3. FirstMatch(m, p, Len(c) + i)
    BY <1>0, <2>1, <2>2 DEF FirstMatch
  <2> QED
    BY <1>0, <2>3
<1>3. CASE Unmatched(c, p) /\ Unmatched(d, p)
  <2>1. ASSUME NEW j \in DOMAIN m
        PROVE  <<m[j], p>> \notin Matches
    <3>1. CASE j \in DOMAIN c
      BY <1>0, <1>3, <3>1 DEF Unmatched
    <3>2. CASE j - Len(c) \in DOMAIN d
      <4>1. m[j] = d[j - Len(c)]
        BY <1>0, <3>2
      <4> QED
        BY <1>3, <3>2, <4>1 DEF Unmatched
    <3> QED
      BY <1>0, <3>1, <3>2
  <2> QED
    BY <2>1 DEF Unmatched
<1> QED
  BY <1>1, <1>2, <1>3 DEF Decided

(* One more filter, and a chain cut short. *)
LEMMA AppendDecided ==
  ASSUME NEW c \in Seq(Filters), NEW x \in Filters, Decided(c)
  PROVE  Decided(Append(c, x))
<1> DEFINE d == <<x>>
<1>0. DOMAIN d = 1 .. 1
  OBVIOUS
<1> HIDE DEF d
<1>1. Decided(d)
  <2>1. \A i \in DOMAIN d : i = 1 /\ ~(i < 1)
    BY <1>0
  <2>2. 1 \in DOMAIN d
    BY <1>0
  <2> QED
    BY <2>1, <2>2, Zenon DEF Decided, Unmatched, FirstMatch
<1>2. d \in Seq(Filters) /\ Append(c, x) = c \o d
  BY DEF d
<1> QED
  BY <1>1, <1>2, ConcatDecided

LEMMA PrefixDecided ==
  ASSUME NEW c \in Seq(Filters), NEW n \in 0 .. Len(c), Decided(c)
  PROVE  Decided(SubSeq(c, 1, n))
<1> DEFINE d == SubSeq(c, 1, n)
<1>1. /\ DOMAIN c = 1 .. Len(c)
      /\ Len(c) \in Nat
      /\ DOMAIN d = 1 .. n
      /\ \A i \in DOMAIN d : i \in DOMAIN c /\ d[i] = c[i]
  OBVIOUS
<1> HIDE DEF d
<1> SUFFICES ASSUME NEW p \in FilterPaths
             PROVE  Unmatched(d, p) \/ \E i \in DOMAIN d : FirstMatch(d, p, i)
  BY DEF Decided, d
<1>2. CASE Unmatched(c, p)
  BY <1>1, <1>2 DEF Unmatched
<1>3. CASE \E i \in DOMAIN c : FirstMatch(c, p, i)
  <2>1. PICK i \in DOMAIN c : FirstMatch(c, p, i)
    BY <1>3
  <2>2. CASE i \in DOMAIN d
    BY <1>1, <2>1, <2>2 DEF FirstMatch
  <2>3. CASE i \notin DOMAIN d
    <3>1. \A j \in DOMAIN d : j < i
      BY <1>1, <2>3
    <3> QED
      BY <1>1, <2>1, <3>1 DEF FirstMatch, Unmatched
  <2> QED
    BY <2>2, <2>3
<1> QED
  BY <1>2, <1>3 DEF Decided

(* A chain stays made of one that grows at its end. *)
LEMMA AppendMade ==
  ASSUME NEW c \in Seq(Filters), NEW m \in Seq(Filters), NEW x \in Filters, MadeOf(m, c)
  PROVE  MadeOf(m, Append(c, x))
<1> DEFINE d == Append(c, x)
<1>1. /\ DOMAIN c = 1 .. Len(c)
      /\ Len(c) \in Nat
      /\ DOMAIN d = 1 .. Len(c) + 1
      /\ \A i \in DOMAIN c : d[i] = c[i]
  OBVIOUS
<1> HIDE DEF d
<1> SUFFICES ASSUME NEW i \in DOMAIN m
             PROVE  \E k \in DOMAIN d :
                      /\ m[i] = d[k]
                      /\ \A l \in DOMAIN d : l < k => \E j \in DOMAIN m : j < i /\ m[j] = d[l]
  BY DEF MadeOf, d
<1>2. PICK k \in DOMAIN c :
        /\ m[i] = c[k]
        /\ \A l \in DOMAIN c : l < k => \E j \in DOMAIN m : j < i /\ m[j] = c[l]
  BY DEF MadeOf
<1>3. k \in DOMAIN d /\ m[i] = d[k]
  BY <1>1, <1>2
<1>4. \A l \in DOMAIN d : l < k => l \in DOMAIN c /\ d[l] = c[l]
  BY <1>1
<1> QED
  BY <1>2, <1>3, <1>4

(* The filters a start adds are made of the session's, too. *)
LEMMA ConcatMade ==
  ASSUME NEW c \in Seq(Filters), NEW m \in Seq(Filters), NEW n \in 0 .. Len(c), MadeOf(m, c)
  PROVE  MadeOf(m \o SubSeq(c, 1, n), c)
<1> DEFINE d == SubSeq(c, 1, n)
           e == m \o d
<1>1. /\ d \in Seq(Filters)
      /\ DOMAIN c = 1 .. Len(c)
      /\ Len(c) \in Nat
      /\ DOMAIN d = 1 .. n
      /\ \A i \in DOMAIN d : i \in DOMAIN c /\ d[i] = c[i]
  OBVIOUS
<1>2. /\ DOMAIN m = 1 .. Len(m)
      /\ Len(m) \in Nat
      /\ \A i \in DOMAIN m : i \in DOMAIN e /\ e[i] = m[i]
      /\ \A i \in DOMAIN d : Len(m) + i \in DOMAIN e /\ e[Len(m) + i] = d[i]
      /\ \A i \in DOMAIN e : i \in DOMAIN m \/ i - Len(m) \in DOMAIN d
      /\ DOMAIN e \subseteq Nat
  <2>1. d \in Seq(Filters)
    BY <1>1
  <2> HIDE DEF d
  <2> QED
    BY <2>1, Concatenated
<1> HIDE DEF d, e
<1> SUFFICES ASSUME NEW i \in DOMAIN e
             PROVE  \E k \in DOMAIN c :
                      /\ e[i] = c[k]
                      /\ \A l \in DOMAIN c : l < k => \E j \in DOMAIN e : j < i /\ e[j] = c[l]
  BY DEF MadeOf, d, e
<1>3. CASE i \in DOMAIN m
  <2>1. PICK k \in DOMAIN c :
          /\ m[i] = c[k]
          /\ \A l \in DOMAIN c : l < k => \E j \in DOMAIN m : j < i /\ m[j] = c[l]
    BY <1>3 DEF MadeOf
  <2> QED
    BY <1>2, <1>3, <2>1
<1>4. CASE i - Len(m) \in DOMAIN d
  <2>1. i - Len(m) \in DOMAIN c /\ e[i] = c[i - Len(m)]
    BY <1>1, <1>2, <1>4
  <2>2. ASSUME NEW l \in DOMAIN c, l < i - Len(m)
        PROVE  \E j \in DOMAIN e : j < i /\ e[j] = c[l]
    <3>1. l \in DOMAIN d
      BY <1>1, <1>4, <2>2
    <3>2. Len(m) + l \in DOMAIN e /\ e[Len(m) + l] = c[l]
      BY <1>1, <1>2, <3>1
    <3>3. Len(m) + l < i
      BY <1>1, <1>2, <2>2
    <3> QED
      BY <3>2, <3>3
  <2> QED
    BY <2>1, <2>2
<1> QED
  BY <1>2, <1>3, <1>4

(* There is one first match. *)
LEMMA MatchesOnce ==
  ASSUME NEW c \in Seq(Filters), NEW p \in FilterPaths, NEW k \in DOMAIN c, NEW l \in DOMAIN c,
         FirstMatch(c, p, k), FirstMatch(c, p, l)
  PROVE  k = l
<1>1. DOMAIN c = 1 .. Len(c) /\ Len(c) \in Nat
  OBVIOUS
<1>2. ~(k < l) /\ ~(l < k)
  BY DEF FirstMatch
<1> QED
  BY <1>1, <1>2

(* A chain that is made of c and ends with all of c decides as c does. *)
LEMMA SameVerdict ==
  ASSUME NEW c \in Seq(Filters), NEW m \in Seq(Filters), NEW p \in FilterPaths,
         MadeOf(m, c), Decided(m), Decided(c),
         \A k \in DOMAIN c : \E i \in DOMAIN m : m[i] = c[k]
  PROVE  AcceptPath(m, p) <=> AcceptPath(c, p)
<1>1. CASE Unmatched(c, p)
  <2>1. Unmatched(m, p)
    BY <1>1 DEF Unmatched, MadeOf
  <2> QED
    BY <1>1, <2>1 DEF AcceptPath
<1>2. CASE ~Unmatched(c, p)
  <2>1. ~Unmatched(m, p)
    BY <1>2 DEF Unmatched
  <2>2. \A k, l \in DOMAIN c : FirstMatch(c, p, k) /\ FirstMatch(c, p, l) => k = l
    BY MatchesOnce
  <2>3. \A k, l \in DOMAIN m : FirstMatch(m, p, k) /\ FirstMatch(m, p, l) => k = l
    BY MatchesOnce
  <2>4. PICK i \in DOMAIN m : FirstMatch(m, p, i)
    BY <2>1 DEF Decided
  <2>5. PICK k \in DOMAIN c :
          /\ m[i] = c[k]
          /\ \A l \in DOMAIN c : l < k => \E j \in DOMAIN m : j < i /\ m[j] = c[l]
    BY DEF MadeOf
  <2>6. FirstMatch(c, p, k)
    BY <2>4, <2>5 DEF FirstMatch
  <2> QED
    BY <1>2, <2>1, <2>2, <2>3, <2>4, <2>5, <2>6 DEF AcceptPath
<1> QED
  BY <1>1, <1>2

-----------------------------------------------------------------------------
(* The filters of the registry.                                             *)

(* What is so of the filters of one session and of its monitor. *)
FiltersSound(s) ==
  /\ Decided(s.filters)
  /\ s.monitor # Null => /\ Decided(s.monitor.filters)
                         /\ MadeOf(s.monitor.filters, s.filters)

FiltersInv == \A h \in Handles : sessions[h] # Null => FiltersSound(sessions[h])

LEMMA GivenSound ==
  ASSUME NEW o \in Session, NEW s, NEW n, FiltersSound(o), FiltersGiven(o, s, n)
  PROVE  FiltersSound(s)
<1>1. o.filters \in Seq(Filters) /\ o.monitor \in Monitor
  BY DEF Session, FiltersGiven
<1>2. o.monitor.filters \in Seq(Filters)
  BY <1>1 DEF Monitor
<1>3. /\ n \in 0 .. Len(o.filters)
      /\ Decided(o.filters) /\ Decided(o.monitor.filters)
      /\ MadeOf(o.monitor.filters, o.filters)
      /\ s.filters = o.filters
      /\ s.monitor.filters = o.monitor.filters \o SubSeq(o.filters, 1, n)
  BY DEF FiltersGiven, FiltersSound
<1>4. SubSeq(o.filters, 1, n) \in Seq(Filters)
  BY <1>1, <1>3
<1>5. Decided(SubSeq(o.filters, 1, n))
  BY <1>1, <1>3, PrefixDecided
<1>6. Decided(s.monitor.filters)
  BY <1>2, <1>3, <1>4, <1>5, ConcatDecided
<1>7. MadeOf(s.monitor.filters, s.filters)
  BY <1>1, <1>2, <1>3, ConcatMade
<1> QED
  BY <1>3, <1>6, <1>7 DEF FiltersSound

LEMMA GrowSound ==
  ASSUME NEW o \in Session, NEW s, FiltersSound(o), FiltersGrow(o, s), s.monitor = o.monitor
  PROVE  FiltersSound(s)
<1>1. o.filters \in Seq(Filters)
  BY DEF Session
<1>2. o.monitor # Null => o.monitor.filters \in Seq(Filters)
  BY DEF Session, Monitor
<1>3. CASE s.filters = o.filters
  BY <1>3 DEF FiltersSound
<1>4. CASE \E x \in Filters : s.filters = Append(o.filters, x)
  <2>1. PICK x \in Filters : s.filters = Append(o.filters, x)
    BY <1>4
  <2>2. Decided(s.filters)
    BY <1>1, <2>1, AppendDecided DEF FiltersSound
  <2>3. o.monitor # Null => MadeOf(o.monitor.filters, s.filters)
    BY <1>1, <1>2, <2>1, AppendMade DEF FiltersSound
  <2> QED
    BY <2>2, <2>3 DEF FiltersSound
<1> QED
  BY <1>3, <1>4 DEF FiltersGrow

(* Only the session of the call changes. *)
LEMMA SoundBy ==
  ASSUME TypeOK, FiltersInv, NEW f \in Frames, NEW s, Becomes(f, s), FiltersSound(s)
  PROVE  FiltersInv'
<1>1. \A h \in Handles : sessions'[h] = IF h = handle[f] THEN s ELSE sessions[h]
  BY DEF TypeOK, Becomes
<1>2. ASSUME NEW h \in Handles, sessions'[h] # Null
      PROVE  FiltersSound(sessions'[h])
  BY <1>1, <1>2 DEF FiltersInv
<1> QED
  BY <1>2 DEF FiltersInv, FiltersSound, Decided, MadeOf, Unmatched, FirstMatch

(* The session a call works on is sound. *)
LEMMA SoundBefore ==
  ASSUME FiltersInv, NEW f \in Frames, NEW s, Becomes(f, s)
  PROVE  SessionOf(f) \in Session /\ FiltersSound(SessionOf(f))
  BY NullAssumption DEF FiltersInv, Becomes, SessionOf

(* Every step keeps the filters sound. *)
LEMMA FiltersStep == IInv /\ FiltersInv /\ [Next]_vars => FiltersInv'
<1> SUFFICES ASSUME IInv, FiltersInv, [Next]_vars PROVE FiltersInv'
  OBVIOUS
<1>0. TypeOK /\ LockInv /\ SessionPinned /\ CallShape
  BY DEF IInv, LockInv
<1>1. CASE sessions' = sessions
  <2>1. \A h \in Handles : sessions'[h] # Null => FiltersSound(sessions'[h])
    BY <1>1 DEF FiltersInv
  <2> QED
    BY <2>1 DEF FiltersInv, FiltersSound, Decided, MadeOf, Unmatched, FirstMatch
<1> SUFFICES ASSUME NEW f \in Frames, ~crashed,
                    \/ InitSession(f) \/ SetterStep(f) \/ CreateMonitor(f)
                    \/ ConfigureFails(f) \/ ConfigureMonitor(f) \/ MonitorStops(f)
                    \/ DestroySession(f)
             PROVE  FiltersInv'
  BY <1>1
  DEF Next, Terminated, vars, ClientStep, Call, RejectArgument, LockRegistry,
      LibraryStep, UnknownSession, StartStep, StartRefused, StartWithoutMutex,
      StartFindMutex, StartTakeMutex, ConfigureNothing, LeaveStart, DestroyStep,
      DestroyUnknown, DestroyWithoutMutex, DestroyFindMutex, DestroyTakeMutex,
      EraseMutex
<1>2. CASE InitSession(f)
  <2>1. PICK h \in Handles, s \in Session :
          /\ sessions' = [sessions EXCEPT ![h] = s]
          /\ s.filters = <<>>
          /\ s.monitor = Null
    BY <1>0, <1>2, InitEffect
  <2>2. FiltersSound(s)
    BY <2>1, EmptyChain DEF FiltersSound
  <2>3. \A k \in Handles : sessions'[k] = IF k = h THEN s ELSE sessions[k]
    BY <1>0, <2>1 DEF TypeOK
  <2>4. \A k \in Handles : sessions'[k] # Null => FiltersSound(sessions'[k])
    BY <2>2, <2>3 DEF FiltersInv
  <2> QED
    BY <2>4 DEF FiltersInv, FiltersSound, Decided, MadeOf, Unmatched, FirstMatch
<1>3. CASE SetterStep(f)
  <2>1. PICK s : /\ Becomes(f, s)
                 /\ s.monitor = SessionOf(f).monitor
                 /\ FiltersGrow(SessionOf(f), s)
    BY <1>0, <1>3, SetterEffect
  <2> QED
    BY <1>0, <2>1, SoundBefore, GrowSound, SoundBy
<1>4. CASE CreateMonitor(f)
  <2>1. PICK s : /\ Becomes(f, s)
                 /\ s.filters = SessionOf(f).filters
                 /\ s.monitor = SessionOf(f).monitor \/ s.monitor.filters = <<>>
    BY <1>0, <1>4, CreateEffect
  <2>2. FiltersSound(s)
    BY <2>1, SoundBefore, EmptyChain DEF FiltersSound
  <2> QED
    BY <1>0, <2>1, <2>2, SoundBy
<1>5. CASE ConfigureFails(f)
  <2>1. PICK s : Becomes(f, s) /\ \E n : FiltersGiven(SessionOf(f), s, n)
    BY <1>0, <1>5, ConfigureFailsEffect
  <2> QED
    BY <1>0, <2>1, SoundBefore, GivenSound, SoundBy
<1>6. CASE ConfigureMonitor(f)
  <2>1. PICK s : Becomes(f, s) /\ \E n : FiltersGiven(SessionOf(f), s, n)
    BY <1>0, <1>6, ConfigureEffect
  <2> QED
    BY <1>0, <2>1, SoundBefore, GivenSound, SoundBy
<1>7. CASE MonitorStops(f)
  <2>1. PICK s : /\ Becomes(f, s)
                 /\ s.filters = SessionOf(f).filters
                 /\ s.monitor = SessionOf(f).monitor
    BY <1>0, <1>7, StopEffect
  <2>2. FiltersSound(s)
    BY <2>1, SoundBefore DEF FiltersSound
  <2> QED
    BY <1>0, <2>1, <2>2, SoundBy
<1>8. CASE DestroySession(f)
  <2>1. \A k \in Handles : sessions'[k] = IF k = handle[f] THEN Null ELSE sessions[k]
    BY <1>0, <1>8 DEF DestroySession, TypeOK
  <2>2. \A k \in Handles : sessions'[k] # Null => FiltersSound(sessions'[k])
    BY <2>1 DEF FiltersInv
  <2> QED
    BY <2>2 DEF FiltersInv, FiltersSound, Decided, MadeOf, Unmatched, FirstMatch
<1> QED
  BY <1>2, <1>3, <1>4, <1>5, <1>6, <1>7, <1>8

LEMMA FiltersInit == Init => FiltersInv
  BY DEF Init, FiltersInv

(* A start ends with all filters of the session, behind those the monitor   *)
(* had.                                                                     *)
LEMMA GivenAll ==
  ASSUME NEW o \in Session, NEW s, NEW p \in FilterPaths, FiltersSound(o),
         FiltersGiven(o, s, Len(o.filters))
  PROVE  AcceptPath(s.monitor.filters, p) <=> AcceptPath(s.filters, p)
<1> DEFINE c == o.filters
           m == o.monitor.filters
<1>1. c \in Seq(Filters) /\ o.monitor \in Monitor
  BY DEF Session, FiltersGiven
<1>2. m \in Seq(Filters)
  BY <1>1 DEF Monitor
<1>3. /\ s.filters = c
      /\ s.monitor # Null
      /\ s.monitor.filters = m \o SubSeq(c, 1, Len(c))
  BY DEF FiltersGiven
<1>4. SubSeq(c, 1, Len(c)) = c
  BY <1>1
<1>5. s.monitor.filters = m \o c
  BY <1>3, <1>4
<1>6. FiltersSound(s)
  BY GivenSound
<1> HIDE DEF c, m
<1>7. m \o c \in Seq(Filters) /\ \A k \in DOMAIN c : \E i \in DOMAIN (m \o c) : (m \o c)[i] = c[k]
  BY <1>1, <1>2, Concatenated
<1>8. MadeOf(m \o c, c) /\ Decided(m \o c) /\ Decided(c)
  BY <1>3, <1>5, <1>6 DEF FiltersSound
<1>9. AcceptPath(m \o c, p) <=> AcceptPath(c, p)
  BY <1>1, <1>7, <1>8, SameVerdict
<1> QED
  BY <1>3, <1>5, <1>9

(* A session that begins to run was just configured. *)
LEMMA StartEffective == IInv /\ FiltersInv /\ [Next]_vars => FiltersEffective
<1> SUFFICES ASSUME IInv, FiltersInv, [Next]_vars,
                    NEW h \in Handles, NEW p \in FilterPaths,
                    sessions[h] # Null, sessions'[h] # Null,
                    ~sessions[h].running, sessions'[h].running
             PROVE  AcceptPath(sessions'[h].monitor.filters, p)
                      <=> AcceptPath(sessions'[h].filters, p)
  BY DEF FiltersEffective
<1>0. TypeOK /\ LockInv /\ SessionPinned /\ CallShape
  BY DEF IInv, LockInv
<1>1. sessions' # sessions
  OBVIOUS
<1>2. PICK f \in Frames :
        \/ InitSession(f) \/ SetterStep(f) \/ CreateMonitor(f)
        \/ ConfigureFails(f) \/ ConfigureMonitor(f) \/ MonitorStops(f)
        \/ DestroySession(f)
  BY <1>1
  DEF Next, Terminated, vars, ClientStep, Call, RejectArgument, LockRegistry,
      LibraryStep, UnknownSession, StartStep, StartRefused, StartWithoutMutex,
      StartFindMutex, StartTakeMutex, ConfigureNothing, LeaveStart, DestroyStep,
      DestroyUnknown, DestroyWithoutMutex, DestroyFindMutex, DestroyTakeMutex,
      EraseMutex
(* The other steps leave the running flag of the session, or reset it. *)
<1>3. ASSUME NEW s, Becomes(f, s), s.running = SessionOf(f).running \/ s.running = FALSE
      PROVE  FALSE
  <2>1. sessions'[h] = IF h = handle[f] THEN s ELSE sessions[h]
    BY <1>0, <1>3 DEF TypeOK, Becomes
  <2> QED
    BY <1>3, <2>1 DEF SessionOf
<1>4. ~InitSession(f)
  <2>1. SUFFICES ASSUME InitSession(f) PROVE FALSE
    OBVIOUS
  <2>2. PICK k \in Handles, s \in Session :
          sessions[k] = Null /\ sessions' = [sessions EXCEPT ![k] = s] /\ s.running = FALSE
    BY <1>0, <2>1, InitEffect
  <2>3. sessions'[h] = IF h = k THEN s ELSE sessions[h]
    BY <1>0, <2>2 DEF TypeOK
  <2> QED
    BY <2>2, <2>3
<1>5. ~SetterStep(f)
  BY <1>0, <1>3, SetterEffect
<1>6. ~CreateMonitor(f)
  BY <1>0, <1>3, CreateEffect
<1>7. ~ConfigureFails(f)
  BY <1>0, <1>3, ConfigureFailsEffect
<1>8. ~MonitorStops(f)
  BY <1>0, <1>3, StopEffect
<1>9. ~DestroySession(f)
  <2>1. SUFFICES ASSUME DestroySession(f) PROVE FALSE
    OBVIOUS
  <2>2. sessions'[h] = IF h = handle[f] THEN Null ELSE sessions[h]
    BY <1>0, <2>1 DEF DestroySession, TypeOK
  <2> QED
    BY <2>2
<1>10. ConfigureMonitor(f)
  BY <1>2, <1>4, <1>5, <1>6, <1>7, <1>8, <1>9
<1>11. PICK s : Becomes(f, s) /\ FiltersGiven(SessionOf(f), s, Len(SessionOf(f).filters))
  BY <1>0, <1>10, ConfigureEffect
<1>12. sessions'[h] = IF h = handle[f] THEN s ELSE sessions[h]
  BY <1>0, <1>11 DEF TypeOK, Becomes
<1>13. sessions'[h] = s
  BY <1>12
<1> QED
  BY <1>11, <1>13, SoundBefore, GivenAll

(* The filters of sessions and monitors stay sound. *)
THEOREM FiltersInvariant == Spec => []FiltersInv
  BY Inductive, FiltersInit, FiltersStep, PTL DEF Spec

(* Whenever a session begins to run, its monitor accepts the paths its      *)
(* filters accept, whatever earlier starts, failed ones included, and       *)
(* callbacks did (monitor::set_filters, monitor::accept_path).              *)
THEOREM FiltersAlwaysEffective == Spec => FiltersEffectiveAlways
  BY Inductive, FiltersInvariant, StartEffective, PTL DEF Spec, FiltersEffectiveAlways
=============================================================================
