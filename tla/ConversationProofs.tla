-------------------------- MODULE ConversationProofs --------------------------
(***************************************************************************)
(* Proofs about what a conversation does to rows: the tasks a reference      *)
(* means (TaskReferences, Conversation), then the tasks and meetings of one  *)
(* activity (Activities), the two for any constants.  Their variables are    *)
(* apart; each has its own inductive invariant.                              *)
(***************************************************************************)
EXTENDS Conversation, Activities, FiniteSetTheorems, TLAPS

-----------------------------------------------------------------------------
(* Lists of tasks.                                                         *)

\* Ranks that are a bijection of S with 0 .. n - 1.
IsRank(S, rank) ==
  /\ IsFiniteSet(S)
  /\ \A t \in S : rank[t] \in 0 .. Cardinality(S) - 1
  /\ \A s, t \in S : rank[s] = rank[t] => s = t

\* Members ranked without a tie are enumerated each once.
LEMMA EnumeratedOnce ==
  ASSUME NEW S, NEW rank, IsRank(S, rank)
  PROVE  LET e == Enumerated(S, rank)
             n == Cardinality(S)
         IN  /\ n \in Nat /\ e \in [1 .. n -> S] /\ IsInjective(e)
             /\ \A i \in 1 .. n : rank[e[i]] = i - 1
             /\ \A t \in S : e[rank[t] + 1] = t
<1> DEFINE n == Cardinality(S)
           e == Enumerated(S, rank)
           f == [t \in S |-> rank[t] + 1]
<1>1. n \in Nat
  BY FS_CardinalityType DEF IsRank
<1>2. f \in Injection(S, 1 .. n)
  <2>1. f \in [S -> 1 .. n]
    BY <1>1 DEF IsRank
  <2>2. \A s, t \in S : f[s] = f[t] => s = t
    BY <1>1 DEF IsRank
  <2> QED BY <2>1, <2>2 DEF Injection, IsInjective
<1>3. IsFiniteSet(1 .. n) /\ Cardinality(1 .. n) = n
  BY <1>1, FS_Interval
<1>4. f \in Surjection(S, 1 .. n)
  <2> HIDE DEF f, n
  <2> QED BY <1>2, <1>3, FS_Injection DEF n
<1>5. ASSUME NEW i \in 1 .. n PROVE \E t \in S : rank[t] = i - 1
  <2>1. PICK t \in S : f[t] = i
    BY <1>4 DEF Surjection
  <2> QED BY <1>1, <2>1 DEF IsRank
<1>6. ASSUME NEW i \in 1 .. n PROVE e[i] \in S /\ rank[e[i]] = i - 1
  <2>1. e[i] = CHOOSE t \in S : rank[t] = i - 1
    BY DEF Enumerated
  <2> QED BY <1>5, <2>1
<1>7. e \in [1 .. n -> S]
  BY <1>6 DEF Enumerated
<1>8. IsInjective(e)
  <2>1. ASSUME NEW i \in 1 .. n, NEW j \in 1 .. n, e[i] = e[j] PROVE i = j
    <3>1. i - 1 = j - 1
      BY <1>6, <2>1
    <3> QED BY <1>1, <3>1
  <2> QED BY <1>7, <2>1 DEF IsInjective
<1>9. ASSUME NEW t \in S PROVE e[rank[t] + 1] = t
  <2>1. rank[t] + 1 \in 1 .. n /\ (rank[t] + 1) - 1 = rank[t]
    BY <1>1 DEF IsRank
  <2> QED BY <1>6, <2>1 DEF IsRank
<1> QED BY <1>1, <1>6, <1>7, <1>8, <1>9

\* Members of a finite set ranked by how many come before, for a strict total
\* order given by its pairs, have no tie.
LEMMA RankByOrder ==
  ASSUME NEW S, IsFiniteSet(S), NEW R,
         \A t \in S : <<t, t>> \notin R,
         \A s, t \in S : s # t => <<s, t>> \in R \/ <<t, s>> \in R,
         \A s, t, u \in S : <<s, t>> \in R /\ <<t, u>> \in R => <<s, u>> \in R
  PROVE  IsRank(S, [t \in S |-> Cardinality({s \in S : <<s, t>> \in R})])
<1> DEFINE Below(t) == {s \in S : <<s, t>> \in R}
           rank == [t \in S |-> Cardinality(Below(t))]
<1>1. ASSUME NEW t \in S PROVE rank[t] \in 0 .. Cardinality(S) - 1
  <2>1. Below(t) \subseteq S \ {t}
    OBVIOUS
  <2>2. IsFiniteSet(S \ {t}) /\ Cardinality(S \ {t}) = Cardinality(S) - 1
    BY FS_RemoveElement
  <2> HIDE DEF Below
  <2>3. IsFiniteSet(Below(t)) /\ Cardinality(Below(t)) <= Cardinality(S) - 1
    BY <2>1, <2>2, FS_Subset
  <2>4. Cardinality(Below(t)) \in Nat /\ Cardinality(S) \in Nat
    BY <2>3, FS_CardinalityType
  <2> QED BY <2>3, <2>4
<1>2. ASSUME NEW s \in S, NEW t \in S, <<s, t>> \in R PROVE rank[s] # rank[t]
  <2>1. Below(s) \subseteq Below(t) /\ s \in Below(t) /\ s \notin Below(s)
    BY <1>2
  <2>2. IsFiniteSet(Below(t))
    BY FS_Subset
  <2>3. Cardinality(Below(s)) # Cardinality(Below(t))
    BY <2>1, <2>2, FS_Subset
  <2> QED BY <2>3
<1>3. \A s, t \in S : rank[s] = rank[t] => s = t
  BY <1>2
<1> QED BY <1>1, <1>3 DEF IsRank

\* A sequence of tasks without repetition is as long as there are tasks at most.
LEMMA ListsAre == Lists = {s \in Seq(Task) : IsInjective(s)}
<1>1. ASSUME NEW s \in Seq(Task), IsInjective(s) PROVE s \in Lists
  <2>1. s \in [1 .. Len(s) -> Task] /\ Len(s) \in Nat /\ DOMAIN s = 1 .. Len(s)
    OBVIOUS
  <2>2. s \in Injection(1 .. Len(s), Task)
    BY <1>1, <2>1 DEF Injection
  <2>3. Cardinality(1 .. Len(s)) = Len(s)
    <3>1. \A n \in Nat : Cardinality(1 .. n) = n
      BY FS_Interval
    <3> QED BY <2>1, <3>1
  <2>4. Len(s) <= Cardinality(Task)
    BY <2>2, <2>3, FS_Injection, SizeAssumption
  <2>5. Len(s) \in 0 .. Cardinality(Task)
    BY <2>1, <2>4, FS_CardinalityType, SizeAssumption
  <2>6. s \in SeqOf(Task, Cardinality(Task))
    BY <2>1, <2>5 DEF SeqOf
  <2> QED BY <1>1, <2>6 DEF Lists
<1>2. ASSUME NEW s \in Lists PROVE s \in Seq(Task) /\ IsInjective(s)
  <2>1. PICK m \in 0 .. Cardinality(Task) : s \in [1 .. m -> Task]
    BY DEF Lists, SeqOf
  <2>2. m \in Nat
    OBVIOUS
  <2> QED BY <2>1, <2>2 DEF Lists
<1> QED BY <1>1, <1>2

\* The first tasks of a list.
LEMMA FirstIs ==
  ASSUME NEW s \in Lists, NEW n \in Nat
  PROVE  /\ First(s, n) \in Lists /\ Len(First(s, n)) <= n
         /\ Len(First(s, n)) <= Len(s)
         /\ \A i \in 1 .. Len(First(s, n)) : First(s, n)[i] = s[i]
         /\ ToSet(First(s, n)) \subseteq ToSet(s)
<1> DEFINE k == IF Len(s) < n THEN Len(s) ELSE n
           f == First(s, n)
<1>1. s \in Seq(Task) /\ IsInjective(s) /\ Len(s) \in Nat /\ DOMAIN s = 1 .. Len(s)
  BY ListsAre
<1>2. k \in Nat /\ k <= n /\ k <= Len(s)
  BY <1>1
<1>3. f = [i \in 1 .. k |-> s[i]]
  <2>1. f = SubSeq(s, 1, k)
    BY DEF First
  <2> HIDE DEF k, f
  <2> QED BY <1>1, <1>2, <2>1
<1> HIDE DEF k, f
<1>4. f \in Seq(Task) /\ Len(f) = k /\ DOMAIN f = 1 .. k
  BY <1>1, <1>2, <1>3
<1>5. \A i \in 1 .. k : f[i] = s[i] /\ i \in DOMAIN s
  BY <1>1, <1>2, <1>3
<1>6. IsInjective(f)
  BY <1>1, <1>4, <1>5 DEF IsInjective
<1>7. ToSet(f) \subseteq ToSet(s)
  BY <1>4, <1>5 DEF ToSet
<1> QED BY <1>2, <1>4, <1>5, <1>6, <1>7, ListsAre DEF f

\* The tasks of a set in the order of list_active: each once.
LEMMA OrderedOnce ==
  ASSUME due \in [Task -> Days \cup {Undated}], NEW S \in SUBSET Task
  PROVE  /\ IsFiniteSet(S) /\ Ordered(S) \in Lists
         /\ Len(Ordered(S)) = Cardinality(S) /\ ToSet(Ordered(S)) = S
<1> DEFINE R == {p \in S \X S : Before(p[1], p[2])}
           rank == [t \in S |-> Cardinality({s \in S : <<s, t>> \in R})]
           o == Enumerated(S, rank)
           n == Cardinality(S)
<1>1. IsFiniteSet(S)
  BY FS_Subset, SizeAssumption
<1>2. \A t \in Task : due[t] \in Int /\ t \in Int
  <2>1. Day(End) \in Int
    BY SizeAssumption DEF Day
  <2> QED BY <2>1, SizeAssumption DEF Days, Undated
<1>3. \A s, t \in S : <<s, t>> \in R <=> Before(s, t)
  OBVIOUS
<1>4. /\ \A t \in S : ~Before(t, t)
      /\ \A s, t \in S : s # t => Before(s, t) \/ Before(t, s)
      /\ \A s, t, u \in S : Before(s, t) /\ Before(t, u) => Before(s, u)
  BY <1>2 DEF Before
<1>5. Ordered(S) = o
  <2>1. \A t \in S : {s \in S : Before(s, t)} = {s \in S : <<s, t>> \in R}
    BY <1>3
  <2> QED BY <2>1 DEF Ordered
<1>6. IsRank(S, rank)
  <2> HIDE DEF R
  <2> QED BY <1>1, <1>3, <1>4, RankByOrder
<1> HIDE DEF R, rank
<1>7. /\ n \in Nat /\ o \in [1 .. n -> S] /\ IsInjective(o)
      /\ \A t \in S : rank[t] + 1 \in 1 .. n /\ o[rank[t] + 1] = t
  <2>1. n \in Nat /\ \A t \in S : rank[t] + 1 \in 1 .. n
    BY <1>1, <1>6, FS_CardinalityType DEF IsRank
  <2> QED BY <1>6, <2>1, EnumeratedOnce
<1> HIDE DEF o, n
<1>8. o \in Seq(Task) /\ Len(o) = n /\ DOMAIN o = 1 .. n
  BY <1>7
<1>9. ToSet(o) = S
  BY <1>7, <1>8 DEF ToSet
<1> QED BY <1>1, <1>5, <1>7, <1>8, <1>9, ListsAre DEF n

\* One list continues another.
IsStart(s, l) == Len(s) <= Len(l) /\ \A i \in 1 .. Len(s) : s[i] = l[i]

\* The view of today: no task twice, and those due come first.
LEMMA TodayIs ==
  ASSUME due \in [Task -> Days \cup {Undated}]
  PROVE  /\ Today \in Lists /\ ToSet(Today) \subseteq Active
         /\ Ordered(DueToday) \in Lists /\ IsStart(Ordered(DueToday), Today)
<1> DEFINE a == Ordered(DueToday)
           b == Ordered(Waiting \ DueToday)
<1>1. /\ DueToday \subseteq Active /\ Waiting \subseteq Active /\ Active \subseteq Task
  BY DEF DueToday, Waiting, Active
<1>2. /\ a \in Lists /\ ToSet(a) = DueToday /\ b \in Lists /\ ToSet(b) = Waiting \ DueToday
  BY <1>1, OrderedOnce
<1> HIDE DEF a, b
<1>3. a \in Seq(Task) /\ b \in Seq(Task) /\ IsInjective(a) /\ IsInjective(b)
  BY <1>2, ListsAre
<1>4. /\ Len(a) \in Nat /\ Len(b) \in Nat
      /\ DOMAIN a = 1 .. Len(a) /\ DOMAIN b = 1 .. Len(b)
  BY <1>3
<1> DEFINE c == a \o b
<1>5. /\ c \in Seq(Task) /\ Len(c) = Len(a) + Len(b) /\ DOMAIN c = 1 .. Len(a) + Len(b)
      /\ \A i \in 1 .. Len(a) + Len(b) : c[i] = IF i <= Len(a) THEN a[i] ELSE b[i - Len(a)]
  BY <1>3, <1>4
<1> HIDE DEF c
<1>6. \A i \in 1 .. Len(c) : \/ i \in DOMAIN a /\ c[i] = a[i] /\ c[i] \in DueToday
                            \/ /\ i - Len(a) \in DOMAIN b /\ c[i] = b[i - Len(a)]
                               /\ c[i] \in Waiting \ DueToday
  <2>1. \A i \in DOMAIN a : a[i] \in DueToday
    BY <1>2 DEF ToSet
  <2>2. \A i \in DOMAIN b : b[i] \in Waiting \ DueToday
    BY <1>2 DEF ToSet
  <2> QED BY <1>4, <1>5, <2>1, <2>2
<1>7. IsInjective(c)
  <2>1. ASSUME NEW i \in DOMAIN c, NEW j \in DOMAIN c, c[i] = c[j] PROVE i = j
    <3>1. i \in 1 .. Len(c) /\ j \in 1 .. Len(c) /\ i \in Int /\ j \in Int
      BY <1>4, <1>5
    <3>2. CASE i \in DOMAIN a /\ j \in DOMAIN a /\ c[i] = a[i] /\ c[j] = a[j]
      BY <1>3, <2>1, <3>2 DEF IsInjective
    <3>3. CASE /\ i - Len(a) \in DOMAIN b /\ j - Len(a) \in DOMAIN b
               /\ c[i] = b[i - Len(a)] /\ c[j] = b[j - Len(a)]
      <4>1. i - Len(a) = j - Len(a)
        BY <1>3, <2>1, <3>3 DEF IsInjective
      <4> QED BY <1>4, <3>1, <4>1
    <3> QED BY <1>6, <2>1, <3>1, <3>2, <3>3
  <2> QED BY <2>1 DEF IsInjective
<1>8. c \in Lists
  BY <1>5, <1>7, ListsAre
<1>9. ToSet(c) \subseteq Active
  <2>1. \A i \in DOMAIN c : c[i] \in Active
    BY <1>1, <1>5, <1>6
  <2> QED BY <2>1 DEF ToSet
<1>10. IsStart(a, c)
  BY <1>4, <1>5 DEF IsStart
<1> QED BY <1>2, <1>8, <1>9, <1>10 DEF Today, a, b, c

\* The views of which every number is remembered.
Whole == {"today", "tasks", "briefing"}

\* What a view lists: tasks that are active, each once; the numbers the owner
\* reads are those of the first of them, or, of a text that asks for the tasks,
\* the first ones are.  What is remembered is this, or has the titles found.
LEMMA ListedAre ==
  ASSUME due \in [Task -> Days \cup {Undated}], NEW view \in Views, NEW ids \in Listed(view)
  PROVE  /\ ids \in Lists /\ ToSet(ids) \subseteq Active
         /\ Numbered(view, ids) \in Lists
         /\ view \in Whole => IsStart(Numbered(view, ids), ids)
         /\ view = "query_tasks" => ids = First(Numbered(view, ids), Page)
         /\ Remembers(view, ids) \subseteq Lists
         /\ ids # <<>> => Remembers(view, ids) = {ids}
<1>0. /\ \A S \in SUBSET Task : Ordered(S) \in Lists
      /\ DueTomorrow \in SUBSET Task /\ Waiting \in SUBSET Task
  BY OrderedOnce DEF DueTomorrow, Waiting, Active
<1>1. Active \in SUBSET Task
  BY DEF Active
<1>2. Ordered(Active) \in Lists /\ ToSet(Ordered(Active)) = Active
  BY <1>1, OrderedOnce
<1>3. Page \in Nat
  BY SizeAssumption
<1>4. First(Ordered(Active), Page) \in Lists /\ ToSet(First(Ordered(Active), Page)) \subseteq Active
  BY <1>2, <1>3, FirstIs
<1>5. <<>> \in Lists /\ ToSet(<<>>) = {}
  BY ListsAre DEF IsInjective, ToSet
<1> DEFINE Result == /\ ids \in Lists /\ ToSet(ids) \subseteq Active
                     /\ Numbered(view, ids) \in Lists
                     /\ view \in Whole => IsStart(Numbered(view, ids), ids)
                     /\ view = "query_tasks" => ids = First(Numbered(view, ids), Page)
<1>6. ASSUME view = "today" PROVE Result
  <2>1. ids = Today
    BY <1>6 DEF Listed
  <2>2. /\ Today \in Lists /\ ToSet(Today) \subseteq Active
        /\ Ordered(DueToday) \in Lists /\ IsStart(Ordered(DueToday), Today)
    BY TodayIs
  <2>3. IsStart(Today, Today)
    BY <2>2, ListsAre DEF IsStart
  <2>4. Numbered(view, ids) = IF DueToday # {} THEN Ordered(DueToday) ELSE ids
    BY <1>6 DEF Numbered
  <2> QED BY <1>6, <2>1, <2>2, <2>3, <2>4
<1>7. ASSUME view \in {"tasks", "briefing"} PROVE Result
  <2>1. ids \in Lists /\ ToSet(ids) \subseteq Active
    BY <1>4, <1>5, <1>7 DEF Listed, Briefings
  <2>2. IsStart(ids, ids)
    BY <2>1, ListsAre DEF IsStart
  <2>3. Numbered(view, ids) = ids
    BY <1>7 DEF Numbered
  <2> QED BY <1>7, <2>1, <2>2, <2>3
<1>8. ASSUME view = "query_tasks" PROVE Result
  <2>1. ids = First(Ordered(Active), Page) /\ Numbered(view, ids) = Ordered(Active)
    BY <1>8 DEF Listed, Numbered
  <2> QED BY <1>2, <1>4, <1>8, <2>1 DEF Whole
<1>9. ASSUME view = "tomorrow" PROVE Result
  <2>1. ids = <<>> /\ Numbered(view, ids) \in {Ordered(DueTomorrow), Ordered(Waiting)}
    BY <1>9 DEF Listed, Numbered
  <2> QED BY <1>0, <1>5, <1>9, <2>1 DEF Whole
<1>10. Result
  <2>1. view \in {"today", "tasks", "query_tasks", "briefing", "tomorrow"}
    BY SizeAssumption
  <2> QED BY <1>6, <1>7, <1>8, <1>9, <2>1
<1>11. Remembers(view, ids) \subseteq Lists /\ (ids # <<>> => Remembers(view, ids) = {ids})
  BY <1>5, <1>10 DEF Remembers
<1> QED BY <1>10, <1>11

\* The pages that number tasks and remember nothing.
LEMMA ScreensAre ==
  ASSUME due \in [Task -> Days \cup {Undated}]
  PROVE  Screens \subseteq Lists
<1>1. Active \in SUBSET Task /\ Waiting \in SUBSET Task
  BY DEF Active, Waiting
<1>2. Ordered(Active) \in Lists /\ Ordered(Waiting) \in Lists
  BY <1>1, OrderedOnce
<1>3. First(Ordered(Active), Page) \in Lists
  BY <1>2, FirstIs, SizeAssumption
<1> QED BY <1>2, <1>3 DEF Screens

\* _context_selection: tasks of the list in force that are active; a task at n
\* stays at n if none before it has gone.
LEMMA ContextIs ==
  ASSUME list.ids \in Lists
  PROVE  /\ ContextTasks \in Lists /\ Len(ContextTasks) <= Len(list.ids)
         /\ ToSet(ContextTasks) \subseteq Active \cap ToSet(list.ids)
         /\ ContextTasks # <<>> => InForce
         /\ \A n \in 1 .. Len(list.ids) :
              InForce /\ (\A i \in 1 .. n : list.ids[i] \in Active)
                => n <= Len(ContextTasks) /\ ContextTasks[n] = list.ids[n]
<1> DEFINE ids == list.ids
           kept == {i \in DOMAIN ids : ids[i] \in Active}
           R == {p \in kept \X kept : p[1] < p[2]}
           rank == [i \in kept |-> Cardinality({j \in kept : j < i})]
           o == Enumerated(kept, rank)
           m == Cardinality(kept)
           c == [k \in DOMAIN o |-> ids[o[k]]]
<1>1. /\ ids \in Seq(Task) /\ IsInjective(ids) /\ Len(ids) \in Nat /\ DOMAIN ids = 1 .. Len(ids)
  BY ListsAre
<1>2. ContextTasks = IF InForce THEN c ELSE <<>>
  BY DEF ContextTasks
<1>3. /\ kept \subseteq 1 .. Len(ids)
      /\ \A n \in 1 .. Len(ids) : ids[n] \in Active => n \in kept
      /\ \A i \in kept : ids[i] \in Active /\ i \in DOMAIN ids
  BY <1>1
<1> HIDE DEF ids, kept, c, R
<1>4. \A n \in Nat : IsFiniteSet(1 .. n) /\ Cardinality(1 .. n) = n
  BY FS_Interval
<1>5. IsFiniteSet(kept)
  BY <1>1, <1>3, <1>4, FS_Subset
<1>6. IsRank(kept, rank)
  <2>1. \A i, j \in kept : <<i, j>> \in R <=> i < j
    BY DEF R
  <2>2. /\ \A i \in kept : <<i, i>> \notin R
        /\ \A i, j \in kept : i # j => <<i, j>> \in R \/ <<j, i>> \in R
        /\ \A i, j, k \in kept : <<i, j>> \in R /\ <<j, k>> \in R => <<i, k>> \in R
    BY <1>1, <1>3, <2>1
  <2>3. rank = [i \in kept |-> Cardinality({j \in kept : <<j, i>> \in R})]
    <3>1. \A i \in kept : {j \in kept : j < i} = {j \in kept : <<j, i>> \in R}
      BY <2>1
    <3> QED BY <3>1
  <2> HIDE DEF rank
  <2> QED BY <1>5, <2>2, <2>3, RankByOrder
<1>7. /\ m \in Nat /\ o \in [1 .. m -> kept] /\ IsInjective(o)
      /\ \A i \in kept : rank[i] + 1 \in 1 .. m /\ o[rank[i] + 1] = i
  <2> HIDE DEF rank
  <2>1. m \in Nat /\ \A i \in kept : rank[i] + 1 \in 1 .. m
    BY <1>5, <1>6, FS_CardinalityType DEF IsRank
  <2> QED BY <1>6, <2>1, EnumeratedOnce
<1>8. ASSUME NEW n \in 1 .. Len(ids), \A i \in 1 .. n : ids[i] \in Active
      PROVE  n \in 1 .. m /\ o[n] = n
  <2>1. n \in kept
    BY <1>1, <1>3, <1>8
  <2>2. {j \in kept : j < n} = 1 .. n - 1
    <3>1. \A j \in kept : j < n => j \in 1 .. n - 1
      BY <1>1, <1>3
    <3>2. \A j \in 1 .. n - 1 : j < n /\ j \in 1 .. n /\ j \in 1 .. Len(ids)
      BY <1>1
    <3>3. \A j \in 1 .. n - 1 : j < n /\ j \in kept
      BY <1>3, <1>8, <3>2
    <3> QED BY <3>1, <3>3
  <2>3. rank[n] = n - 1
    <3>1. n - 1 \in Nat
      BY <1>1
    <3> QED BY <1>4, <2>1, <2>2, <3>1
  <2> HIDE DEF rank, o, m
  <2>4. (n - 1) + 1 = n
    BY <1>1
  <2> QED BY <1>7, <2>1, <2>3, <2>4
<1> HIDE DEF rank, o, m
<1>9. /\ c \in Seq(Task) /\ Len(c) = m /\ DOMAIN c = 1 .. m
      /\ \A k \in 1 .. m : c[k] = ids[o[k]] /\ o[k] \in kept
  <2>1. /\ c = [k \in 1 .. m |-> ids[o[k]]] /\ \A k \in 1 .. m : o[k] \in kept
    BY <1>7 DEF c
  <2>2. \A k \in 1 .. m : ids[o[k]] \in Task
    <3>1. \A i \in DOMAIN ids : ids[i] \in Task
      BY <1>1
    <3> QED BY <1>3, <2>1, <3>1
  <2> QED BY <1>7, <2>1, <2>2
<1>10. IsInjective(c)
  <2>1. ASSUME NEW i \in 1 .. m, NEW j \in 1 .. m, c[i] = c[j] PROVE i = j
    <3>1. ids[o[i]] = ids[o[j]] /\ o[i] \in DOMAIN ids /\ o[j] \in DOMAIN ids
      BY <1>3, <1>9, <2>1
    <3>2. o[i] = o[j]
      BY <1>1, <3>1 DEF IsInjective
    <3> QED BY <1>7, <3>2 DEF IsInjective
  <2> QED BY <1>9, <2>1 DEF IsInjective
<1>11. ToSet(c) \subseteq Active \cap ToSet(ids)
  BY <1>3, <1>9 DEF ToSet
<1>12. c \in Lists
  BY <1>9, <1>10, ListsAre
<1>13. <<>> \in Lists /\ ToSet(<<>>) = {}
  BY ListsAre DEF IsInjective, ToSet
<1>14. \A n \in 1 .. Len(ids) : (\A i \in 1 .. n : ids[i] \in Active)
                                => n <= Len(c) /\ c[n] = ids[n]
  BY <1>1, <1>7, <1>8, <1>9
<1>15. Len(c) <= Len(ids) /\ Len(<<>>) <= Len(ids)
  <2>1. IsFiniteSet(1 .. Len(ids)) /\ Cardinality(1 .. Len(ids)) = Len(ids)
    BY <1>1, <1>4
  <2>2. m <= Len(ids)
    BY <1>3, <2>1, FS_Subset DEF m
  <2> QED BY <1>1, <1>9, <2>2
<1> QED BY <1>2, <1>11, <1>12, <1>13, <1>14, <1>15 DEF ids

-----------------------------------------------------------------------------
(* What the handlers do.                                                   *)

\* As many tasks as a sequence has places at most.
LEMMA FewTasks ==
  ASSUME NEW s \in Lists
  PROVE  /\ ToSet(s) \subseteq Task /\ Len(s) \in Nat
         /\ Cardinality(ToSet(s)) \in Nat /\ Cardinality(ToSet(s)) <= Len(s)
<1>1. s \in [1 .. Len(s) -> Task] /\ Len(s) \in Nat /\ DOMAIN s = 1 .. Len(s)
  BY ListsAre
<1>2. \A n \in Nat : IsFiniteSet(1 .. n) /\ Cardinality(1 .. n) = n
  BY FS_Interval
<1>3. s \in Surjection(1 .. Len(s), ToSet(s))
  BY <1>1 DEF Surjection, ToSet
<1>4. IsFiniteSet(ToSet(s)) /\ Cardinality(ToSet(s)) <= Cardinality(1 .. Len(s))
  BY <1>1, <1>2, <1>3, FS_Surjection
<1>5. ToSet(s) \subseteq Task
  BY <1>1 DEF ToSet
<1> QED BY <1>1, <1>2, <1>4, <1>5, FS_CardinalityType

\* Tasks that may be written without a question.
FewOrListed(s) ==
  \/ Len(s) <= 1
  \/ Len(s) <= Threshold /\ ToSet(s) \subseteq ToSet(list.ids) /\ InForce

\* A selection that is not to be confirmed is not too large.
LEMMA UnconfirmedFew ==
  ASSUME NEW ids, NEW sure, NEW sel,
         sel = Selection(ids, FALSE, ~sure \/ TooMany(ids))
  PROVE  sel.tasks = ids /\ (~sel.confirm => ~TooMany(ids))
<1> DEFINE b == ~sure \/ TooMany(ids)
<1>1. b \in BOOLEAN /\ (~b => ~TooMany(ids))
  OBVIOUS
<1>2. sel = Selection(ids, FALSE, b)
  OBVIOUS
<1> HIDE DEF b
<1> QED BY <1>1, <1>2 DEF Selection

\* TaskReferenceResolver.resolve: active tasks, each once; without ambiguity
\* and without a request to confirm, one of them or a few of a list in force.
LEMMA ResolveIs ==
  ASSUME TaskTypeOK, NEW r \in References
  PROVE  /\ Resolve(r).tasks \in Lists /\ ToSet(Resolve(r).tasks) \subseteq Active
         /\ ~Resolve(r).ambiguous /\ ~Resolve(r).confirm => FewOrListed(Resolve(r).tasks)
<1> DEFINE Good(sel) == /\ sel.tasks \in Lists /\ ToSet(sel.tasks) \subseteq Active
                        /\ ~sel.ambiguous /\ ~sel.confirm => FewOrListed(sel.tasks)
           c == ContextTasks
<1>1. /\ c \in Lists /\ ToSet(c) \subseteq Active /\ ToSet(c) \subseteq ToSet(list.ids)
      /\ c # <<>> => InForce
  BY ContextIs DEF TaskTypeOK
<1>2. /\ r.n \in Nat /\ (r.by \in {"number", "count"} => r.n > 0) /\ r.title \in SUBSET Active
  <2>1. Cardinality(Task) \in Nat
    BY FS_CardinalityType, SizeAssumption
  <2> QED BY <2>1 DEF References, Ref
<1>3. Active \subseteq Task /\ DueToday \subseteq Active
  BY DEF Active, DueToday
<1>4. ASSUME NEW S \in SUBSET Active
      PROVE  /\ Ordered(S) \in Lists /\ ToSet(Ordered(S)) = S
             /\ Len(Ordered(S)) = Cardinality(S) /\ Cardinality(S) \in Nat
  <2>1. S \in SUBSET Task
    BY <1>3
  <2> QED BY <2>1, OrderedOnce, FS_CardinalityType DEF TaskTypeOK
<1>5. Len(c) \in Nat /\ (Len(c) > 0 => c # <<>>) /\ Threshold \in Nat
  BY <1>1, FewTasks, SizeAssumption
<1>6. Good(ByTitle(r))
  <2>1. /\ ByTitle(r).tasks = Ordered(r.title)
        /\ ~ByTitle(r).ambiguous => ~(Cardinality(r.title) > 1)
    BY DEF ByTitle, Selection
  <2>2. ~(Cardinality(r.title) > 1) => FewOrListed(Ordered(r.title))
    BY <1>2, <1>4 DEF FewOrListed
  <2> QED BY <1>2, <1>4, <2>1, <2>2
<1> HIDE DEF c
<1>7. ASSUME c # <<>>, ~TooMany(c) PROVE FewOrListed(c)
  BY <1>1, <1>5, <1>7 DEF TooMany, FewOrListed
<1>8. Good(AllToday(r))
  <2>1. CASE InForce /\ list.view = "today"
    <3>1. AllToday(r) = Selection(c, FALSE, ~r.sure \/ TooMany(c))
      BY <2>1 DEF AllToday, c
    <3>2. c = <<>> => FewOrListed(c)
      BY DEF FewOrListed
    <3>3. AllToday(r).tasks = c /\ (~AllToday(r).confirm => ~TooMany(c))
      BY <3>1, UnconfirmedFew
    <3> QED BY <1>1, <1>7, <3>2, <3>3
  <2>2. CASE ~(InForce /\ list.view = "today")
    <3>1. AllToday(r) = Selection(Ordered(DueToday), FALSE, TRUE)
      BY <2>2 DEF AllToday
    <3> QED BY <1>3, <1>4, <3>1 DEF Selection
  <2> QED BY <2>1, <2>2
<1>9. CASE r.by = "count" /\ r.n <= Len(c)
  <2> DEFINE f == First(c, r.n)
  <2>1. Resolve(r) = Selection(f, FALSE, ~r.sure \/ TooMany(f))
    BY <1>9 DEF Resolve, c
  <2>2. f \in Lists /\ ToSet(f) \subseteq ToSet(c)
    BY <1>1, <1>2, FirstIs
  <2>3. c # <<>>
    BY <1>2, <1>5, <1>9
  <2>4. Len(f) \in Nat
    BY <2>2, FewTasks
  <2> HIDE DEF f
  <2>5. ~TooMany(f) => FewOrListed(f)
    BY <1>1, <1>5, <2>2, <2>3, <2>4 DEF TooMany, FewOrListed
  <2>6. Resolve(r).tasks = f /\ (~Resolve(r).confirm => ~TooMany(f))
    BY <2>1, UnconfirmedFew
  <2> QED BY <1>1, <2>2, <2>5, <2>6
<1>10. CASE r.by = "number" /\ r.n <= Len(c)
  <2>1. Resolve(r) = Selection(<<c[r.n]>>, FALSE, ~r.sure)
    BY <1>10 DEF Resolve, c
  <2>2. c \in Seq(Task) /\ r.n \in DOMAIN c
    BY <1>1, <1>2, <1>10, ListsAre
  <2>3. c[r.n] \in ToSet(c) /\ c[r.n] \in Task
    BY <2>2 DEF ToSet
  <2>4. <<c[r.n]>> \in Lists /\ ToSet(<<c[r.n]>>) = {c[r.n]} /\ Len(<<c[r.n]>>) = 1
    BY <2>3, ListsAre DEF IsInjective, ToSet
  <2>5. Resolve(r).tasks = <<c[r.n]>>
    BY <2>1 DEF Selection
  <2> QED BY <1>1, <2>3, <2>4, <2>5 DEF FewOrListed
<1>11. CASE r.by = "today"
  <2>1. Resolve(r) = AllToday(r)
    BY <1>11 DEF Resolve
  <2> QED BY <1>8, <2>1
<1>12. CASE r.by = "these" /\ c # <<>>
  <2>1. Resolve(r) = Selection(c, FALSE, ~r.sure \/ TooMany(c))
    BY <1>12 DEF Resolve, c
  <2>2. Resolve(r).tasks = c /\ (~Resolve(r).confirm => ~TooMany(c))
    BY <2>1, UnconfirmedFew
  <2> QED BY <1>1, <1>7, <1>12, <2>2
<1>13. CASE r.by = "vague" /\ c # <<>>
  <2>1. Resolve(r) = Selection(c, FALSE, TRUE)
    BY <1>13 DEF Resolve, c
  <2> QED BY <1>1, <2>1 DEF Selection
<1>14. CASE /\ ~(r.by \in {"count", "number"} /\ r.n <= Len(c))
            /\ ~(r.by \in {"these", "vague"} /\ c # <<>>) /\ r.by # "today"
  <2>1. Resolve(r) = ByTitle(r)
    BY <1>14 DEF Resolve, c
  <2> QED BY <1>6, <2>1
<1> QED BY <1>9, <1>10, <1>11, <1>12, <1>13, <1>14

\* Several tasks are written together only if all open tasks were meant, a
\* question that listed them was answered, or a few of a list in force are done.
MayWrite(op, answer, S) ==
  \/ Cardinality(S) <= 1
  \/ op = "all"
  \/ answer /\ S \subseteq ToSet(asked.ids)
  \/ op = "done" /\ Cardinality(S) <= Threshold /\ S \subseteq ToSet(list.ids) /\ InForce

DueDays == Days \cup {Undated}

Asks ==
  \E op \in Ops, every \in BOOLEAN, ids \in Lists, day \in DueDays : Ask(op, every, ids, day)

Writes ==
  \E op \in Ops \cup {"none", "all"}, answer \in BOOLEAN, S \in SUBSET Task, day \in DueDays :
    Write(op, answer, S, day) /\ MayWrite(op, answer, S)

\* A handler that does what was asked, asks about it, or refuses.
LEMMA DoWrites ==
  ASSUME TaskTypeOK, NEW op \in Ops, NEW sel, sel.tasks \in Lists, NEW day \in DueDays,
         Do(op, sel, day),
         Len(sel.tasks) <= 1 \/ (op = "done" /\ FewOrListed(sel.tasks))
  PROVE  Writes /\ Dismissed
<1> DEFINE S == ToSet(sel.tasks)
<1>1. /\ S \in SUBSET Task /\ Cardinality(S) \in Nat /\ Cardinality(S) <= Len(sel.tasks)
      /\ Len(sel.tasks) \in Nat
  BY FewTasks
<1>2. MayWrite(op, FALSE, S)
  BY <1>1, SizeAssumption DEF MayWrite, FewOrListed
<1>3. Write(op, FALSE, S, day) /\ Dismissed
  BY DEF Do
<1> QED BY <1>1, <1>2, <1>3 DEF Writes

LEMMA WhichAsks ==
  ASSUME NEW op \in Ops, NEW sel, sel.tasks \in Lists, NEW day \in DueDays,
         AskWhich(op, sel, day) \/ AskWhether(op, sel, day)
  PROVE  Asks
<1>1. First(sel.tasks, Page) \in Lists
  BY FirstIs, SizeAssumption
<1> QED BY <1>1 DEF AskWhich, AskWhether, Asks

\* The owner reads nothing new under numbers, or a page that is not remembered.
Beside ==
  /\ UNCHANGED <<now, list, lost>>
  /\ UNCHANGED <<shown, seen>> \/ (shown' \in Lists /\ seen' = "screen")

\* A text that asks for a change.
LEMMA TextIs ==
  ASSUME TaskTypeOK, NEW sel \in {Resolve(r) : r \in References}, Text(sel)
  PROVE  Beside /\ (Refuse \/ Asks \/ (Writes /\ Dismissed))
<1> DEFINE Result == Refuse \/ Asks \/ (Writes /\ Dismissed)
<1>0. Elsewhere => Beside
  BY DEF Elsewhere, Beside
<1>1. /\ sel.tasks \in Lists
      /\ ~sel.ambiguous /\ ~sel.confirm => FewOrListed(sel.tasks)
  BY ResolveIs
<1>2. Undated \in DueDays /\ Days \subseteq DueDays
  BY DEF DueDays
<1>3. One(sel) => Len(sel.tasks) <= 1
  BY DEF One
<1>4. ASSUME NEW op \in Ops, NEW day \in DueDays,
             Refuse \/ AskWhich(op, sel, day) \/ AskWhether(op, sel, day) \/ (One(sel) /\ Do(op, sel, day))
      PROVE  Result
  BY <1>1, <1>3, <1>4, DoWrites, WhichAsks
<1>5. CASE Complete(sel)
  <2>1. /\ Elsewhere
        /\ \/ Refuse \/ AskWhich("done", sel, Undated) \/ AskWhether("done", sel, Undated)
           \/ ~sel.ambiguous /\ ~sel.confirm /\ Do("done", sel, Undated)
    BY <1>5 DEF Complete
  <2>2. "done" \in Ops
    BY DEF Ops
  <2> QED BY <1>0, <1>1, <1>2, <1>4, <2>1, <2>2, DoWrites
<1>6. CASE Cancel(sel)
  <2>1. /\ Elsewhere
        /\ Refuse \/ AskWhich("cancel", sel, Undated) \/ (One(sel) /\ Do("cancel", sel, Undated))
    BY <1>6 DEF Cancel
  <2>2. "cancel" \in Ops
    BY DEF Ops
  <2> QED BY <1>0, <1>2, <1>4, <2>1, <2>2
<1>7. CASE Rename(sel)
  <2>0. Ordered(Active) \in Lists
    BY OrderedOnce DEF TaskTypeOK, Active
  <2>1. /\ Beside
        /\ Refuse \/ AskWhich("rename", sel, Undated) \/ (One(sel) /\ Do("rename", sel, Undated))
    BY <1>7, <2>0 DEF Rename, Elsewhere, Beside
  <2>2. "rename" \in Ops
    BY DEF Ops
  <2> QED BY <1>0, <1>2, <1>4, <2>1, <2>2
<1>8. CASE ChangePriority(sel)
  <2>1. Elsewhere /\ (Refuse \/ (One(sel) /\ Do("priority", sel, Undated)))
    BY <1>8 DEF ChangePriority
  <2>2. "priority" \in Ops
    BY DEF Ops
  <2> QED BY <1>0, <1>2, <1>4, <2>1, <2>2
<1>9. CASE ChangeRecurrence(sel)
  <2>1. Elsewhere /\ (Refuse \/ (One(sel) /\ Do("recurrence", sel, Undated)))
    BY <1>9 DEF ChangeRecurrence
  <2>2. "recurrence" \in Ops
    BY DEF Ops
  <2> QED BY <1>0, <1>2, <1>4, <2>1, <2>2
<1>10. ASSUME NEW day \in Days, NEW recurs \in BOOLEAN, ChangeDue(sel, day, recurs)
       PROVE  Beside /\ Result
  <2>1. /\ Elsewhere
        /\ \/ Refuse \/ AskWhich("due", sel, day) \/ AskWhether("due", sel, day)
           \/ One(sel) /\ Do("due", sel, day)
    BY <1>10 DEF ChangeDue
  <2>2. "due" \in Ops
    BY DEF Ops
  <2> QED BY <1>0, <1>2, <1>4, <2>1, <2>2
<1>11. ASSUME NEW day \in Days, ChangeDueLater(sel, day)
       PROVE  Beside /\ Result
  <2> DEFINE newest == {t \in Active : \A o \in Active : o <= t}
             latest == Selection(Ordered(newest), FALSE, TRUE)
  <2>1. /\ Elsewhere
        /\ Refuse \/ AskWhether("due", sel, day) \/ AskWhether("due", latest, day)
    BY <1>11 DEF ChangeDueLater
  <2>2. newest \in SUBSET Task
    BY DEF Active
  <2>3. latest.tasks \in Lists
    BY <2>2, OrderedOnce DEF Selection, TaskTypeOK
  <2> HIDE DEF latest
  <2>4. "due" \in Ops
    BY DEF Ops
  <2> QED BY <1>0, <1>2, <1>4, <2>1, <2>3, <2>4, WhichAsks
<1> QED BY <1>5, <1>6, <1>7, <1>8, <1>9, <1>10, <1>11 DEF Text

\* "Clear all open tasks", an answer, a button.
LEMMA AllWrites ==
  ASSUME TaskTypeOK, NEW n \in Nat, DeleteAll(n)
  PROVE  Turn /\ Elsewhere /\ Writes /\ Dismissed
<1> DEFINE S == ToSet(First(Ordered(Active), n))
<1>1. Active \in SUBSET Task
  BY DEF Active
<1>2. Ordered(Active) \in Lists
  BY <1>1, OrderedOnce DEF TaskTypeOK
<1>3. S \in SUBSET Task
  BY <1>2, FirstIs, FewTasks
<1>4. Write("all", FALSE, S, Undated) /\ Turn /\ Elsewhere /\ Dismissed
  BY DEF DeleteAll
<1>5. Undated \in DueDays /\ MayWrite("all", FALSE, S)
  BY DEF DueDays, MayWrite
<1> QED BY <1>3, <1>4, <1>5 DEF Writes

LEMMA AnswerWrites ==
  ASSUME TaskTypeOK, AnswerYes \/ \E n \in 1 .. Page : AnswerNumber(n)
  PROVE  Turn /\ Elsewhere /\ Writes /\ Dismissed
<1>1. /\ asked.ids \in Lists /\ asked.op \in Ops \cup {"none"} /\ asked.day \in DueDays
  BY DEF TaskTypeOK, DueDays
<1>2. ToSet(asked.ids) \subseteq Task
  BY <1>1, FewTasks
<1>3. CASE AnswerYes
  <2>1. PICK S \in SUBSET ToSet(asked.ids) : Write(asked.op, TRUE, S, asked.day)
    BY <1>3 DEF AnswerYes
  <2>2. MayWrite(asked.op, TRUE, S)
    BY <2>1 DEF MayWrite
  <2>3. Writes
    BY <1>1, <1>2, <2>1, <2>2 DEF Writes
  <2> QED BY <1>3, <2>3 DEF AnswerYes, Dismissed
<1>4. ASSUME NEW n \in 1 .. Page, AnswerNumber(n)
      PROVE  Turn /\ Elsewhere /\ Writes /\ Dismissed
  <2> DEFINE S == {asked.ids[n]}
  <2>1. n \in DOMAIN asked.ids /\ Write(asked.op, TRUE, S, asked.day)
    BY <1>4 DEF AnswerNumber
  <2>2. S \subseteq ToSet(asked.ids)
    BY <2>1 DEF ToSet
  <2> HIDE DEF S
  <2>3. MayWrite(asked.op, TRUE, S)
    BY <2>2 DEF MayWrite
  <2>4. Writes
    BY <1>1, <1>2, <2>1, <2>2, <2>3 DEF Writes
  <2> QED BY <1>4, <2>4 DEF AnswerNumber, Dismissed
<1> QED BY <1>3, <1>4

LEMMA ButtonWrites ==
  ASSUME NEW op \in {"done", "cancel"}, NEW t \in Task, Button(op, t)
  PROVE  Turn /\ Elsewhere /\ Writes /\ UNCHANGED asked
<1>1. Turn /\ Elsewhere /\ Write(op, FALSE, {t}, Undated) /\ UNCHANGED asked
  BY DEF Button
<1>2. op \in Ops /\ Undated \in DueDays /\ {t} \in SUBSET Task
  BY DEF Ops, DueDays
<1>3. Cardinality({t}) <= 1
  <2>1. Cardinality({t}) = 1
    BY FS_Singleton
  <2> QED BY <2>1
<1> QED BY <1>1, <1>2, <1>3 DEF Writes, MayWrite

\* A message or a button that is handled without a view.
Handled ==
  /\ Turn /\ Beside
  /\ \/ Refuse
     \/ Asks
     \/ Writes /\ (Dismissed \/ UNCHANGED asked)

Captures == \E t \in Task, day \in DueDays : Capture(t, day)

Shows ==
  Turn /\ \E view \in Views : \E ids \in Listed(view) :
    \E kept \in Remembers(view, ids), arrives \in BOOLEAN : Show(view, ids, kept, arrives)

ShowsScreen == Turn /\ \E page \in Screens : Screen(page)

LEMMA TaskSteps ==
  ASSUME TaskTypeOK, TaskNext
  PROVE  Tick \/ Captures \/ Shows \/ ShowsScreen \/ Handled
<1>0. Elsewhere => Beside
  BY DEF Elsewhere, Beside
<1>1. ASSUME Turn, NEW sel \in {Resolve(r) : r \in References}, Text(sel) PROVE Handled
  BY <1>1, TextIs DEF Handled
<1>2. ASSUME NEW n \in 0 .. Cardinality(Task), DeleteAll(n) PROVE Handled
  <2>1. n \in Nat
    BY FS_CardinalityType, SizeAssumption
  <2> QED BY <1>0, <1>2, <2>1, AllWrites DEF Handled
<1>3. CASE AnswerYes \/ \E n \in 1 .. Page : AnswerNumber(n)
  BY <1>0, <1>3, AnswerWrites DEF Handled
<1>4. CASE AnswerNo
  BY <1>0, <1>4 DEF AnswerNo, Handled
<1>5. ASSUME NEW op \in {"done", "cancel"}, NEW t \in Task, Button(op, t) PROVE Handled
  BY <1>0, <1>5, ButtonWrites DEF Handled
<1>6. CASE \E t \in Task, day \in Days \cup {Undated} : Capture(t, day)
  BY <1>6 DEF Captures, DueDays
<1>7. CASE \/ Turn /\ \E view \in Views : \E ids \in Listed(view) :
                \E kept \in Remembers(view, ids), arrives \in BOOLEAN :
                  Show(view, ids, kept, arrives)
           \/ Turn /\ \E page \in Screens : Screen(page)
  BY <1>7 DEF Shows, ShowsScreen
<1> QED BY <1>1, <1>2, <1>3, <1>4, <1>5, <1>6, <1>7 DEF TaskNext

-----------------------------------------------------------------------------
(* Types.                                                                  *)

Statuses == {"absent", "open", "waiting", "done", "cancelled"}

LEMMA WriteTyped ==
  ASSUME TaskTypeOK, Writes
  PROVE  /\ status' \in [Task -> Statuses] /\ due' \in [Task -> DueDays]
         /\ intact' \in BOOLEAN /\ did'.op \in Ops \cup {"none", "all"}
<1>1. PICK op \in Ops \cup {"none", "all"}, answer \in BOOLEAN, S \in SUBSET Task,
           day \in DueDays : Write(op, answer, S, day)
  BY DEF Writes
<1>2. status \in [Task -> Statuses] /\ due \in [Task -> DueDays] /\ Closed(op) \in Statuses
  BY DEF TaskTypeOK, Statuses, DueDays, Closed
<1>3. status' = [t \in Task |-> IF t \in S /\ op \in Closing THEN Closed(op) ELSE status[t]]
  BY <1>1 DEF Write
<1>4. due' = [t \in Task |-> IF t \in S /\ op = "due" THEN day ELSE due[t]]
  BY <1>1 DEF Write
<1>5. intact' \in BOOLEAN
  BY <1>1 DEF Write
<1>6. did'.op = op
  BY <1>1 DEF Write, Did
<1>7. status' \in [Task -> Statuses]
  BY <1>2, <1>3
<1>8. due' \in [Task -> DueDays]
  BY <1>2, <1>4
<1> QED BY <1>5, <1>6, <1>7, <1>8

LEMMA NoQuestionTyped ==
  NoQuestion \in [op : Ops \cup {"none"}, every : BOOLEAN, ids : Lists, day : DueDays]
<1>1. <<>> \in Lists
  BY ListsAre DEF IsInjective
<1> QED BY <1>1 DEF NoQuestion, DueDays

LEMMA HandledTyped ==
  ASSUME TaskTypeOK, Handled PROVE TaskTypeOK'
<1> DEFINE Question == [op : Ops \cup {"none"}, every : BOOLEAN, ids : Lists, day : DueDays]
<1>1. /\ turns' \in 0 .. MaxTurns /\ UNCHANGED <<now, list, lost>>
      /\ shown' \in Lists /\ seen' \in Views \cup {"none", "screen"}
  BY SizeAssumption DEF Handled, Turn, Beside, TaskTypeOK
<1>2. Nothing.op \in Ops \cup {"none", "all"} /\ NoQuestion \in Question
  BY NoQuestionTyped DEF Nothing, Did
<1>3. CASE Refuse
  <2>1. asked' \in Question /\ did'.op \in Ops \cup {"none", "all"} /\ UNCHANGED <<status, due, intact>>
    BY <1>2, <1>3 DEF Refuse, Dismissed
  <2> QED BY <1>1, <2>1 DEF TaskTypeOK, DueDays
<1>4. CASE Asks
  <2>1. PICK op \in Ops, every \in BOOLEAN, ids \in Lists, day \in DueDays : Ask(op, every, ids, day)
    BY <1>4 DEF Asks
  <2>2. asked' = [op |-> op, every |-> every, ids |-> ids, day |-> day]
    BY <2>1 DEF Ask
  <2>3. asked' \in Question
    BY <2>2
  <2>4. did'.op \in Ops \cup {"none", "all"} /\ UNCHANGED <<status, due, intact>>
    BY <1>2, <2>1 DEF Ask
  <2> QED BY <1>1, <2>3, <2>4 DEF TaskTypeOK, DueDays
<1>5. CASE Writes /\ (Dismissed \/ UNCHANGED asked)
  <2>1. asked' \in Question
    BY <1>2, <1>5 DEF Dismissed, TaskTypeOK, DueDays
  <2>2. /\ status' \in [Task -> Statuses] /\ due' \in [Task -> DueDays]
        /\ intact' \in BOOLEAN /\ did'.op \in Ops \cup {"none", "all"}
    BY <1>5, WriteTyped
  <2> QED BY <1>1, <2>1, <2>2 DEF TaskTypeOK, DueDays, Statuses
<1> QED BY <1>3, <1>4, <1>5 DEF Handled

LEMMA CaptureTyped ==
  ASSUME TaskTypeOK, Captures PROVE TaskTypeOK'
<1>1. PICK t \in Task, day \in DueDays : Capture(t, day)
  BY DEF Captures
<1>2. turns' \in 0 .. MaxTurns /\ UNCHANGED <<now, list, shown, seen, intact, lost>>
  BY <1>1, SizeAssumption DEF Capture, Turn, TaskTypeOK
<1>3. /\ status' \in [Task -> {"absent", "open", "waiting", "done", "cancelled"}]
      /\ due' \in [Task -> Days \cup {Undated}]
  BY <1>1 DEF Capture, TaskTypeOK, DueDays
<1>4. did'.op \in Ops \cup {"none", "all"} /\ asked' = NoQuestion
  BY <1>1 DEF Capture, Dismissed, Nothing, Did
<1> QED BY <1>2, <1>3, <1>4, NoQuestionTyped DEF TaskTypeOK, DueDays

LEMMA ShowTyped ==
  ASSUME TaskTypeOK, Shows PROVE TaskTypeOK'
<1>1. PICK view \in Views : \E ids \in Listed(view) :
        \E kept \in Remembers(view, ids), arrives \in BOOLEAN : Show(view, ids, kept, arrives)
  BY DEF Shows
<1>2. PICK ids \in Listed(view) :
        \E kept \in Remembers(view, ids), arrives \in BOOLEAN : Show(view, ids, kept, arrives)
  BY <1>1
<1>3. PICK kept \in Remembers(view, ids), arrives \in BOOLEAN : Show(view, ids, kept, arrives)
  BY <1>2
<1>4. kept \in Lists /\ Numbered(view, ids) \in Lists
  BY ListedAre DEF TaskTypeOK
<1>5. turns' \in 0 .. MaxTurns /\ UNCHANGED <<now, status, due>>
  BY <1>3, SizeAssumption DEF Shows, Show, Turn, TaskTypeOK
<1>6. lost' \in 0 .. MaxLost
  BY <1>3, SizeAssumption DEF Show, TaskTypeOK
<1>7. list' \in [ids : Lists, view : Views \cup {"none"}, at : 0 .. now]
  BY <1>3, <1>4, SizeAssumption DEF Show, Stored, TaskTypeOK
<1>8. shown' \in Lists /\ seen' \in Views \cup {"none", "screen"} /\ intact' \in BOOLEAN
  BY <1>3, <1>4 DEF Show, Reads, TaskTypeOK
<1>9. did'.op \in Ops \cup {"none", "all"} /\ asked' = NoQuestion
  BY <1>3 DEF Show, Dismissed, Nothing, Did
<1> QED BY <1>5, <1>6, <1>7, <1>8, <1>9, NoQuestionTyped DEF TaskTypeOK, DueDays

LEMMA ScreenTyped ==
  ASSUME TaskTypeOK, ShowsScreen PROVE TaskTypeOK'
<1>1. PICK page \in Screens : Screen(page)
  BY DEF ShowsScreen
<1>2. page \in Lists
  BY ScreensAre DEF TaskTypeOK
<1>3. turns' \in 0 .. MaxTurns /\ UNCHANGED <<now, status, due, list, lost>>
  BY <1>1, SizeAssumption DEF ShowsScreen, Screen, Turn, TaskTypeOK
<1>4. shown' \in Lists /\ seen' = "screen" /\ intact' \in BOOLEAN
  BY <1>1, <1>2 DEF Screen, Reads
<1>5. did'.op \in Ops \cup {"none", "all"} /\ asked' \in {NoQuestion, asked}
  BY <1>1 DEF Screen, Dismissed, Nothing, Did
<1> QED BY <1>3, <1>4, <1>5, NoQuestionTyped DEF TaskTypeOK, DueDays

LEMMA TickTyped ==
  ASSUME TaskTypeOK, Tick PROVE TaskTypeOK'
<1>1. now' \in 0 .. End /\ 0 .. now \subseteq 0 .. now'
  BY SizeAssumption DEF Tick, TaskTypeOK
<1>2. list' \in [ids : Lists, view : Views \cup {"none"}, at : 0 .. now']
  <2>1. list' = list /\ list \in [ids : Lists, view : Views \cup {"none"}, at : 0 .. now]
    BY DEF Tick, TaskTypeOK
  <2> QED BY <1>1, <2>1
<1> QED BY <1>1, <1>2 DEF Tick, TaskTypeOK

LEMMA TaskInitTyped == TaskInit => TaskTypeOK
<1> SUFFICES ASSUME TaskInit PROVE TaskTypeOK
  OBVIOUS
<1>1. PICK rows \in Rows : /\ status = [t \in Task |-> rows[t].status]
                           /\ due = [t \in Task |-> rows[t].day]
  BY DEF TaskInit
<1>2. rows \in [Task -> [status : {"absent", "open", "waiting"}, day : Days \cup {Undated}]]
  BY SizeAssumption
<1>3. /\ status \in [Task -> {"absent", "open", "waiting", "done", "cancelled"}]
      /\ due \in [Task -> Days \cup {Undated}]
  BY <1>1, <1>2
<1>4. <<>> \in Lists
  BY ListsAre DEF IsInjective
<1>5. now \in 0 .. End /\ turns \in 0 .. MaxTurns /\ lost \in 0 .. MaxLost /\ 0 \in 0 .. now
  BY SizeAssumption DEF TaskInit
<1>6. list \in [ids : Lists, view : Views \cup {"none"}, at : 0 .. now]
  BY <1>4, <1>5 DEF TaskInit, NoList
<1>7. shown \in Lists /\ intact \in BOOLEAN /\ did.op \in Ops \cup {"none", "all"}
  BY <1>4 DEF TaskInit, Nothing, Did
<1> QED BY <1>3, <1>5, <1>6, <1>7, NoQuestionTyped DEF TaskInit, TaskTypeOK, DueDays

\* Every step about tasks keeps their types.
LEMMA TaskStepTyped ==
  ASSUME TaskTypeOK, TaskNext PROVE TaskTypeOK'
BY TaskSteps, HandledTyped, CaptureTyped, ShowTyped, ScreenTyped, TickTyped

-----------------------------------------------------------------------------
(* Entities.                                                               *)

\* ReferenceResolver.resolve finds an entity or nothing.
LEMMA ResolvedTyped ==
  ASSUME focus.of \in Entity \cup {Nobody}, NEW pronoun, NEW names \in SUBSET Entity
  PROVE  /\ Resolved(pronoun, names) \in Entity \cup {Nobody}
         /\ FoundByName(pronoun, names) => Resolved(pronoun, names) \in Entity
         /\ ~FoundByName(pronoun, names) => Resolved(pronoun, names) \in {focus.of, Nobody}
<1> DEFINE b == ByName(pronoun, names)
<1>1. b \in Entity \cup {Nobody}
  <2> DEFINE order == IF pronoun = "organization"
                      THEN <<"organization", "project", "person", "task">>
                      ELSE <<"project", "person", "organization", "task">>
             found == {i \in DOMAIN order : Only(order[i], names) # {}}
  <2>1. b = IF found = {} THEN Nobody
            ELSE CHOOSE e \in Only(order[Min(found)], names) : TRUE
    BY DEF ByName
  <2>2. found \subseteq 1 .. 4
    OBVIOUS
  <2>3. \A i \in found : Only(order[i], names) # {}
    OBVIOUS
  <2> HIDE DEF order, found
  <2>4. ASSUME found # {} PROVE Min(found) \in found
    <3>1. \E x \in found : \A y \in found : x <= y
      <4>1. \A i \in found : i \in {1, 2, 3, 4}
        BY <2>2
      <4>2. CASE 1 \in found
        BY <4>1, <4>2
      <4>3. CASE 1 \notin found /\ 2 \in found
        BY <4>1, <4>3
      <4>4. CASE 1 \notin found /\ 2 \notin found /\ 3 \in found
        BY <4>1, <4>4
      <4>5. CASE found \subseteq {4}
        <5>1. 4 \in found /\ \A y \in found : y = 4
          BY <2>4, <4>5
        <5> QED BY <5>1
      <4> QED BY <4>1, <4>2, <4>3, <4>4, <4>5
    <3> QED BY <3>1 DEF Min
  <2>5. \A type : Only(type, names) \subseteq Entity
    BY DEF Only
  <2> QED BY <2>1, <2>3, <2>4, <2>5
<1> HIDE DEF b
<1>2. Resolved(pronoun, names) = IF Typed(pronoun) THEN focus.of
                                 ELSE IF b # Nobody THEN b
                                 ELSE IF Contextual(pronoun) /\ \E e \in Entity : Focused(e) THEN focus.of
                                 ELSE Nobody
  BY DEF Resolved, b
<1>3. FoundByName(pronoun, names) <=> ~Typed(pronoun) /\ b # Nobody
  BY DEF FoundByName, b
<1> QED BY <1>1, <1>2, <1>3

LEMMA RememberedTyped ==
  ASSUME TypeOK, NEW e \in Entity \cup {Nobody}
  PROVE  /\ Remembered(e) \in [of : Entity \cup {Nobody}, expires : 0 .. End + TTL]
         /\ Remembered(e).of = IF e # Nobody THEN e ELSE focus.of
<1>1. focus.of \in Entity \cup {Nobody} /\ now \in 0 .. End
  BY DEF TypeOK, TaskTypeOK
<1>2. now + TTL \in 0 .. End + TTL /\ 0 \in 0 .. End + TTL
  BY <1>1, SizeAssumption
<1> QED BY <1>1, <1>2 DEF Remembered

-----------------------------------------------------------------------------
(* The steps of a conversation.                                            *)

\* A message that is not about tasks leaves them alone.
LEMMA TalkTyped ==
  ASSUME TaskTypeOK, Talk
  PROVE  TaskTypeOK' /\ did' = Nothing /\ UNCHANGED <<now, status, due, list, shown, seen, intact>>
<1>1. turns' \in 0 .. MaxTurns
  BY SizeAssumption DEF Talk, Turn, TaskTypeOK
<1>2. did' = Nothing /\ Nothing.op \in Ops \cup {"none", "all"} /\ asked' = NoQuestion
  BY DEF Talk, Nothing, Did, Dismissed
<1> QED BY <1>1, <1>2, NoQuestionTyped DEF Talk, TaskTypeOK, DueDays

\* The focus and what was named last.
FocusTypeOK ==
  /\ focus \in [of : Entity \cup {Nobody}, expires : 0 .. End + TTL]
  /\ named \in Entity \cup {Nobody}
  /\ wrote \in [typed : Pronouns, to : Entity \cup {Nobody}]

\* A message that remembers what it was about, found by its name or not.
LEMMA RememberFocus ==
  ASSUME TypeOK, FocusIsLastNamed, NEW pronoun, NEW names \in SUBSET Entity,
         focus' = Remembered(Resolved(pronoun, names)),
         named' = IF FoundByName(pronoun, names) THEN Resolved(pronoun, names) ELSE named
  PROVE  /\ focus' \in [of : Entity \cup {Nobody}, expires : 0 .. End + TTL]
         /\ named' \in Entity \cup {Nobody} /\ FocusIsLastNamed'
<1> DEFINE e == Resolved(pronoun, names)
<1>1. focus.of \in Entity \cup {Nobody} /\ named \in Entity \cup {Nobody}
  BY DEF TypeOK
<1>2. /\ e \in Entity \cup {Nobody}
      /\ FoundByName(pronoun, names) => e \in Entity
      /\ ~FoundByName(pronoun, names) => e \in {focus.of, Nobody}
  BY <1>1, ResolvedTyped
<1>3. e \in Entity => e # Nobody
  BY EntityAssumption
<1> HIDE DEF e
<1>4. /\ focus' \in [of : Entity \cup {Nobody}, expires : 0 .. End + TTL]
      /\ focus'.of = IF e # Nobody THEN e ELSE focus.of
  BY <1>2, RememberedTyped DEF e
<1>5. named' = IF FoundByName(pronoun, names) THEN e ELSE named
  BY DEF e
<1>6. named' \in Entity \cup {Nobody}
  BY <1>1, <1>2, <1>5
<1>7. named' # Nobody => focus'.of = named'
  BY <1>2, <1>3, <1>4, <1>5 DEF FocusIsLastNamed
<1> QED BY <1>4, <1>6, <1>7 DEF FocusIsLastNamed

LEMMA QueryStep ==
  ASSUME TypeOK, FocusIsLastNamed, Talk, NEW pronoun \in Pronouns, NEW names \in SUBSET Entity,
         NEW answered \in BOOLEAN, Query(pronoun, names, answered)
  PROVE  TypeOK' /\ FocusIsLastNamed'
<1>1. TaskTypeOK'
  BY TalkTyped DEF TypeOK
<1>2. CASE answered
  <2>1. /\ focus' = Remembered(Resolved(pronoun, names))
        /\ named' = IF FoundByName(pronoun, names) THEN Resolved(pronoun, names) ELSE named
        /\ wrote' = wrote
    BY <1>2 DEF Query, Record
  <2> QED BY <1>1, <2>1, RememberFocus DEF TypeOK
<1>3. CASE ~answered
  <2>1. UNCHANGED <<focus, named, wrote>>
    BY <1>3 DEF Query, Record
  <2> QED BY <1>1, <2>1 DEF TypeOK, FocusIsLastNamed
<1> QED BY <1>2, <1>3

LEMMA UpdateStep ==
  ASSUME TypeOK, FocusIsLastNamed, Talk, NEW pronoun \in Pronouns, NEW names \in SUBSET Entity,
         NEW told \in BOOLEAN, NEW ends \in BOOLEAN, Update(pronoun, names, told, ends)
  PROVE  TypeOK' /\ FocusIsLastNamed'
<1> DEFINE e == Resolved(pronoun, names)
<1>1. TaskTypeOK'
  BY TalkTyped DEF TypeOK
<1>2. focus.of \in Entity \cup {Nobody}
  BY DEF TypeOK
<1>3. e \in Entity \cup {Nobody}
  BY <1>2, ResolvedTyped
<1>4. CASE UNCHANGED <<focus, named, wrote>>
  BY <1>1, <1>4 DEF TypeOK, FocusIsLastNamed
<1>5. CASE wrote' = [typed |-> pronoun, to |-> e]
  <2>1. wrote' \in [typed : Pronouns, to : Entity \cup {Nobody}]
    BY <1>3, <1>5
  <2>2. CASE UNCHANGED <<focus, named>>
    BY <1>1, <2>1, <2>2 DEF TypeOK, FocusIsLastNamed
  <2>3. CASE /\ focus' = Remembered(e)
             /\ named' = IF FoundByName(pronoun, names) THEN e ELSE named
    BY <1>1, <2>1, <2>3, RememberFocus DEF TypeOK
  <2> QED BY <1>5, <2>2, <2>3 DEF Update, Record
<1> QED BY <1>4, <1>5 DEF Update, Record

-----------------------------------------------------------------------------
(* Numbers.                                                                *)

\* The numbers that are remembered of what the owner read last.
Promised == IF seen \in Whole THEN shown
            ELSE IF seen = "query_tasks" THEN First(shown, Page) ELSE <<>>

\* As long as none of it was closed, they start the list that is stored, and
\* all of them are active; of a text that asks for the tasks they are all of it.
ShownStarts ==
  intact => /\ IsStart(Promised, list.ids) /\ ToSet(Promised) \subseteq Active
            /\ seen = "query_tasks" => list.ids = Promised

LEMMA PromisedIs ==
  ASSUME shown \in Lists
  PROVE  Promised \in Lists /\ ToSet(Promised) \subseteq ToSet(shown)
<1>1. <<>> \in Lists /\ ToSet(<<>>) = {}
  BY ListsAre DEF IsInjective, ToSet
<1>2. First(shown, Page) \in Lists /\ ToSet(First(shown, Page)) \subseteq ToSet(shown)
  BY FirstIs, SizeAssumption
<1> QED BY <1>1, <1>2 DEF Promised

\* A page that is not remembered.
LEMMA NothingPromised ==
  ASSUME seen' \in {"screen", "tomorrow"}, list'.ids \in Lists PROVE ShownStarts'
<1>1. Promised' = <<>> /\ seen' # "query_tasks"
  BY DEF Promised, Whole
<1>2. list'.ids \in Seq(Task) /\ ToSet(<<>>) = {}
  BY ListsAre DEF ToSet
<1>3. IsStart(<<>>, list'.ids)
  BY <1>2 DEF IsStart
<1>4. IsStart(Promised, list.ids)' /\ ToSet(Promised)' = {}
  BY <1>1, <1>2, <1>3 DEF IsStart
<1> QED BY <1>1, <1>4 DEF ShownStarts

LEMMA HandledNumbers ==
  ASSUME TaskTypeOK, ShownStarts, Handled PROVE ShownStarts'
<1>0. UNCHANGED list /\ list'.ids \in Lists
      /\ (UNCHANGED <<shown, seen>> \/ seen' = "screen")
  BY DEF Handled, Beside, TaskTypeOK
<1>1. CASE seen' = "screen"
  BY <1>0, <1>1, NothingPromised
<1>2. CASE UNCHANGED <<shown, seen, status, intact>>
  BY <1>0, <1>2 DEF ShownStarts, Promised, IsStart, Active
<1>3. CASE Writes /\ UNCHANGED <<shown, seen>>
  <2>1. PICK op \in Ops \cup {"none", "all"}, answer \in BOOLEAN, S \in SUBSET Task,
             day \in DueDays : Write(op, answer, S, day)
    BY <1>3 DEF Writes
  <2>2. status' = [t \in Task |-> IF t \in S /\ op \in Closing THEN Closed(op) ELSE status[t]]
    BY <2>1 DEF Write
  <2>3. ASSUME intact'
        PROVE  /\ IsStart(Promised, list.ids) /\ ToSet(Promised) \subseteq Active'
               /\ seen = "query_tasks" => list.ids = Promised
    <3>1. intact /\ (op \in Closing => S \cap ToSet(shown) = {})
      BY <2>1, <2>3 DEF Write
    <3>2. ToSet(Promised) \subseteq ToSet(shown)
      BY PromisedIs DEF TaskTypeOK
    <3>3. \A t \in ToSet(Promised) : t \in Task /\ status'[t] = status[t]
      BY <2>2, <3>1, <3>2 DEF ShownStarts, Active
    <3> QED BY <3>1, <3>3 DEF ShownStarts, Active
  <2>4. Promised' = Promised /\ list' = list /\ seen' = seen
    BY <1>0, <1>3 DEF Promised
  <2> QED BY <2>3, <2>4 DEF ShownStarts, IsStart
<1> QED BY <1>0, <1>1, <1>2, <1>3 DEF Handled, Refuse, Asks, Ask

LEMMA CaptureNumbers ==
  ASSUME TaskTypeOK, ShownStarts, Captures PROVE ShownStarts'
<1>1. PICK t \in Task, day \in DueDays : Capture(t, day)
  BY DEF Captures
<1>2. UNCHANGED <<list, shown, seen, intact>> /\ Promised' = Promised
  BY <1>1 DEF Capture, Promised
<1>3. Active \subseteq Active'
  BY <1>1 DEF Capture, Active, TaskTypeOK
<1> QED BY <1>2, <1>3 DEF ShownStarts, IsStart

LEMMA ShowNumbers ==
  ASSUME TaskTypeOK, ShownStarts, Shows PROVE ShownStarts'
<1>1. PICK view \in Views : \E ids \in Listed(view) :
        \E kept \in Remembers(view, ids), arrives \in BOOLEAN : Show(view, ids, kept, arrives)
  BY DEF Shows
<1>2. PICK ids \in Listed(view) :
        \E kept \in Remembers(view, ids), arrives \in BOOLEAN : Show(view, ids, kept, arrives)
  BY <1>1
<1>3. PICK kept \in Remembers(view, ids), arrives \in BOOLEAN : Show(view, ids, kept, arrives)
  BY <1>2
<1> DEFINE page == Numbered(view, ids)
<1>4. /\ ids \in Lists /\ ToSet(ids) \subseteq Active /\ kept \in Lists
      /\ page \in Lists /\ (view \in Whole => IsStart(page, ids))
      /\ view = "query_tasks" => ids = First(page, Page)
      /\ ids # <<>> => kept = ids
  BY ListedAre DEF TaskTypeOK
<1>5. /\ list' = Stored(view, kept) /\ Active' = Active
      /\ \/ page # <<>> /\ Reads(page, view)
         \/ intact' = (intact /\ kept = <<>>) /\ UNCHANGED <<shown, seen>>
  BY <1>3 DEF Show, Active
<1> HIDE DEF page
<1>6. CASE intact' = (intact /\ kept = <<>>) /\ UNCHANGED <<shown, seen>>
  <2>1. ASSUME intact' PROVE intact /\ list' = list
    BY <1>5, <1>6, <2>1 DEF Stored
  <2>2. Promised' = Promised /\ seen' = seen
    BY <1>6 DEF Promised
  <2> QED BY <1>5, <2>1, <2>2 DEF ShownStarts, IsStart
<1>7. CASE page # <<>> /\ Reads(page, view) /\ view \in Whole \cup {"query_tasks"}
  <2>1. Promised' \in Lists /\ IsStart(Promised', ids) /\ (view = "query_tasks" => ids = Promised')
    <3>1. shown' = page /\ seen' = view
      BY <1>7 DEF Reads
    <3>2. CASE view \in Whole
      BY <1>4, <3>1, <3>2 DEF Promised, Whole
    <3>3. CASE view = "query_tasks"
      <4>1. Promised' = ids
        BY <1>4, <3>1, <3>3 DEF Promised, Whole
      <4> QED BY <1>4, <3>3, <4>1, ListsAre DEF IsStart
    <3> QED BY <1>7, <3>2, <3>3
  <2>2. ids # <<>>
    <3>1. page \in Seq(Task) /\ Len(page) \in Nat \ {0}
      BY <1>4, <1>7, ListsAre
    <3>2. CASE view \in Whole
      BY <1>4, <3>1, <3>2 DEF IsStart
    <3>3. CASE view = "query_tasks"
      <4>1. ids = SubSeq(page, 1, IF Len(page) < Page THEN Len(page) ELSE Page)
        BY <1>4, <3>3 DEF First
      <4>2. Len(ids) = IF Len(page) < Page THEN Len(page) ELSE Page
        BY <3>1, <4>1, SizeAssumption
      <4> QED BY <3>1, <4>2, SizeAssumption
    <3> QED BY <1>7, <3>2, <3>3
  <2>3. list'.ids = ids
    BY <1>4, <1>5, <2>2 DEF Stored
  <2>4. ToSet(Promised') \subseteq ToSet(ids)
    <3>1. /\ Promised' \in Seq(Task) /\ ids \in Seq(Task)
      BY <1>4, <2>1, ListsAre
    <3>2. \A i \in DOMAIN Promised' : i \in DOMAIN ids /\ Promised'[i] = ids[i]
      BY <2>1, <3>1 DEF IsStart
    <3> QED BY <3>2 DEF ToSet
  <2>5. seen' = view
    BY <1>7 DEF Reads
  <2> QED BY <1>4, <1>5, <2>1, <2>3, <2>4, <2>5 DEF ShownStarts, IsStart
<1>8. CASE Reads(page, view) /\ view = "tomorrow"
  <2>1. seen' = "tomorrow"
    BY <1>8 DEF Reads
  <2>2. list'.ids \in Lists
    BY <1>4, <1>5 DEF Stored, TaskTypeOK
  <2> QED BY <2>1, <2>2, NothingPromised
<1>9. view \in Whole \cup {"query_tasks", "tomorrow"}
  BY SizeAssumption DEF Whole
<1> QED BY <1>5, <1>6, <1>7, <1>8, <1>9

LEMMA ScreenNumbers ==
  ASSUME TaskTypeOK, ShowsScreen PROVE ShownStarts'
<1>1. PICK page \in Screens : Screen(page)
  BY DEF ShowsScreen
<1>2. seen' = "screen" /\ list' = list /\ list.ids \in Lists
  BY <1>1 DEF Screen, Reads, TaskTypeOK
<1> QED BY <1>2, NothingPromised

LEMMA TaskStepNumbers ==
  ASSUME TaskTypeOK, ShownStarts, TaskNext PROVE ShownStarts'
<1>1. CASE Tick
  BY <1>1 DEF Tick, ShownStarts, Promised, IsStart, Active
<1> QED BY <1>1, TaskSteps, HandledNumbers, CaptureNumbers, ShowNumbers, ScreenNumbers

\* A number is resolved to the task that is there in the list, ...
LEMMA NumberResolves ==
  ASSUME TaskTypeOK, ShownStarts, intact, InForce, NEW n \in DOMAIN Promised
  PROVE  Means(n) = <<Promised[n]>>
<1> DEFINE r == Ref("number", n, {}, TRUE)
<1>1. Promised \in Seq(Task) /\ list.ids \in Seq(Task) /\ list.ids \in Lists
  BY ListsAre, PromisedIs DEF TaskTypeOK
<1>2. /\ n \in 1 .. Len(Promised) /\ n \in 1 .. Len(list.ids) /\ list.ids[n] = Promised[n]
      /\ \A i \in 1 .. n : list.ids[i] = Promised[i] /\ i \in DOMAIN Promised
  BY <1>1 DEF ShownStarts, IsStart
<1>3. \A i \in 1 .. n : list.ids[i] \in Active
  BY <1>2 DEF ShownStarts, ToSet
<1>4. n <= Len(ContextTasks) /\ ContextTasks[n] = Promised[n]
  BY <1>1, <1>2, <1>3, ContextIs
<1>5. r.by = "number" /\ r.n = n
  BY DEF Ref
<1>6. Resolve(r) = Selection(<<ContextTasks[r.n]>>, FALSE, ~r.sure)
  <2> HIDE DEF r
  <2> QED BY <1>4, <1>5 DEF Resolve
<1>7. Resolve(r).tasks = <<ContextTasks[r.n]>>
  <2> HIDE DEF r
  <2> QED BY <1>6 DEF Selection
<1> QED BY <1>4, <1>5, <1>7 DEF Means

\* ... and a number past the list to none by the list.
LEMMA NoNumberResolves ==
  ASSUME TaskTypeOK, NEW n \in Nat, n > Len(list.ids)
  PROVE  Means(n) = <<>>
<1> DEFINE r == Ref("number", n, {}, TRUE)
<1>1. list.ids \in Lists /\ Len(list.ids) \in Nat
  BY ListsAre DEF TaskTypeOK
<1>2. ContextTasks \in Lists /\ Len(ContextTasks) <= Len(list.ids) /\ Len(ContextTasks) \in Nat
  BY <1>1, ContextIs, ListsAre
<1>3. r.by = "number" /\ r.n = n /\ r.title = {} /\ ~(n <= Len(ContextTasks))
  BY <1>1, <1>2 DEF Ref
<1>4. Resolve(r) = ByTitle(r)
  <2> HIDE DEF r
  <2> QED BY <1>3 DEF Resolve
<1>5. Ordered({}) \in Lists /\ Len(Ordered({})) = 0
  BY OrderedOnce, FS_EmptySet DEF TaskTypeOK
<1>6. Ordered({}) = <<>>
  BY <1>5, ListsAre
<1>7. ByTitle(r).tasks = Ordered(r.title)
  <2> HIDE DEF r
  <2> QED BY DEF ByTitle, Selection
<1> QED BY <1>3, <1>4, <1>6, <1>7 DEF Means

LEMMA NumbersResolve ==
  ASSUME TaskTypeOK, ShownStarts PROVE NumberMeansShown
<1> SUFFICES ASSUME intact, InForce
             PROVE  /\ seen \in Whole => \A n \in DOMAIN shown : Means(n) = <<shown[n]>>
                    /\ seen = "query_tasks" =>
                         \A n \in DOMAIN shown :
                           Means(n) = IF n <= Page THEN <<shown[n]>> ELSE <<>>
  BY DEF NumberMeansShown, Whole
<1>1. ASSUME seen \in Whole, NEW n \in DOMAIN shown PROVE Means(n) = <<shown[n]>>
  <2>1. Promised = shown
    BY <1>1 DEF Promised
  <2> QED BY <1>1, <2>1, NumberResolves
<1>2. ASSUME seen = "query_tasks", NEW n \in DOMAIN shown
      PROVE  Means(n) = IF n <= Page THEN <<shown[n]>> ELSE <<>>
  <2>1. Promised = First(shown, Page) /\ list.ids = Promised
    BY <1>2 DEF Promised, Whole, ShownStarts
  <2>2. shown \in Seq(Task) /\ n \in 1 .. Len(shown) /\ Page \in Nat \ {0}
    BY <1>2, ListsAre, SizeAssumption DEF TaskTypeOK
  <2>3. First(shown, Page) = SubSeq(shown, 1, IF Len(shown) < Page THEN Len(shown) ELSE Page)
    BY DEF First
  <2>4. /\ First(shown, Page) \in Seq(Task)
        /\ Len(First(shown, Page)) = IF Len(shown) < Page THEN Len(shown) ELSE Page
    BY <2>2, <2>3
  <2>5. CASE n <= Page
    <3>1. n \in DOMAIN Promised /\ Promised[n] = shown[n]
      BY <2>1, <2>2, <2>3, <2>4, <2>5
    <3> QED BY <2>5, <3>1, NumberResolves
  <2>6. CASE ~(n <= Page)
    <3>1. n \in Nat /\ n > Len(list.ids)
      BY <2>1, <2>2, <2>4, <2>6
    <3> QED BY <2>6, <3>1, NoNumberResolves
  <2> QED BY <2>5, <2>6
<1> QED BY <1>1, <1>2

-----------------------------------------------------------------------------
(* Questions.                                                              *)

LEMMA TaskStepAsks ==
  ASSUME TaskTypeOK, TaskNext, turns' # turns, Cardinality(did'.to) > 1
  PROVE  \/ did'.op = "all"
         \/ did'.answer /\ did'.to \subseteq ToSet(asked.ids)
         \/ /\ did'.op = "done" /\ Cardinality(did'.to) <= Threshold
            /\ did'.to \subseteq ToSet(list.ids) /\ list.at + TTL >= now
<1>1. did' # Nothing
  <2>1. Nothing.to = {} /\ Cardinality({}) = 0
    BY FS_EmptySet DEF Nothing, Did
  <2> QED BY <2>1
<1>2. Writes
  BY <1>1, TaskSteps DEF Tick, Captures, Capture, Shows, Show, ShowsScreen, Screen, Handled,
                        Refuse, Asks, Ask
<1>3. PICK op \in Ops \cup {"none", "all"}, answer \in BOOLEAN, S \in SUBSET Task,
           day \in DueDays : Write(op, answer, S, day) /\ MayWrite(op, answer, S)
  BY <1>2 DEF Writes
<1>4. did'.op = op /\ did'.answer = answer /\ did'.to = S
  BY <1>3 DEF Write, Did
<1>5. IsFiniteSet(S) /\ Cardinality(S) \in Nat
  BY FS_Subset, FS_CardinalityType, SizeAssumption
<1> QED BY <1>3, <1>4, <1>5 DEF MayWrite, InForce

-----------------------------------------------------------------------------
(* The conversation.                                                       *)

ConversationInv == TypeOK /\ FocusIsLastNamed /\ ShownStarts

LEMMA ConversationInit == Init => ConversationInv
<1> SUFFICES ASSUME Init PROVE ConversationInv
  OBVIOUS
<1>1. TaskTypeOK
  BY TaskInitTyped DEF Init
<1>2. TypeOK /\ FocusIsLastNamed
  BY <1>1, SizeAssumption DEF Init, NoFocus, TypeOK, FocusIsLastNamed, Pronouns
<1>3. ShownStarts
  BY DEF Init, TaskInit, ShownStarts
<1> QED BY <1>2, <1>3 DEF ConversationInv

LEMMA ConversationStep == ConversationInv /\ [Next]_vars => ConversationInv'
<1> SUFFICES ASSUME ConversationInv, [Next]_vars PROVE ConversationInv'
  OBVIOUS
<1>1. TypeOK /\ FocusIsLastNamed /\ ShownStarts /\ TaskTypeOK
  BY DEF ConversationInv, TypeOK
<1>2. CASE AboutTasks
  <2>1. TaskTypeOK' /\ ShownStarts'
    BY <1>1, <1>2, TaskStepTyped, TaskStepNumbers DEF AboutTasks
  <2>2. UNCHANGED <<focus, named, wrote>>
    BY <1>2 DEF AboutTasks, Record
  <2> QED BY <1>1, <2>1, <2>2 DEF ConversationInv, TypeOK, FocusIsLastNamed
<1>3. ASSUME Talk, NEW pronoun \in Pronouns, NEW names \in SUBSET Entity,
             \/ \E answered \in BOOLEAN : Query(pronoun, names, answered)
             \/ \E told, ends \in BOOLEAN : Update(pronoun, names, told, ends)
      PROVE  ConversationInv'
  <2>1. ShownStarts'
    BY <1>1, <1>3, TalkTyped DEF ShownStarts, Promised, IsStart, Active
  <2>2. TypeOK' /\ FocusIsLastNamed'
    BY <1>1, <1>3, QueryStep, UpdateStep
  <2> QED BY <2>1, <2>2 DEF ConversationInv
<1>4. CASE UNCHANGED vars
  BY <1>1, <1>4 DEF vars, taskVars, ConversationInv, TypeOK, TaskTypeOK, FocusIsLastNamed,
     ShownStarts, Promised, IsStart, Active
<1> QED BY <1>2, <1>3, <1>4 DEF Next

\* Types, the focus and the list shown last, in every state of a conversation.
THEOREM ConversationInvariant == Spec => []ConversationInv
BY ConversationInit, ConversationStep, PTL DEF Spec

\* Type correctness.
THEOREM ConversationTyped == Spec => []TypeOK
<1>1. ConversationInv => TypeOK
  BY DEF ConversationInv
<1> QED BY <1>1, ConversationInvariant, PTL

\* "This project" is never one the conversation has left: what a turn found by
\* its name is the focus until another is (ReferenceResolver.remember,
\* _record_conversation_outcome).
THEOREM FocusFollowsNames == Spec => []FocusIsLastNamed
<1>1. ConversationInv => FocusIsLastNamed
  BY DEF ConversationInv
<1> QED BY <1>1, ConversationInvariant, PTL

\* "Task n" is the task the owner reads at n on a page that is remembered, and
\* past what is remembered of it none of the list (remember_task_list,
\* ordered_task_ids_for_view, SecretaryService.tasks, _context_selection).
THEOREM NumbersMeanShown == Spec => []NumberMeansShown
<1>1. ConversationInv => NumberMeansShown
  BY NumbersResolve DEF ConversationInv, TypeOK
<1> QED BY <1>1, ConversationInvariant, PTL

\* Several tasks are never written unasked, but for a few of a list in force
\* (TaskReferenceResolver.resolve, _mark_task_done and the other handlers).
THEOREM NothingUnasked == Spec => UnaskedRemembered
<1> DEFINE Allowed ==
      \/ did'.op = "all"
      \/ did'.answer /\ did'.to \subseteq ToSet(asked.ids)
      \/ /\ did'.op = "done" /\ Cardinality(did'.to) <= Threshold
         /\ did'.to \subseteq ToSet(list.ids) /\ list.at + TTL >= now
    Step == turns' # turns /\ Cardinality(did'.to) > 1 => Allowed
<1>1. ConversationInv /\ [Next]_vars => [Step]_taskVars
  <2> SUFFICES ASSUME ConversationInv, [Next]_vars, turns' # turns, Cardinality(did'.to) > 1
               PROVE  Allowed
    OBVIOUS
  <2>1. CASE TaskNext
    BY <2>1, TaskStepAsks DEF ConversationInv, TypeOK
  <2>2. CASE Talk
    <3>1. did' = Nothing
      BY <2>2 DEF Talk
    <3>2. Nothing.to = {} /\ Cardinality({}) = 0
      BY FS_EmptySet DEF Nothing, Did
    <3> QED BY <3>1, <3>2
  <2>3. CASE UNCHANGED vars
    BY <2>3 DEF vars, taskVars
  <2> QED BY <2>1, <2>2, <2>3 DEF Next, AboutTasks
<1> HIDE DEF Step
<1>2. Spec => [][Step]_taskVars
  BY <1>1, ConversationInvariant, PTL DEF Spec
<1> QED BY <1>2 DEF Step, UnaskedRemembered

-----------------------------------------------------------------------------
(* The tasks and meetings of an activity: the links of a merge, the rows an *)
(* undo puts back.                                                          *)

Entries == {log[i] : i \in DOMAIN log}
IsMerge(i) == log[i].kind = "merge"

\* Rows a link refers to exist; the repair looks at existing tasks; a part of a
\* merge exists or has been the task of an event itself, so that no new task
\* takes its id; no two merges made the same task.
LinkInv ==
  /\ links \subseteq Live \X Meeting
  /\ todo \subseteq Live /\ (phase # "repair" => todo = {})
  /\ log \in Seq(Entries) /\ undone \subseteq DOMAIN log
  /\ \A i \in DOMAIN log : IsMerge(i) =>
       /\ log[i].links \subseteq TaskId \X Meeting
       /\ \A p \in log[i].parts : p \in Live \/ \E j \in DOMAIN log : log[j].task = p
       /\ \A j \in DOMAIN log : IsMerge(j) /\ log[j].task = log[i].task => i = j

\* The ids of tasks.
TasksInv == Live \subseteq TaskId

ActivitiesInv == TasksInv /\ LinkInv /\ MergeKeepsMeetings

-----------------------------------------------------------------------------
\* The steps that only add links between existing rows, and write no event.
LEMMA GrowInv ==
  ASSUME ActivitiesInv, Live' = Live, log' = log,
         links \subseteq links', links' \subseteq Live \X Meeting,
         undone \subseteq undone', undone' \subseteq DOMAIN log,
         todo' \subseteq Live, phase' # "repair" => todo' = {}
  PROVE  ActivitiesInv'
<1>1. LinkInv'
  BY DEF ActivitiesInv, LinkInv, Entries, IsMerge
<1>2. MergeKeepsMeetings'
  BY DEF ActivitiesInv, MergeKeepsMeetings
<1> QED BY <1>1, <1>2 DEF ActivitiesInv, TasksInv

\* An event is appended.
LEMMA AppendIs ==
  ASSUME ActivitiesInv, NEW e, log' = Append(log, e)
  PROVE  /\ DOMAIN log' = DOMAIN log \cup {Len(log) + 1} /\ Len(log) + 1 \notin DOMAIN log
         /\ log'[Len(log) + 1] = e /\ \A i \in DOMAIN log : log'[i] = log[i]
         /\ log' \in Seq(Entries')
<1>1. log \in Seq(Entries) /\ Len(log) \in Nat /\ DOMAIN log = 1 .. Len(log)
  BY DEF ActivitiesInv, LinkInv
<1>2. log \in Seq(Entries \cup {e})
  <2>1. \A i \in 1 .. Len(log) : log[i] \in Entries \cup {e}
    BY <1>1
  <2> QED BY <1>1, <2>1
<1>3. /\ DOMAIN log' = 1 .. Len(log) + 1 /\ log'[Len(log) + 1] = e
      /\ \A i \in 1 .. Len(log) : log'[i] = log[i]
      /\ log' \in Seq(Entries \cup {e}) /\ Len(log') = Len(log) + 1
  BY <1>1, <1>2
<1>4. DOMAIN log' = DOMAIN log \cup {Len(log) + 1} /\ Len(log) + 1 \notin DOMAIN log
  BY <1>1, <1>3
<1>5. \A i \in 1 .. Len(log') : log'[i] \in Entries'
  BY <1>1, <1>3 DEF Entries
<1>6. log' \in Seq(Entries')
  BY <1>1, <1>3, <1>5
<1> QED BY <1>1, <1>3, <1>4, <1>6

LEMMA UndoRenameInv ==
  ASSUME ActivitiesInv, NEW i \in DOMAIN log, UndoRename(i), log' = log,
         UNCHANGED <<todo>>, phase = "up"
  PROVE  ActivitiesInv'
<1>1. Live' = Live /\ links' = links /\ undone' = undone \cup {i}
  BY DEF UndoRename, Live
<1>2. todo' = {}
  BY DEF ActivitiesInv, LinkInv
<1> QED BY <1>1, <1>2, GrowInv DEF ActivitiesInv, LinkInv

LEMMA UndoMergeInv ==
  ASSUME ActivitiesInv, NEW i \in DOMAIN log, IsMerge(i), UndoMerge(i), log' = log,
         UNCHANGED <<todo>>, phase = "up"
  PROVE  ActivitiesInv'
<1>1. /\ Live' = Live \ {log[i].task} /\ links' = {l \in links : l[1] # log[i].task}
      /\ undone' = undone \cup {i}
  BY DEF UndoMerge, Live, Without
<1>2. todo' = {}
  BY DEF ActivitiesInv, LinkInv
<1>3. links' \subseteq Live' \X Meeting
  BY <1>1 DEF ActivitiesInv, LinkInv
<1>4. LinkInv'
  BY <1>1, <1>2, <1>3 DEF ActivitiesInv, LinkInv, Entries, IsMerge
<1>5. MergeKeepsMeetings'
  <2>1. SUFFICES ASSUME NEW j \in DOMAIN log, IsMerge(j),
                        NEW l \in log[j].links, l[1] \in log[j].parts
                 PROVE  /\ j \notin undone' => <<log[j].task, l[2]>> \in links'
                        /\ l[1] \in Live' => l \in links'
    BY DEF MergeKeepsMeetings, IsMerge
  <2>2. /\ j \notin undone => <<log[j].task, l[2]>> \in links
        /\ l[1] \in Live => l \in links
    BY <2>1 DEF ActivitiesInv, MergeKeepsMeetings, IsMerge
  <2>3. j # i => log[j].task # log[i].task
    BY <2>1 DEF ActivitiesInv, LinkInv
  <2> QED BY <1>1, <2>2, <2>3
<1> QED BY <1>1, <1>4, <1>5 DEF ActivitiesInv, TasksInv

LEMMA RenameInv ==
  ASSUME ActivitiesInv, NEW t \in Live, NEW title, NEW selected \in BOOLEAN,
         Up, RenameTask(t, title, selected)
  PROVE  ActivitiesInv'
<1>1. phase = "up" /\ todo' = {} /\ undone' = undone
  BY DEF RenameTask, Up, ActivitiesInv, LinkInv
<1>2. PICK f \in Pairings(tasks[t].note) : \E some \in SUBSET f :
        /\ links' = links \cup some
        /\ \/ UNCHANGED <<tasks, log>>
           \/ /\ \E row : tasks' = [tasks EXCEPT ![t] = row]
              /\ \E e : e.kind = "rename" /\ log' = Append(log, e)
  BY DEF RenameTask, EndsLinking
<1>3. f \subseteq Live \X Meeting
  BY DEF Pairings, TasksOf, MeetingsOf
<1>4. Live' = Live
  BY <1>2 DEF Live
<1>5. /\ links \subseteq links' /\ links' \subseteq Live \X Meeting
      /\ undone \subseteq DOMAIN log
  BY <1>2, <1>3 DEF ActivitiesInv, LinkInv
<1>6. CASE log' = log
  BY <1>1, <1>4, <1>5, <1>6, GrowInv
<1>7. ASSUME NEW e, e.kind = "rename", log' = Append(log, e) PROVE ActivitiesInv'
  <2>1. /\ DOMAIN log' = DOMAIN log \cup {Len(log) + 1} /\ Len(log) + 1 \notin DOMAIN log
        /\ log'[Len(log) + 1] = e /\ \A i \in DOMAIN log : log'[i] = log[i]
        /\ log' \in Seq(Entries')
    BY <1>7, AppendIs
  <2>2. \A i \in DOMAIN log' : log'[i].kind = "merge" => i \in DOMAIN log /\ log'[i] = log[i]
    BY <1>7, <2>1
  <2>3. LinkInv'
    <3>1. \A i \in DOMAIN log' : log'[i].kind = "merge" =>
            /\ log'[i].links \subseteq TaskId \X Meeting
            /\ \A p \in log'[i].parts : p \in Live' \/ \E j \in DOMAIN log' : log'[j].task = p
            /\ \A j \in DOMAIN log' : log'[j].kind = "merge" /\ log'[j].task = log'[i].task => i = j
      BY <1>4, <2>1, <2>2 DEF ActivitiesInv, LinkInv, IsMerge
    <3> QED BY <1>1, <1>4, <1>5, <2>1, <3>1 DEF LinkInv, IsMerge
  <2>4. MergeKeepsMeetings'
    BY <1>1, <1>4, <1>5, <2>2 DEF ActivitiesInv, MergeKeepsMeetings
  <2> QED BY <1>4, <2>3, <2>4 DEF ActivitiesInv, TasksInv
<1> QED BY <1>2, <1>6, <1>7

LEMMA MergeInv ==
  ASSUME ActivitiesInv, NEW pair, NEW a \in Live, NEW b \in Live, NEW t \in Unused,
         Up, Merge(pair, a, b, t)
  PROVE  ActivitiesInv'
<1> DEFINE parts == {a, b}
           e == [kind |-> "merge", task |-> t, parts |-> parts, named |-> pair,
                 links |-> links]
           n == Len(log) + 1
<1>1. /\ phase = "up" /\ todo' = {} /\ undone' = undone
      /\ log' = Append(log, e)
      /\ links' = links \cup {<<t, m>> : m \in UNION {Linked(p) : p \in parts}}
      /\ Live' = Live \cup {t}
  BY DEF Merge, Up, Transferred, Live, ActivitiesInv, LinkInv
<1>2. t \in TaskId /\ t \notin Live /\ \A i \in DOMAIN log : log[i].task # t
  BY DEF Unused
<1>3. /\ e.kind = "merge" /\ e.task = t /\ e.parts = parts /\ e.links = links
  OBVIOUS
<1> HIDE DEF e, n
<1>4. /\ DOMAIN log' = DOMAIN log \cup {n} /\ n \notin DOMAIN log
      /\ log'[n] = e /\ \A i \in DOMAIN log : log'[i] = log[i]
      /\ log' \in Seq(Entries')
  BY <1>1, AppendIs DEF n
<1>5. links' \subseteq Live' \X Meeting /\ links \subseteq links'
  <2>1. \A m \in UNION {Linked(p) : p \in parts} : m \in Meeting
    BY DEF Linked
  <2>2. links \subseteq Live \X Meeting
    BY DEF ActivitiesInv, LinkInv
  <2> HIDE DEF parts
  <2> QED BY <1>1, <2>1, <2>2
<1>6. LinkInv'
  <2>1. ASSUME NEW i \in DOMAIN log', log'[i].kind = "merge"
        PROVE  /\ log'[i].links \subseteq TaskId \X Meeting
               /\ \A p \in log'[i].parts : p \in Live' \/ \E j \in DOMAIN log' : log'[j].task = p
               /\ \A j \in DOMAIN log' : log'[j].kind = "merge" /\ log'[j].task = log'[i].task => i = j
    <3>1. CASE i = n
      <4>1. links \subseteq TaskId \X Meeting
        BY DEF ActivitiesInv, LinkInv, TasksInv
      <4> QED BY <1>1, <1>2, <1>3, <1>4, <3>1, <4>1
    <3>2. CASE i \in DOMAIN log
      BY <1>1, <1>2, <1>3, <1>4, <2>1, <3>2 DEF ActivitiesInv, LinkInv, IsMerge
    <3> QED BY <1>4, <3>1, <3>2
  <2> QED BY <1>1, <1>4, <1>5, <2>1 DEF ActivitiesInv, LinkInv, IsMerge
<1>7. MergeKeepsMeetings'
  <2>1. SUFFICES ASSUME NEW i \in DOMAIN log', log'[i].kind = "merge",
                        NEW l \in log'[i].links, l[1] \in log'[i].parts
                 PROVE  /\ i \notin undone' => <<log'[i].task, l[2]>> \in links'
                        /\ l[1] \in Live' => l \in links'
    BY DEF MergeKeepsMeetings
  <2>2. CASE i = n
    <3>1. l \in links /\ l[1] \in parts
      BY <1>3, <1>4, <2>1, <2>2
    <3>2. l = <<l[1], l[2]>> /\ l[2] \in Meeting
      BY <3>1 DEF ActivitiesInv, LinkInv
    <3>3. l[2] \in Linked(l[1])
      BY <3>1, <3>2 DEF Linked
    <3>4. <<t, l[2]>> \in links'
      BY <1>1, <3>1, <3>3
    <3> QED BY <1>3, <1>4, <1>5, <2>2, <3>1, <3>4
  <2>3. CASE i \in DOMAIN log
    <3>1. /\ log'[i] = log[i] /\ IsMerge(i) /\ l \in log[i].links /\ l[1] \in log[i].parts
      BY <1>4, <2>1, <2>3 DEF IsMerge
    <3>2. /\ i \notin undone => <<log[i].task, l[2]>> \in links
          /\ l[1] \in Live => l \in links
      BY <2>3, <3>1 DEF ActivitiesInv, MergeKeepsMeetings, IsMerge
    <3>3. l[1] # t
      BY <1>2, <2>3, <3>1 DEF ActivitiesInv, LinkInv
    <3> QED BY <1>1, <1>5, <3>1, <3>2, <3>3
  <2> QED BY <1>4, <2>2, <2>3
<1> QED BY <1>1, <1>2, <1>6, <1>7 DEF ActivitiesInv, TasksInv

LEMMA RepairInv ==
  ASSUME ActivitiesInv, NEW t \in TaskId, Repair(t) PROVE ActivitiesInv'
<1>1. /\ phase = "repair" /\ t \in todo /\ UNCHANGED <<log, undone>>
      /\ \/ phase' = phase /\ todo' = todo \ {t}
         \/ todo' = {}
  BY DEF Repair, Goes
<1>2. PICK more \in Legacy(t) :
        /\ links' = links \cup {<<t, m>> : m \in more}
        /\ tasks' = tasks \/ \E row : tasks' = [tasks EXCEPT ![t] = row]
  BY DEF Repair
<1>3. more \subseteq Meeting
  BY DEF Legacy, Resembling
<1>4. Live' = Live /\ t \in Live
  BY <1>1, <1>2 DEF Live, ActivitiesInv, LinkInv
<1> QED BY <1>1, <1>2, <1>3, <1>4, GrowInv DEF ActivitiesInv, LinkInv

LEMMA StartInv ==
  ASSUME ActivitiesInv, Start PROVE ActivitiesInv'
<1> DEFINE paired == UNION {Pairings(tasks[t].note) : t \in Open}
<1>1. PICK f \in [{tasks[t].note : t \in Open} -> paired] :
        \E some \in SUBSET UNION {f[note] : note \in DOMAIN f} : links' = links \cup some
  BY DEF Start, EndsLinking
<1>2. UNION {f[note] : note \in DOMAIN f} \subseteq Live \X Meeting
  <2>1. ASSUME NEW g \in paired PROVE g \subseteq Live \X Meeting
    BY <2>1 DEF Pairings, TasksOf, MeetingsOf
  <2> HIDE DEF paired
  <2> QED BY <2>1
<1> HIDE DEF paired
<1>3. /\ Live' = Live /\ UNCHANGED <<log, undone>> /\ todo' \subseteq Live
      /\ phase' = "repair" \/ todo' = {}
  BY DEF Start, Open, Live, ActivitiesInv, LinkInv
<1> QED BY <1>1, <1>2, <1>3, GrowInv DEF ActivitiesInv, LinkInv

-----------------------------------------------------------------------------
LEMMA InitInv == ActivityInit => ActivitiesInv
<1> SUFFICES ASSUME ActivityInit PROVE ActivitiesInv
  OBVIOUS
<1>1. links = {} /\ log = <<>> /\ undone = {} /\ todo = {}
  BY DEF ActivityInit
<1>2. DOMAIN log = {} /\ log \in Seq(Entries)
  BY <1>1
<1>3. Live \subseteq TaskId
  BY DataAssumption DEF ActivityInit, Live
<1> QED BY <1>1, <1>2, <1>3 DEF ActivitiesInv, TasksInv, LinkInv, MergeKeepsMeetings

LEMMA StepInv == ActivitiesInv /\ [ActivityNext]_activityVars => ActivitiesInv'
<1> SUFFICES ASSUME ActivitiesInv, [ActivityNext]_activityVars PROVE ActivitiesInv'
  OBVIOUS
<1>1. ASSUME NEW result, Up, OtherTurn(result) PROVE ActivitiesInv'
  <2>1. /\ UNCHANGED <<tasks, links, log, undone, todo>> /\ phase = "up"
    BY <1>1 DEF OtherTurn, Up
  <2> QED BY <2>1, GrowInv DEF ActivitiesInv, LinkInv, Live
<1>2. ASSUME NEW t, NEW open, NEW day, Up, ChangeByButton(t, open, day) PROVE ActivitiesInv'
  <2>1. /\ Live' = Live /\ UNCHANGED <<links, log, undone, todo>> /\ phase = "up"
    BY <1>2 DEF ChangeByButton, Up, Live
  <2> QED BY <2>1, GrowInv DEF ActivitiesInv, LinkInv
<1>3. ASSUME NEW t \in Live, NEW title \in Title, NEW selected \in BOOLEAN,
             Up, RenameTask(t, title, selected)
      PROVE  ActivitiesInv'
  BY <1>3, RenameInv
<1>4. ASSUME NEW i \in DOMAIN log, Up, UndoButton(i) PROVE ActivitiesInv'
  <2>1. UndoRename(i) /\ log' = log /\ UNCHANGED <<todo>> /\ phase = "up"
    BY <1>4 DEF UndoButton, Up
  <2> QED BY <2>1, UndoRenameInv
<1>5. ASSUME NEW a \in Open, NEW b \in Open, NEW t \in Unused, NEW pair \in SUBSET Open,
             Up, Merge(pair, a, b, t)
      PROVE  ActivitiesInv'
  <2>1. a \in Live /\ b \in Live
    BY DEF Open
  <2> QED BY <1>5, <2>1, MergeInv
<1>6. ASSUME NEW t \in TaskId, Up, UndoText(t) PROVE ActivitiesInv'
  <2>1. log' = log /\ UNCHANGED <<todo>> /\ phase = "up"
    BY <1>6 DEF UndoText, Up
  <2>2. CASE \E i \in ToUndo("rename", t) : UndoRename(i)
    BY <2>1, <2>2, UndoRenameInv DEF ToUndo
  <2>3. CASE \E i \in ToUndo("merge", t) : UndoMerge(i)
    BY <2>1, <2>3, UndoMergeInv DEF ToUndo, Newest, IsMerge
  <2> QED BY <1>6, <2>2, <2>3 DEF UndoText
<1>7. CASE Message
  BY <1>1, <1>2, <1>3, <1>4, <1>5, <1>6, <1>7 DEF Message
<1>8. CASE Crash \/ Started
  <2>1. /\ Live' = Live /\ UNCHANGED <<links, log, undone>> /\ todo' = {}
    BY <1>8 DEF Crash, Started, Live, ActivitiesInv, LinkInv
  <2> QED BY <2>1, GrowInv DEF ActivitiesInv, LinkInv
<1>9. CASE UNCHANGED activityVars
  BY <1>9, GrowInv DEF activityVars, Live, ActivitiesInv, LinkInv
<1> QED BY <1>7, <1>8, <1>9, StartInv, RepairInv DEF ActivityNext

\* The inductive invariant of the links and the events of activities.
THEOREM ActivitiesInvariant == ActivitySpec => []ActivitiesInv
BY InitInv, StepInv, PTL DEF ActivitySpec

\* A merge never loses a meeting (transfer_task_links, _undo_last_action),
\* whatever is renamed, merged and undone later.
THEOREM MeetingsKept == ActivitySpec => []MergeKeepsMeetings
<1>1. ActivitiesInv => MergeKeepsMeetings
  BY DEF ActivitiesInv
<1> QED BY <1>1, ActivitiesInvariant, PTL

-----------------------------------------------------------------------------
(* Rows and counters.                                                      *)

LEMMA NamedTyped ==
  ASSUME NEW row \in TaskRow, NEW title \in Title, NEW person \in Person \cup {NoPerson}
  PROVE  /\ Named(row, title, person) \in TaskRow
         /\ Named(row, title, person).title = title /\ Named(row, title, person).person = person
         /\ Named(row, title, person).open = row.open
BY DEF Named, TaskRow

LEMMA UpdatedTyped ==
  ASSUME NEW row \in MeetingRow, NEW title \in Title, NEW person \in Person \cup {NoPerson}
  PROVE  /\ Updated(row, title, person) \in MeetingRow
         /\ Updated(row, title, person).title = title
         /\ Updated(row, title, person).person = person
<1>1. {person} \ {NoPerson} \in SUBSET Person
  OBVIOUS
<1> QED BY <1>1 DEF Updated, Named, MeetingRow

\* What Renamed makes of the meetings: ms get the names, the others stay.
NamesGiven(new, ms, title, person) ==
  /\ new \in [Meeting -> MeetingRow]
  /\ \A m \in ms : new[m].title = title /\ new[m].person = person
  /\ \A m \in Meeting \ ms : new[m] = meetings[m]

LEMMA RenamedTyped ==
  ASSUME meetings \in [Meeting -> MeetingRow], NEW ms \in SUBSET Meeting,
         NEW title \in Title, NEW person \in Person \cup {NoPerson}
  PROVE  NamesGiven(Renamed(ms, title, person), ms, title, person)
<1>1. \A m \in Meeting : meetings[m] \in MeetingRow
  OBVIOUS
<1>2. \A m \in Meeting : /\ Updated(meetings[m], title, person) \in MeetingRow
                         /\ Updated(meetings[m], title, person).title = title
                         /\ Updated(meetings[m], title, person).person = person
  BY <1>1, UpdatedTyped
<1> QED BY <1>1, <1>2 DEF Renamed, NamesGiven

\* An event of a rename holds rows of its task and of the meetings it reached.
RenameEvent(e) ==
  /\ e.kind = "rename" /\ e.task \in TaskId
  /\ e.before \in TaskRow /\ e.after \in TaskRow
  /\ DOMAIN e.meetings \subseteq Meeting /\ e.meetings \in [DOMAIN e.meetings -> MeetingRow]

EventsInv ==
  /\ \A i \in DOMAIN log : RenameEvent(log[i]) \/ (log[i].kind = "merge" /\ log[i].task \in TaskId)
  /\ fresh \subseteq DOMAIN log

RowsInv ==
  /\ tasks \in [Live -> TaskRow] /\ meetings \in [Meeting -> MeetingRow]
  /\ todo \subseteq Open

TurnsInv ==
  /\ last \subseteq TaskId /\ turn \subseteq TaskId
  /\ phase \in {"up", "down", "repair"}
  /\ read \in IF phase = "repair" THEN [Meeting -> MeetingRow] ELSE {NoRows}
  /\ handled \in 0 .. MaxHandled /\ crashes \in 0 .. MaxCrashes

\* The rows of an event are as the rename wrote them.
AsWritten(i) ==
  /\ log[i].task \in Live => SameName(tasks[log[i].task], log[i].after)
  /\ \A m \in DOMAIN log[i].meetings : SameName(meetings[m], log[i].after)

FreshInv == \A i \in fresh : log[i].kind = "rename" /\ AsWritten(i)

NamesInv == ActivitiesInv /\ EventsInv /\ RowsInv /\ TurnsInv /\ FreshInv

LEMMA NamesTyped == NamesInv => ActivityTypeOK
BY DEF NamesInv, ActivitiesInv, TasksInv, LinkInv, EventsInv, RowsInv, TurnsInv, RenameEvent,
   ActivityTypeOK

\* Events that stay as they are, whose rows keep their names.
LEMMA FreshKept ==
  ASSUME FreshInv, NEW F \in SUBSET fresh, \A i \in F : log'[i] = log[i],
         \A i \in F : log[i].task \in Live' =>
            log[i].task \in Live /\ SameName(tasks'[log[i].task], tasks[log[i].task]),
         \A i \in F : \A m \in DOMAIN log[i].meetings : SameName(meetings'[m], meetings[m])
  PROVE  \A i \in F : log'[i].kind = "rename" /\ AsWritten(i)'
<1> SUFFICES ASSUME NEW i \in F PROVE log'[i].kind = "rename" /\ AsWritten(i)'
  OBVIOUS
<1>1. log'[i] = log[i] /\ log[i].kind = "rename" /\ AsWritten(i)
  BY DEF FreshInv
<1>2. log[i].task \in Live' => SameName(tasks'[log[i].task], log[i].after)
  BY <1>1 DEF AsWritten, SameName
<1>3. \A m \in DOMAIN log[i].meetings : SameName(meetings'[m], log[i].after)
  BY <1>1 DEF AsWritten, SameName
<1> QED BY <1>1, <1>2, <1>3 DEF AsWritten

\* A step that neither renames anything nor records an event.
LEMMA UnnamedStep ==
  ASSUME EventsInv, FreshInv, UNCHANGED <<meetings, log, fresh>>, Live' \subseteq Live,
         \A t \in Live' : SameName(tasks'[t], tasks[t])
  PROVE  EventsInv' /\ FreshInv'
<1>1. \A i \in fresh : \A m \in DOMAIN log[i].meetings : SameName(meetings'[m], meetings[m])
  BY DEF SameName
<1>2. \A i \in fresh : log'[i].kind = "rename" /\ AsWritten(i)'
  BY <1>1, FreshKept
<1> QED BY <1>2 DEF EventsInv, FreshInv

\* A text is about tasks, and its record ends the process or does not.
LEMMA RecordedTurns ==
  ASSUME TurnsInv, Up, NEW result \in SUBSET TaskId, Recorded(result)
  PROVE  TurnsInv'
<1>1. /\ crashes' \in 0 .. MaxCrashes /\ handled' \in 0 .. MaxHandled
      /\ phase' \in {"up", "down"} /\ read' = read /\ read = NoRows
  BY DataAssumption DEF Up, Recorded, Goes, Ends, TurnsInv
<1>2. last' \subseteq TaskId /\ turn' \subseteq TaskId
  BY DEF Recorded, Saved, Appended, TurnsInv
<1> QED BY <1>1, <1>2 DEF TurnsInv

LEMMA UpCounts == ASSUME TurnsInv, Up PROVE handled' \in 0 .. MaxHandled
BY DataAssumption DEF TurnsInv, Up

LEMMA UnrecordedTurns == ASSUME TurnsInv, Up, Unrecorded PROVE TurnsInv'
BY UpCounts DEF TurnsInv, Up, Unrecorded, Goes

\* A rename writes the rows of its task and of meetings, and the events about
\* them are not fresh any more.
LEMMA WrittenFresh ==
  ASSUME FreshInv, RowsInv, NEW t \in TaskId, NEW ms \in SUBSET Meeting,
         \A i \in fresh : log'[i] = log[i], Live' = Live,
         \A u \in Live \ {t} : tasks'[u] = tasks[u],
         \A m \in Meeting \ ms : meetings'[m] = meetings[m],
         EventsInv
  PROVE  \A i \in Untouched(t, ms) : log'[i].kind = "rename" /\ AsWritten(i)'
<1> DEFINE F == Untouched(t, ms)
<1>1. \A i \in F : i \in fresh /\ log[i].task # t /\ DOMAIN log[i].meetings \cap ms = {}
  BY DEF Untouched
<1> HIDE DEF F
<1>2. \A i \in F : DOMAIN log[i].meetings \subseteq Meeting
  BY <1>1 DEF EventsInv, RenameEvent, FreshInv
<1>3. \A i \in F : log[i].task \in Live' =>
        log[i].task \in Live /\ SameName(tasks'[log[i].task], tasks[log[i].task])
  BY <1>1 DEF SameName
<1>4. \A i \in F : \A m \in DOMAIN log[i].meetings : SameName(meetings'[m], meetings[m])
  BY <1>1, <1>2 DEF SameName
<1>5. F \in SUBSET fresh /\ \A i \in F : log'[i] = log[i]
  BY <1>1
<1>6. \A i \in F : log'[i].kind = "rename" /\ AsWritten(i)'
  BY <1>3, <1>4, <1>5, FreshKept
<1> QED BY <1>6 DEF F

-----------------------------------------------------------------------------
(* The steps.                                                              *)

RestInv == EventsInv /\ RowsInv /\ TurnsInv /\ FreshInv

\* The repair is over before the process is up.
LEMMA NothingTodo == ASSUME NamesInv, phase # "repair" PROVE todo = {}
BY DEF NamesInv, ActivitiesInv, LinkInv

\* The tasks a record is about exist.
LEMMA OpenTyped == NamesInv => Live \subseteq TaskId /\ Open \subseteq Live
BY DEF NamesInv, ActivitiesInv, TasksInv, Open

LEMMA OtherTurnRest ==
  ASSUME NamesInv, NEW result \in SUBSET Open, Up, OtherTurn(result) PROVE RestInv'
<1>1. UNCHANGED <<tasks, meetings, links, log, undone, fresh, todo>> /\ Recorded(result) /\ Up
  BY DEF OtherTurn, Up
<1>2. TurnsInv'
  BY <1>1, OpenTyped, RecordedTurns, UpCounts DEF NamesInv
<1>3. Live' = Live /\ Open' = Open
  BY <1>1 DEF Live, Open
<1>4. EventsInv' /\ FreshInv'
  BY <1>1, <1>3, UnnamedStep DEF NamesInv, SameName
<1> QED BY <1>1, <1>2, <1>3, <1>4 DEF RestInv, NamesInv, RowsInv

LEMMA ButtonRest ==
  ASSUME NamesInv, NEW t \in Live, NEW open \in BOOLEAN, NEW day \in Times \cup {Unset},
         Up, ChangeByButton(t, open, day)
  PROVE  RestInv'
<1>1. /\ Up /\ Unrecorded /\ UNCHANGED <<meetings, links, log, undone, fresh, todo>>
      /\ phase = "up" /\ tasks' = [tasks EXCEPT ![t].open = open, ![t].due = day]
  BY DEF ChangeByButton, Up
<1>2. tasks \in [Live -> TaskRow]
  BY DEF NamesInv, RowsInv
<1>3. /\ Live' = Live /\ tasks' \in [Live -> TaskRow]
      /\ \A u \in Live : tasks'[u].title = tasks[u].title /\ tasks'[u].person = tasks[u].person
  BY <1>1, <1>2 DEF Live, TaskRow
<1>4. todo' = {}
  BY <1>1, NothingTodo
<1>5. TurnsInv'
  BY <1>1, UnrecordedTurns DEF NamesInv
<1>6. EventsInv' /\ FreshInv'
  BY <1>1, <1>3, UnnamedStep DEF NamesInv, SameName
<1> QED BY <1>1, <1>3, <1>4, <1>5, <1>6 DEF RestInv, NamesInv, RowsInv

LEMMA RenameRest ==
  ASSUME NamesInv, NEW t \in Live, NEW title \in Title, NEW selected \in BOOLEAN,
         Up, RenameTask(t, title, selected)
  PROVE  RestInv'
<1>1. Up /\ phase = "up" /\ todo' = todo /\ handled' \in 0 .. MaxHandled
  BY UpCounts DEF RenameTask, Up, NamesInv
<1>2. todo = {}
  BY <1>1, NothingTodo
<1>3. PICK f \in Pairings(tasks[t].note) :
        LET ms == {m \in Meeting : <<t, m>> \in links \cup f}
            person == IF ms # {} \/ Mentions(title) # NoPerson
                      THEN Mentions(title) ELSE tasks[t].person
        IN  \/ EndsLinking(f) /\ UNCHANGED <<tasks, meetings, log, fresh, last, turn>>
            \/ /\ tasks' = [tasks EXCEPT ![t] = Named(@, title, person)]
               /\ meetings' = Renamed(ms, title, person)
               /\ log' = Append(log, [kind |-> "rename", task |-> t, selected |-> selected,
                                      before |-> tasks[t],
                                      after |-> Named(tasks[t], title, person),
                                      meetings |-> [m \in ms |-> meetings[m]]])
               /\ fresh' = Untouched(t, ms) \cup {Len(log) + 1}
               /\ Recorded(IF selected THEN {} ELSE {t})
  BY DEF RenameTask
<1> DEFINE ms == {m \in Meeting : <<t, m>> \in links \cup f}
           person == IF ms # {} \/ Mentions(title) # NoPerson
                     THEN Mentions(title) ELSE tasks[t].person
           after == Named(tasks[t], title, person)
           e == [kind |-> "rename", task |-> t, selected |-> selected, before |-> tasks[t],
                 after |-> after, meetings |-> [m \in ms |-> meetings[m]]]
           n == Len(log) + 1
<1>4. /\ tasks \in [Live -> TaskRow] /\ meetings \in [Meeting -> MeetingRow]
      /\ t \in TaskId /\ tasks[t] \in TaskRow
  BY OpenTyped DEF NamesInv, RowsInv
<1>5. person \in Person \cup {NoPerson} /\ ms \in SUBSET Meeting
  BY <1>4, DataAssumption DEF TaskRow
<1> HIDE DEF ms, person
<1>6. CASE EndsLinking(f) /\ UNCHANGED <<tasks, meetings, log, fresh, last, turn>>
  <2>1. Live' = Live /\ Open' = Open
    BY <1>6 DEF Live, Open
  <2>2. EventsInv' /\ FreshInv'
    BY <1>6, <2>1, UnnamedStep DEF NamesInv, SameName
  <2>3. TurnsInv'
    BY <1>1, <1>6, DataAssumption DEF NamesInv, TurnsInv, EndsLinking, Ends, Up
  <2> QED BY <1>1, <1>6, <2>1, <2>2, <2>3 DEF RestInv, NamesInv, RowsInv
<1>7. CASE /\ tasks' = [tasks EXCEPT ![t] = Named(@, title, person)]
           /\ meetings' = Renamed(ms, title, person)
           /\ log' = Append(log, e)
           /\ fresh' = Untouched(t, ms) \cup {n}
           /\ Recorded(IF selected THEN {} ELSE {t})
  <2>1. /\ after \in TaskRow /\ after.title = title /\ after.person = person
    BY <1>4, <1>5, NamedTyped
  <2>2. /\ e.kind = "rename" /\ e.task = t /\ e.before = tasks[t] /\ e.after = after
        /\ e.meetings = [m \in ms |-> meetings[m]]
    OBVIOUS
  <2>3. RenameEvent(e)
    BY <1>4, <1>5, <2>1, <2>2 DEF RenameEvent
  <2>4. /\ tasks' = [tasks EXCEPT ![t] = after] /\ meetings' = Renamed(ms, title, person)
        /\ log' = Append(log, e) /\ fresh' = Untouched(t, ms) \cup {n}
        /\ Recorded(IF selected THEN {} ELSE {t})
    BY <1>7
  <2> HIDE DEF e, n, after
  <2>5. /\ DOMAIN log' = DOMAIN log \cup {n} /\ n \notin DOMAIN log
        /\ log'[n] = e /\ \A i \in DOMAIN log : log'[i] = log[i]
    BY <2>4, AppendIs DEF NamesInv, n
  <2>6. /\ Live' = Live /\ tasks' \in [Live -> TaskRow]
        /\ tasks'[t] = after /\ \A u \in Live \ {t} : tasks'[u] = tasks[u]
    BY <1>4, <2>1, <2>4 DEF Live
  <2>7. /\ meetings' \in [Meeting -> MeetingRow]
        /\ \A m \in ms : meetings'[m].title = title /\ meetings'[m].person = person
        /\ \A m \in Meeting \ ms : meetings'[m] = meetings[m]
    <3>1. NamesGiven(Renamed(ms, title, person), ms, title, person)
      BY <1>4, <1>5, RenamedTyped
    <3>2. NamesGiven(meetings', ms, title, person)
      BY <2>4, <3>1
    <3> QED BY <3>2 DEF NamesGiven
  <2>8. \A i \in Untouched(t, ms) : log'[i].kind = "rename" /\ AsWritten(i)'
    <3>1. \A i \in fresh : log'[i] = log[i]
      BY <2>5 DEF NamesInv, EventsInv
    <3> QED BY <1>4, <1>5, <2>6, <2>7, <3>1, WrittenFresh DEF NamesInv
  <2>9. PICK k \in DOMAIN log' : k = n
    BY <2>5
  <2>10. FreshInv'
    <3>1. DOMAIN e.meetings = ms
      BY <2>2
    <3>2. /\ log'[k].kind = "rename" /\ log'[k].task = t /\ log'[k].after = after
          /\ DOMAIN log'[k].meetings = ms
      BY <2>2, <2>5, <2>9, <3>1
    <3>3. \A m \in ms : SameName(meetings'[m], after)
      BY <2>1, <2>7 DEF SameName
    <3>4. SameName(tasks'[t], after)
      BY <2>6 DEF SameName
    <3>5. AsWritten(k)'
      BY <3>2, <3>3, <3>4 DEF AsWritten
    <3>6. \A i \in fresh' : i \in Untouched(t, ms) \/ i = k
      BY <2>4, <2>9
    <3> QED BY <2>8, <3>2, <3>5, <3>6 DEF FreshInv
  <2>11. EventsInv'
    BY <2>3, <2>4, <2>5 DEF EventsInv, NamesInv, Untouched
  <2>12. RowsInv'
    BY <1>1, <1>2, <2>6, <2>7 DEF RowsInv
  <2>13. TurnsInv'
    <3>1. (IF selected THEN {} ELSE {t}) \in SUBSET TaskId
      BY <1>4
    <3> QED BY <1>1, <2>4, <3>1, RecordedTurns DEF NamesInv
  <2> QED BY <2>10, <2>11, <2>12, <2>13 DEF RestInv
<1> QED BY <1>3, <1>6, <1>7 DEF ms, person

\* undo_event of a rename that is in the log.
LEMMA UndoneRows ==
  ASSUME NamesInv, NEW i \in DOMAIN log, log[i].kind = "rename", UndoRename(i)
  PROVE  /\ Live' = Live /\ tasks' \in [Live -> TaskRow] /\ meetings' \in [Meeting -> MeetingRow]
         /\ \A u \in Live \ {log[i].task} : tasks'[u] = tasks[u]
         /\ \A u \in Live : tasks'[u].open = tasks[u].open
         /\ log[i].task \in Live => SameName(tasks'[log[i].task], log[i].before)
         /\ \A m \in Meeting \ DOMAIN log[i].meetings : meetings'[m] = meetings[m]
         /\ \A m \in DOMAIN log[i].meetings : SameName(meetings'[m], log[i].meetings[m])
<1> DEFINE e == log[i]
<1>1. RenameEvent(e)
  BY DEF NamesInv, EventsInv
<1>2. tasks \in [Live -> TaskRow] /\ meetings \in [Meeting -> MeetingRow]
  BY DEF NamesInv, RowsInv
<1>3. /\ tasks' = [t \in Live |-> IF t = e.task
                                 THEN Named(tasks[t], e.before.title, e.before.person)
                                 ELSE tasks[t]]
      /\ meetings' = [m \in Meeting |-> IF m \in DOMAIN e.meetings
                        THEN Updated(meetings[m], e.meetings[m].title, e.meetings[m].person)
                        ELSE meetings[m]]
  BY DEF UndoRename, Restored
<1> HIDE DEF e
<1>4. e.before.title \in Title /\ e.before.person \in Person \cup {NoPerson}
  BY <1>1 DEF RenameEvent, TaskRow
<1>5. \A m \in DOMAIN e.meetings : /\ m \in Meeting /\ e.meetings[m].title \in Title
                                   /\ e.meetings[m].person \in Person \cup {NoPerson}
  BY <1>1 DEF RenameEvent, MeetingRow
<1>6. \A t \in Live : LET new == Named(tasks[t], e.before.title, e.before.person)
                      IN  /\ new \in TaskRow /\ new.title = e.before.title
                          /\ new.person = e.before.person /\ new.open = tasks[t].open
  BY <1>2, <1>4, NamedTyped
<1>7. \A m \in DOMAIN e.meetings :
        LET new == Updated(meetings[m], e.meetings[m].title, e.meetings[m].person)
        IN  /\ new \in MeetingRow /\ new.title = e.meetings[m].title
            /\ new.person = e.meetings[m].person
  BY <1>2, <1>5, UpdatedTyped
<1>8. Live' = Live
  BY <1>3 DEF Live
<1>9. /\ tasks' \in [Live -> TaskRow]
      /\ \A u \in Live \ {e.task} : tasks'[u] = tasks[u]
      /\ \A u \in Live : tasks'[u].open = tasks[u].open
      /\ e.task \in Live => SameName(tasks'[e.task], e.before)
  BY <1>2, <1>3, <1>6 DEF SameName
<1>10. /\ meetings' \in [Meeting -> MeetingRow]
       /\ \A m \in Meeting \ DOMAIN e.meetings : meetings'[m] = meetings[m]
       /\ \A m \in DOMAIN e.meetings : SameName(meetings'[m], e.meetings[m])
  BY <1>2, <1>3, <1>5, <1>7 DEF SameName
<1> QED BY <1>8, <1>9, <1>10 DEF e

LEMMA UndoRenameRest ==
  ASSUME NamesInv, NEW i \in DOMAIN log, log[i].kind = "rename", UndoRename(i),
         log' = log, todo' = {}
  PROVE  EventsInv' /\ RowsInv' /\ FreshInv' /\ Open' = Open
<1> DEFINE t == log[i].task
           ms == DOMAIN log[i].meetings
<1>1. /\ Live' = Live /\ tasks' \in [Live -> TaskRow] /\ meetings' \in [Meeting -> MeetingRow]
      /\ \A u \in Live \ {t} : tasks'[u] = tasks[u]
      /\ \A u \in Live : tasks'[u].open = tasks[u].open
      /\ \A m \in Meeting \ ms : meetings'[m] = meetings[m]
  BY UndoneRows
<1>2. t \in TaskId /\ ms \in SUBSET Meeting
  BY DEF NamesInv, EventsInv, RenameEvent
<1>3. fresh' = Untouched(t, ms)
  BY DEF UndoRename
<1> HIDE DEF t, ms
<1>4. \A j \in Untouched(t, ms) : log'[j].kind = "rename" /\ AsWritten(j)'
  BY <1>1, <1>2, WrittenFresh DEF NamesInv
<1>5. FreshInv'
  BY <1>3, <1>4 DEF FreshInv
<1>6. EventsInv'
  BY <1>3 DEF EventsInv, NamesInv, Untouched
<1>7. Open' = Open
  BY <1>1 DEF Open
<1> QED BY <1>1, <1>5, <1>6, <1>7 DEF RowsInv

LEMMA UndoButtonRest ==
  ASSUME NamesInv, NEW i \in DOMAIN log, Up, UndoButton(i) PROVE RestInv'
<1>1. /\ Up /\ Unrecorded /\ phase = "up" /\ todo' = todo /\ log' = log
      /\ log[i].kind = "rename" /\ UndoRename(i)
  BY DEF UndoButton, Up
<1>2. todo' = {}
  BY <1>1, NothingTodo
<1>3. TurnsInv'
  BY <1>1, UnrecordedTurns DEF NamesInv
<1> QED BY <1>1, <1>2, <1>3, UndoRenameRest DEF RestInv

\* The row of a merged task.
LEMMA MergedTyped ==
  ASSUME RowsInv, NEW a \in Live, NEW b \in Live PROVE MergedRow(a, b) \in TaskRow
<1>1. tasks[a] \in TaskRow /\ tasks[b] \in TaskRow
  BY DEF RowsInv
<1> DEFINE dues == {tasks[a].due, tasks[b].due} \ {Unset}
           first == CHOOSE d \in dues : \A o \in dues : d <= o
           when == IF dues = {} THEN Unset ELSE first
           person == IF tasks[a].person = tasks[b].person THEN tasks[a].person ELSE NoPerson
           title == Joined(tasks[a].title, tasks[b].title)
<1>2. dues \subseteq Times
  BY <1>1 DEF TaskRow
<1>3. ASSUME dues # {} PROVE first \in dues
  <2>1. \A d \in dues : d \in Int
    BY <1>2, DataAssumption
  <2>2. PICK d \in dues, o \in dues : \A x \in dues : x = d \/ x = o
    BY <1>3
  <2>3. \E x \in dues : \A y \in dues : x <= y
    <3>1. CASE d <= o
      BY <2>1, <2>2, <3>1
    <3>2. CASE o <= d
      BY <2>1, <2>2, <3>2
    <3> QED BY <2>1, <3>1, <3>2
  <2> HIDE DEF dues
  <2> QED BY <2>3
<1>4. when \in Times \cup {Unset}
  BY <1>2, <1>3
<1>5. title \in Title /\ person \in Person \cup {NoPerson}
  BY <1>1, DataAssumption DEF TaskRow
<1>6. MergedRow(a, b) = [open |-> TRUE, title |-> title, person |-> person,
                         note |-> Merges, due |-> when]
  BY DEF MergedRow
<1> HIDE DEF title, person, when
<1> QED BY <1>4, <1>5, <1>6 DEF TaskRow

LEMMA MergeRest ==
  ASSUME NamesInv, NEW pair, NEW a \in Open, NEW b \in Open, NEW t \in Unused,
         Up, Merge(pair, a, b, t)
  PROVE  RestInv'
<1> DEFINE parts == {a, b}
           e == [kind |-> "merge", task |-> t, parts |-> parts, named |-> pair,
                 links |-> links]
           n == Len(log) + 1
           row == MergedRow(a, b)
<1>1. /\ Up /\ phase = "up" /\ todo' = todo /\ Recorded({t})
      /\ log' = Append(log, e) /\ UNCHANGED <<meetings, undone, fresh>>
      /\ tasks' = [x \in Live \cup {t} |->
                     IF x = t THEN row
                     ELSE IF x \in parts THEN [tasks[x] EXCEPT !.open = FALSE] ELSE tasks[x]]
  BY DEF Merge, Up
<1>2. /\ t \in TaskId /\ t \notin Live /\ \A i \in DOMAIN log : log[i].task # t
      /\ a \in Live /\ b \in Live
  BY DEF Unused, Open
<1>3. row \in TaskRow
  BY <1>2, MergedTyped DEF NamesInv
<1>4. e.kind = "merge" /\ e.task = t
  OBVIOUS
<1> HIDE DEF e, n, row
<1>5. tasks \in [Live -> TaskRow] /\ meetings \in [Meeting -> MeetingRow]
  BY DEF NamesInv, RowsInv
<1>6. \A x \in Live : LET closed == [tasks[x] EXCEPT !.open = FALSE]
                      IN  /\ closed \in TaskRow /\ closed.title = tasks[x].title
                          /\ closed.person = tasks[x].person
  BY <1>5 DEF TaskRow
<1>7. /\ Live' = Live \cup {t} /\ tasks' \in [Live \cup {t} -> TaskRow]
      /\ \A x \in Live : SameName(tasks'[x], tasks[x])
  BY <1>1, <1>2, <1>3, <1>5, <1>6 DEF Live, SameName
<1>8. /\ DOMAIN log' = DOMAIN log \cup {n} /\ n \notin DOMAIN log
      /\ log'[n] = e /\ \A i \in DOMAIN log : log'[i] = log[i]
  BY <1>1, AppendIs DEF NamesInv, n
<1>9. EventsInv'
  BY <1>1, <1>2, <1>4, <1>8 DEF EventsInv, NamesInv
<1>10. FreshInv'
  <2>1. \A i \in fresh : i \in DOMAIN log /\ log'[i] = log[i]
    BY <1>8 DEF NamesInv, EventsInv
  <2>2. \A i \in fresh : log[i].task \in Live' =>
          log[i].task \in Live /\ SameName(tasks'[log[i].task], tasks[log[i].task])
    BY <1>2, <1>7, <2>1
  <2>3. \A i \in fresh : \A m \in DOMAIN log[i].meetings : SameName(meetings'[m], meetings[m])
    BY <1>1 DEF SameName
  <2>4. \A i \in fresh : log'[i].kind = "rename" /\ AsWritten(i)'
    BY <2>1, <2>2, <2>3, FreshKept DEF NamesInv
  <2> QED BY <1>1, <2>4 DEF FreshInv
<1>11. RowsInv'
  BY <1>1, <1>5, <1>7, NothingTodo DEF RowsInv
<1>12. TurnsInv'
  BY <1>1, <1>2, RecordedTurns, UpCounts DEF NamesInv
<1> QED BY <1>9, <1>10, <1>11, <1>12 DEF RestInv

LEMMA UndoMergeRest ==
  ASSUME NamesInv, NEW i \in DOMAIN log, UndoMerge(i), log' = log, todo' = {}
  PROVE  EventsInv' /\ RowsInv' /\ FreshInv' /\ Open' \subseteq Live
<1> DEFINE gone == log[i].task
           parts == log[i].parts
<1>1. /\ tasks' = [x \in Live \ {gone} |->
                    IF x \in parts THEN [tasks[x] EXCEPT !.open = TRUE] ELSE tasks[x]]
      /\ UNCHANGED <<meetings, fresh>>
  BY DEF UndoMerge
<1> HIDE DEF gone, parts
<1>2. tasks \in [Live -> TaskRow] /\ meetings \in [Meeting -> MeetingRow]
  BY DEF NamesInv, RowsInv
<1>3. \A x \in Live : LET opened == [tasks[x] EXCEPT !.open = TRUE]
                      IN  /\ opened \in TaskRow /\ opened.title = tasks[x].title
                          /\ opened.person = tasks[x].person
  BY <1>2 DEF TaskRow
<1>4. /\ Live' = Live \ {gone} /\ tasks' \in [Live \ {gone} -> TaskRow]
      /\ \A x \in Live' : SameName(tasks'[x], tasks[x])
  BY <1>1, <1>2, <1>3 DEF Live, SameName
<1>5. EventsInv' /\ FreshInv'
  BY <1>1, <1>4, UnnamedStep DEF NamesInv
<1> QED BY <1>1, <1>2, <1>4, <1>5 DEF RowsInv, Open

LEMMA UndoTextRest ==
  ASSUME NamesInv, NEW t \in TaskId, Up, UndoText(t) PROVE RestInv'
<1>1. Up /\ phase = "up" /\ todo' = todo /\ log' = log /\ Recorded(Outcome({t}))
  BY DEF UndoText, Up
<1>2. todo' = {}
  BY <1>1, NothingTodo
<1>3. EventsInv' /\ RowsInv' /\ FreshInv' /\ Open' \subseteq Live
  <2>1. ASSUME NEW i \in ToUndo("rename", t), UndoRename(i)
        PROVE  EventsInv' /\ RowsInv' /\ FreshInv' /\ Open' \subseteq Live
    <3>1. i \in DOMAIN log /\ log[i].kind = "rename"
      BY DEF ToUndo, Newest
    <3> QED BY <1>1, <1>2, <2>1, <3>1, UndoRenameRest DEF Open
  <2>2. ASSUME NEW i \in ToUndo("merge", t), UndoMerge(i)
        PROVE  EventsInv' /\ RowsInv' /\ FreshInv' /\ Open' \subseteq Live
    <3>1. i \in DOMAIN log
      BY DEF ToUndo
    <3> QED BY <1>1, <1>2, <2>2, <3>1, UndoMergeRest
  <2> QED BY <2>1, <2>2 DEF UndoText
<1>4. Outcome({t}) \in SUBSET TaskId
  BY <1>3, OpenTyped DEF Outcome
<1>5. TurnsInv'
  BY <1>1, <1>4, RecordedTurns, UpCounts DEF NamesInv
<1> QED BY <1>3, <1>5 DEF RestInv

LEMMA RepairRest ==
  ASSUME NamesInv, NEW t \in TaskId, Repair(t) PROVE RestInv'
<1>1. /\ t \in todo /\ todo' \in {todo \ {t}, {}}
      /\ UNCHANGED <<log, undone, last, turn, handled>>
  BY DEF Repair
<1>2. PICK ms \in SUBSET Meeting :
        \/ UNCHANGED <<tasks, meetings, fresh>>
        \/ /\ tasks' = [tasks EXCEPT ![t] = Named(@, tasks[t].title, Mentions(tasks[t].title))]
           /\ meetings' = Renamed(ms, tasks[t].title, Mentions(tasks[t].title))
           /\ fresh' = Untouched(t, ms)
  <2>1. PICK more \in Legacy(t) :
          LET ms == Linked(t) \cup more
          IN  \/ UNCHANGED <<tasks, meetings, fresh>>
              \/ /\ tasks' = [tasks EXCEPT ![t] = Named(@, tasks[t].title, Mentions(tasks[t].title))]
                 /\ meetings' = Renamed(ms, tasks[t].title, Mentions(tasks[t].title))
                 /\ fresh' = Untouched(t, ms)
    BY DEF Repair
  <2>2. Linked(t) \cup more \in SUBSET Meeting
    BY DEF Legacy, Resembling, Linked
  <2> QED BY <2>1, <2>2
<1>3. /\ tasks \in [Live -> TaskRow] /\ meetings \in [Meeting -> MeetingRow]
      /\ t \in Live /\ tasks[t] \in TaskRow /\ todo \subseteq Open
  BY <1>1 DEF NamesInv, RowsInv, Open
<1>4. TurnsInv'
  <2>1. CASE Goes /\ UNCHANGED read
    BY <1>1, <2>1 DEF NamesInv, TurnsInv, Goes
  <2>2. CASE Ends /\ read' = NoRows
    BY <1>1, <2>2, DataAssumption DEF NamesInv, TurnsInv, Ends
  <2> QED BY <2>1, <2>2 DEF Repair
<1>5. CASE UNCHANGED <<tasks, meetings, fresh>>
  <2>1. Live' = Live /\ Open' = Open
    BY <1>5 DEF Live, Open
  <2>2. EventsInv' /\ FreshInv'
    BY <1>1, <1>5, <2>1, UnnamedStep DEF NamesInv, SameName
  <2> QED BY <1>1, <1>3, <1>4, <1>5, <2>1, <2>2 DEF RestInv, RowsInv
<1>6. ASSUME NEW title, title = tasks[t].title, NEW person, person = Mentions(title),
             tasks' = [tasks EXCEPT ![t] = Named(@, title, person)],
             meetings' = Renamed(ms, title, person), fresh' = Untouched(t, ms)
      PROVE  RestInv'
  <2>1. title \in Title /\ person \in Person \cup {NoPerson}
    BY <1>3, <1>6, DataAssumption DEF TaskRow
  <2>2. Named(tasks[t], title, person) \in TaskRow /\ Named(tasks[t], title, person).open = tasks[t].open
    BY <1>3, <2>1, NamedTyped
  <2>3. /\ Live' = Live /\ tasks' \in [Live -> TaskRow]
        /\ \A u \in Live \ {t} : tasks'[u] = tasks[u]
        /\ \A u \in Live : tasks'[u].open = tasks[u].open
    BY <1>3, <1>6, <2>2 DEF Live
  <2>4. NamesGiven(Renamed(ms, title, person), ms, title, person)
    BY <1>3, <2>1, RenamedTyped
  <2>5. /\ meetings' \in [Meeting -> MeetingRow]
        /\ \A m \in Meeting \ ms : meetings'[m] = meetings[m]
    BY <1>6, <2>4 DEF NamesGiven
  <2>6. \A i \in Untouched(t, ms) : log'[i].kind = "rename" /\ AsWritten(i)'
    BY <1>1, <2>3, <2>5, WrittenFresh DEF NamesInv
  <2>7. FreshInv'
    BY <1>6, <2>6 DEF FreshInv
  <2>8. EventsInv'
    BY <1>1, <1>6 DEF EventsInv, NamesInv, Untouched
  <2>9. RowsInv'
    <3>1. Open' = Open
      BY <2>3 DEF Open
    <3> QED BY <1>1, <1>3, <2>3, <2>5, <3>1 DEF RowsInv
  <2> QED BY <1>4, <2>7, <2>8, <2>9 DEF RestInv
<1> QED BY <1>2, <1>5, <1>6

LEMMA ProcessRest ==
  ASSUME NamesInv, Start \/ Started \/ Crash \/ UNCHANGED activityVars PROVE RestInv'
<1>1. UNCHANGED <<tasks, meetings, log, fresh, last, turn, handled>>
  BY DEF Start, Started, Crash, activityVars
<1>2. Live' = Live /\ Open' = Open
  BY <1>1 DEF Live, Open
<1>3. EventsInv' /\ FreshInv'
  BY <1>1, <1>2, UnnamedStep DEF NamesInv, SameName
<1>4. todo' \subseteq Open
  BY DEF Start, Started, Crash, activityVars, NamesInv, RowsInv
<1>5. /\ crashes' \in 0 .. MaxCrashes /\ phase' \in {"up", "down", "repair"}
      /\ read' \in IF phase' = "repair" THEN [Meeting -> MeetingRow] ELSE {NoRows}
  <2>1. CASE UNCHANGED <<phase, read, crashes>>
    BY <2>1 DEF NamesInv, TurnsInv
  <2>2. CASE phase' = "repair" /\ read' = meetings /\ UNCHANGED crashes
    BY <2>2 DEF NamesInv, RowsInv, TurnsInv
  <2>3. CASE phase = "repair" /\ phase' = "up" /\ read' = NoRows /\ UNCHANGED crashes
    BY <2>3 DEF NamesInv, TurnsInv
  <2>4. CASE Ends /\ (read' = NoRows \/ (phase = "down" /\ read' = read))
    BY <2>4, DataAssumption DEF Ends, NamesInv, TurnsInv
  <2>5. CASE Start
    BY <2>2, <2>4, <2>5 DEF Start, EndsLinking, Ends
  <2>6. CASE Started \/ Crash \/ UNCHANGED activityVars
    BY <2>1, <2>3, <2>4, <2>6 DEF Started, Crash, activityVars
  <2> QED BY <2>5, <2>6
<1>6. RowsInv' /\ TurnsInv'
  BY <1>1, <1>2, <1>4, <1>5 DEF NamesInv, RowsInv, TurnsInv
<1> QED BY <1>3, <1>6 DEF RestInv

LEMMA NamesStep == NamesInv /\ [ActivityNext]_activityVars => NamesInv'
<1> SUFFICES ASSUME NamesInv, [ActivityNext]_activityVars PROVE NamesInv'
  OBVIOUS
<1>1. ActivitiesInv'
  BY StepInv DEF NamesInv
<1>2. CASE Message
  <2>1. ASSUME NEW result \in SUBSET Open, Up, OtherTurn(result) PROVE RestInv'
    BY <2>1, OtherTurnRest
  <2>2. ASSUME NEW t \in Live, NEW open \in BOOLEAN, NEW day \in Times \cup {Unset},
               Up, ChangeByButton(t, open, day)
        PROVE  RestInv'
    BY <2>2, ButtonRest
  <2>3. ASSUME NEW t \in Live, NEW title \in Title, NEW selected \in BOOLEAN,
               Up, RenameTask(t, title, selected)
        PROVE  RestInv'
    BY <2>3, RenameRest
  <2>4. ASSUME NEW i \in DOMAIN log, Up, UndoButton(i) PROVE RestInv'
    BY <2>4, UndoButtonRest
  <2>5. ASSUME NEW a \in Open, NEW b \in Open, NEW t \in Unused, NEW pair,
               Up, Merge(pair, a, b, t)
        PROVE  RestInv'
    BY <2>5, MergeRest
  <2>6. ASSUME NEW t \in TaskId, Up, UndoText(t) PROVE RestInv'
    BY <2>6, UndoTextRest
  <2>7. RestInv'
    BY <1>2, <2>1, <2>2, <2>3, <2>4, <2>5, <2>6 DEF Message
  <2> QED BY <1>1, <2>7 DEF RestInv, NamesInv
<1>3. CASE \E t \in TaskId : Repair(t)
  <2>1. RestInv'
    BY <1>3, RepairRest
  <2> QED BY <1>1, <2>1 DEF RestInv, NamesInv
<1>4. CASE Start \/ Started \/ Crash \/ UNCHANGED activityVars
  <2>1. RestInv'
    BY <1>4, ProcessRest
  <2> QED BY <1>1, <2>1 DEF RestInv, NamesInv
<1> QED BY <1>2, <1>3, <1>4 DEF ActivityNext

LEMMA NamesInit == ActivityInit => NamesInv
<1> SUFFICES ASSUME ActivityInit PROVE NamesInv
  OBVIOUS
<1>1. ActivitiesInv
  BY InitInv
<1>2. PICK rows \in FirstRows : tasks = rows.tasks /\ meetings = rows.meetings
  BY DEF ActivityInit
<1>3. tasks \in [Live -> TaskRow] /\ meetings \in [Meeting -> MeetingRow]
  BY <1>2, DataAssumption DEF Live
<1>4. /\ log = <<>> /\ fresh = {} /\ todo = {} /\ last = {} /\ turn = {}
      /\ phase = "down" /\ read = NoRows /\ handled = 0 /\ crashes = 0
  BY DEF ActivityInit
<1>5. DOMAIN log = {}
  BY <1>4
<1>6. TurnsInv
  BY <1>4, DataAssumption DEF TurnsInv
<1> QED BY <1>1, <1>3, <1>4, <1>5, <1>6 DEF NamesInv, EventsInv, RowsInv, FreshInv

\* Events hold what they need to be undone, and the rows of a fresh rename are
\* as it wrote them.
THEOREM NamesInvariant == ActivitySpec => []NamesInv
BY NamesInit, NamesStep, PTL DEF ActivitySpec

\* Type correctness.
THEOREM ActivitiesTyped == ActivitySpec => []ActivityTypeOK
BY NamesInvariant, NamesTyped, PTL

\* A step that undoes a fresh rename is UndoRename of that very event.
LEMMA UndoneStep ==
  ASSUME NamesInv, [ActivityNext]_activityVars, NEW i \in fresh, i \in undone' \ undone
  PROVE  LET e == log[i] IN
         /\ e.task \in Live => SameName(tasks[e.task], e.after)
         /\ e.task \in Live' => SameName(tasks'[e.task], e.before)
         /\ \A m \in DOMAIN e.meetings : /\ SameName(meetings[m], e.after)
                                          /\ SameName(meetings'[m], e.meetings[m])
<1>1. log[i].kind = "rename" /\ AsWritten(i) /\ i \in DOMAIN log
  BY DEF NamesInv, FreshInv, EventsInv
<1>2. undone' # undone
  OBVIOUS
<1>3. UndoRename(i)
  <2>1. ASSUME NEW j, UndoRename(j) PROVE i = j
    BY <2>1 DEF UndoRename
  <2>2. ASSUME NEW j, NEW t, j \in ToUndo("merge", t), UndoMerge(j) PROVE FALSE
    <3>1. i = j
      BY <2>2 DEF UndoMerge
    <3> QED BY <1>1, <2>2, <3>1 DEF ToUndo, Newest
  <2>3. CASE Message
    BY <1>2, <2>1, <2>2, <2>3
    DEF Message, OtherTurn, ChangeByButton, RenameTask, Merge, UndoButton, UndoText
  <2>4. CASE ~Message
    BY <1>2, <2>4 DEF ActivityNext, Crash, Start, Started, Repair, activityVars
  <2> QED BY <2>3, <2>4
<1>4. /\ Live' = Live
      /\ log[i].task \in Live => SameName(tasks'[log[i].task], log[i].before)
      /\ \A m \in DOMAIN log[i].meetings : SameName(meetings'[m], log[i].meetings[m])
  BY <1>1, <1>3, UndoneRows
<1> QED BY <1>1, <1>4 DEF AsWritten

\* The undo of a rename none of whose rows was renamed since takes back what it
\* wrote and nothing else, whatever else happened in between (rename_task,
\* undo_event).  Of a rename whose rows were renamed again it says nothing: that
\* undo writes over the later names.
THEOREM UndoTakesBack == ActivitySpec => UndoRestores
<1> DEFINE Step ==
      \A i \in fresh \cap (undone' \ undone) :
        LET e == log[i] IN
        /\ e.task \in Live => SameName(tasks[e.task], e.after)
        /\ e.task \in Live' => SameName(tasks'[e.task], e.before)
        /\ \A m \in DOMAIN e.meetings : /\ SameName(meetings[m], e.after)
                                         /\ SameName(meetings'[m], e.meetings[m])
<1>1. NamesInv /\ [ActivityNext]_activityVars => Step
  <2> SUFFICES ASSUME NamesInv, [ActivityNext]_activityVars,
                      NEW i \in fresh, i \in undone' \ undone
               PROVE  LET e == log[i] IN
                      /\ e.task \in Live => SameName(tasks[e.task], e.after)
                      /\ e.task \in Live' => SameName(tasks'[e.task], e.before)
                      /\ \A m \in DOMAIN e.meetings : /\ SameName(meetings[m], e.after)
                                                       /\ SameName(meetings'[m], e.meetings[m])
    OBVIOUS
  <2> QED BY UndoneStep
<1> HIDE DEF Step
<1>2. ActivitySpec => [][Step]_activityVars
  BY <1>1, NamesInvariant, PTL DEF ActivitySpec
<1> QED BY <1>2 DEF Step, UndoRestores
=============================================================================
