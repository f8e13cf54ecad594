------------------------- MODULE SendablePoolProofs -------------------------
(***************************************************************************)
(* Proofs about SendablePool for every finite set of connections and every *)
(* number of sendables: what is counted, where each sendable is, and that  *)
(* the user never fills in a content that somebody still sends.            *)
(***************************************************************************)
EXTENDS SendablePool, FiniteSetTheorems, TLAPS

(***************************************************************************)
(* Type correctness                                                        *)
(***************************************************************************)

Values == {NULL} \union Sendables

LEMMA PointerNames ==
  /\ Content_ \in Pointers /\ Shared \in Pointers /\ Content_ # Shared
  /\ \A t \in Targets :
       /\ Handed(t) \in Pointers /\ Local(t) \in Pointers
       /\ Handed(t) # Content_ /\ Local(t) # Content_
       /\ Handed(t) # Shared /\ Local(t) # Shared /\ Handed(t) # Local(t)
BY PoolAssumption DEF Content_, Shared, Handed, Local, Pointers

\* What every exchange of pointers keeps: the types of the pool.
PoolType ==
  /\ ptr \in [Pointers -> Values]
  /\ ref_count \in [Sendables -> Nat]
  /\ releasing \in [Threads -> Values]

\* A pointer that points somewhere is counted.
Positive == \A p \in Pointers : ptr[p] # NULL => ref_count[ptr[p]] > 0

LEMMA AssignType ==
  ASSUME PoolType, Positive, NEW th \in Threads, NEW p \in Pointers,
         NEW s \in Values, Assign(th, p, s)
  PROVE  PoolType'
<1>1. ref_count' \in [Sendables -> Nat]
  <2>1. ref_count' = Counted(p, s)
    BY DEF Assign
  <2>2. \A x \in Sendables : Counted(p, s)[x] \in Nat
    BY DEF PoolType, Positive, Counted, Sendables, NULL, Values
  <2> QED
    BY <2>1, <2>2 DEF Counted
<1>2. ptr' \in [Pointers -> Values]
  BY DEF Assign, PoolType
<1>3. releasing' \in [Threads -> Values]
  BY DEF Assign, PoolType, Dropped, Values
<1> QED
  BY <1>1, <1>2, <1>3 DEF PoolType

(***************************************************************************)
(* Counts: one exchange keeps every count right                            *)
(***************************************************************************)

LEMMA PointersFinite == IsFiniteSet(Pointers)
<1> DEFINE Kinds == {"p_sendable", "p_local_sendable"}
<1>1. IsFiniteSet(Kinds)
  <2>1. IsFiniteSet({"p_sendable"})
    BY FS_Singleton
  <2>2. Kinds = {"p_sendable"} \union {"p_local_sendable"}
    OBVIOUS
  <2> QED
    BY <2>1, <2>2, FS_AddElement
<1>2. IsFiniteSet(Kinds \X Targets)
  BY <1>1, FS_Product, PoolAssumption
<1>3. IsFiniteSet((Kinds \X Targets) \union {Content_})
  BY <1>2, FS_AddElement
<1>4. IsFiniteSet(((Kinds \X Targets) \union {Content_}) \union {Shared})
  BY <1>3, FS_AddElement
<1>5. Pointers = ((Kinds \X Targets) \union {Content_}) \union {Shared}
  BY DEF Pointers, Content_, Shared
<1> QED
  BY <1>4, <1>5

LEMMA PointersToFinite ==
  ASSUME NEW s
  PROVE  IsFiniteSet(PointersTo(s))
BY PointersFinite, FS_Subset DEF PointersTo

\* The last pointer and the first one, in terms of the count.
LEMMA CountFacts ==
  ASSUME CountsPointers, NEW s \in Sendables
  PROVE  /\ ref_count[s] = 0 <=> PointersTo(s) = {}
         /\ ref_count[s] = 1 => \E p : PointersTo(s) = {p}
BY PointersToFinite, FS_EmptySet, FS_Singleton DEF CountsPointers

LEMMA CountsPositive ==
  ASSUME PoolType, CountsPointers
  PROVE  Positive
<1> SUFFICES ASSUME NEW p \in Pointers, ptr[p] # NULL
             PROVE  ref_count[ptr[p]] > 0
  BY DEF Positive
<1>1. ptr[p] \in Sendables
  BY DEF PoolType, Values
<1>2. p \in PointersTo(ptr[p])
  BY DEF PointersTo
<1>3. ref_count[ptr[p]] # 0
  BY <1>1, <1>2, CountFacts
<1> QED
  BY <1>1, <1>3 DEF PoolType

LEMMA AssignCounts ==
  ASSUME PoolType, CountsPointers, NEW th \in Threads, NEW p \in Pointers,
         NEW s \in Values, Assign(th, p, s)
  PROVE  CountsPointers'
<1> SUFFICES ASSUME NEW x \in Sendables
             PROVE  ref_count'[x] = Cardinality(PointersTo(x)')
  BY DEF CountsPointers
<1>0. /\ ptr' = [ptr EXCEPT ![p] = s]
      /\ ref_count' = Counted(p, s)
      /\ ptr \in [Pointers -> Values]
      /\ ref_count[x] \in Nat
      /\ ref_count[x] = Cardinality(PointersTo(x))
  BY DEF Assign, PoolType, CountsPointers
<1>1. IsFiniteSet(PointersTo(x))
  BY PointersToFinite
<1>2. CASE ptr[p] = x /\ s = x
  <2>1. PointersTo(x)' = PointersTo(x)
    BY <1>0, <1>2 DEF PointersTo
  <2>2. Counted(p, s)[x] = (ref_count[x] + 1) - 1
    BY <1>2 DEF Counted
  <2> QED
    BY <1>0, <2>1, <2>2
<1>3. CASE ptr[p] = x /\ s # x
  <2>1. PointersTo(x)' = PointersTo(x) \ {p} /\ p \in PointersTo(x)
    BY <1>0, <1>3 DEF PointersTo
  <2>2. Cardinality(PointersTo(x)') = ref_count[x] - 1
    BY <1>0, <1>1, <2>1, FS_RemoveElement
  <2> QED
    BY <1>0, <1>3, <2>2 DEF Counted
<1>4. CASE ptr[p] # x /\ s = x
  <2>1. PointersTo(x)' = PointersTo(x) \union {p} /\ p \notin PointersTo(x)
    BY <1>0, <1>4 DEF PointersTo
  <2>2. Cardinality(PointersTo(x) \union {p}) = Cardinality(PointersTo(x)) + 1
    BY <1>1, <2>1, FS_AddElement
  <2>3. Counted(p, s)[x] = ref_count[x] + 1
    BY <1>4 DEF Counted
  <2> QED
    BY <1>0, <2>1, <2>2, <2>3
<1>5. CASE ptr[p] # x /\ s # x
  <2>1. PointersTo(x)' = PointersTo(x)
    BY <1>0, <1>5 DEF PointersTo
  <2> QED
    BY <1>0, <1>5, <2>1 DEF Counted
<1> QED
  BY <1>2, <1>3, <1>4, <1>5

(***************************************************************************)
(* The steps of the pool                                                   *)
(***************************************************************************)

\* Every step that moves a pointer sets it to null, to the sendable the user
\* just got, or to what another pointer points to.
Exchange(th, p, s) ==
  /\ Assign(th, p, s)
  /\ UNCHANGED list
  /\ \/ /\ user = "got" /\ p = Content_ /\ s = got
        /\ got' = NULL /\ user' = "content"
     \/ /\ got' = got
        /\ user' = "got" <=> user = "got"
        /\ user' = "content" => user = "content" /\ p # Content_
        /\ \/ s = NULL
           \/ \E q \in Pointers \ {p} :
                /\ s = ptr[q]
                /\ user' = "content" => q # Content_

\* The other steps of threads leave the pool alone.
Elsewhere ==
  /\ UNCHANGED <<pool, list, got>>
  /\ user' = "got" <=> user = "got"
  /\ user' = "content" => user = "content"

PoolSteps ==
  \/ \E th \in Threads, p \in Pointers, s \in Values : Exchange(th, p, s)
  \/ \E th \in Threads : TakeBack(th)
  \/ Content
  \/ Elsewhere

LEMMA ConnectionSteps ==
  ASSUME TypeOK, NEW t \in Targets, Connection(t) \/ Attach(t) \/ Stop(t) \/ Delete(t)
  PROVE  PoolSteps
<1>0. /\ ptr \in [Pointers -> Values] /\ NULL \in Values
      /\ t \in Threads /\ "port" \in Threads
  BY DEF TypeOK, Values, Threads
<1>1. CASE Take(t)
  <2>1. Exchange(t, Local(t), ptr[Handed(t)])
    BY <1>1, PointerNames DEF Take, Exchange, userVars
  <2> QED
    BY <1>0, <2>1, PointerNames DEF PoolSteps
<1>2. CASE Taken(t)
  <2>1. Exchange(t, Handed(t), NULL)
    BY <1>2, PointerNames DEF Taken, Exchange, userVars
  <2> QED
    BY <1>0, <2>1, PointerNames DEF PoolSteps
<1>3. CASE DropLocal(t)
  <2>1. Exchange(t, Local(t), NULL)
    BY <1>3, PointerNames DEF DropLocal, Exchange, userVars
  <2> QED
    BY <1>0, <2>1, PointerNames DEF PoolSteps
<1>4. CASE Delete(t)
  <2>1. Exchange("port", Handed(t), NULL)
    BY <1>4, PointerNames DEF Delete, Exchange, userVars
  <2> QED
    BY <1>0, <2>1, PointerNames DEF PoolSteps
<1>5. CASE Sent(t) \/ PostSpace(t) \/ Attach(t) \/ Stop(t)
  BY <1>5 DEF Sent, PostSpace, Attach, Stop, PoolSteps, Elsewhere, userVars
<1> QED
  BY <1>1, <1>2, <1>3, <1>4, <1>5 DEF Connection

LEMMA EveryStep ==
  ASSUME TypeOK, [Next]_vars
  PROVE  PoolSteps
<1>0. /\ ptr \in [Pointers -> Values] /\ NULL \in Values /\ got \in Values
      /\ "user" \in Threads /\ "tsender" \in Threads
  BY DEF TypeOK, Values, Threads
<1>1. CASE SetContent
  <2>1. Exchange("user", Content_, got)
    BY <1>1 DEF SetContent, Exchange
  <2> QED
    BY <1>0, <2>1, PointerNames DEF PoolSteps
<1>2. CASE Share
  <2>1. Exchange("user", Shared, ptr[Content_])
    BY <1>2, PointerNames DEF Share, Exchange
  <2> QED
    BY <1>0, <2>1, PointerNames DEF PoolSteps
<1>3. CASE ResetContent
  <2>1. Exchange("user", Content_, NULL)
    BY <1>3 DEF ResetContent, Exchange
  <2> QED
    BY <1>0, <2>1, PointerNames DEF PoolSteps
<1>4. CASE EndWalk
  <2>1. Exchange("tsender", Shared, NULL)
    BY <1>4, PointerNames DEF EndWalk, Exchange, userVars
  <2> QED
    BY <1>0, <2>1, PointerNames DEF PoolSteps
<1>5. ASSUME NEW t \in Targets, Hand(t)
      PROVE  PoolSteps
  <2>1. Exchange("tsender", Handed(t), ptr[Shared])
    BY <1>5, PointerNames DEF Hand, Exchange, userVars
  <2> QED
    BY <1>0, <2>1, PointerNames DEF PoolSteps
<1>6. CASE Write \/ WaitOkay \/ PulseGo
  BY <1>6 DEF Write, WaitOkay, PulseGo, PoolSteps, Elsewhere
<1>7. CASE StartWalk \/ OkayToSend
  BY <1>7 DEF StartWalk, OkayToSend, PoolSteps, Elsewhere, userVars
<1>8. ASSUME NEW t \in Targets,
             Choose(t) \/ AwaitSpace(t) \/ Skip(t) \/ Enter(t)
      PROVE  PoolSteps
  BY <1>8 DEF Choose, AwaitSpace, Skip, Enter, PoolSteps, Elsewhere, userVars
<1>9. CASE UNCHANGED vars
  BY <1>9 DEF vars, PoolSteps, Elsewhere, userVars
<1> QED
  BY <1>1, <1>2, <1>3, <1>4, <1>5, <1>6, <1>7, <1>8, <1>9, ConnectionSteps
  DEF Next, UserThread, SenderThread, PoolSteps

(***************************************************************************)
(* Where each sendable is: the inductive invariant                         *)
(***************************************************************************)

\* An entry of the list is there once, and nobody else knows it.
Listed ==
  \A s \in Sendables : in_list[s] # 0 =>
    /\ in_list[s] = 1 /\ s <= allocated /\ s # got
    /\ \A p \in Pointers : ptr[p] # s
    /\ \A th \in Threads : releasing[th] # s

\* A sendable on its way back to the list is in the hands of one thread.
Released ==
  \A th \in Threads : releasing[th] # NULL =>
    /\ releasing[th] <= allocated /\ releasing[th] # got
    /\ \A p \in Pointers : ptr[p] # releasing[th]
    /\ \A u \in Threads : releasing[u] = releasing[th] => u = th

\* A sendable that the user just took has no pointer yet.
Gotten ==
  /\ user = "got" <=> got # NULL
  /\ got # NULL => got <= allocated /\ \A p \in Pointers : ptr[p] # got

\* Pointers point to what was allocated.
Pointed == \A p \in Pointers : ptr[p] # NULL => ptr[p] <= allocated

\* None is lost.
Somewhere ==
  \A s \in Sendables : s <= allocated =>
    \/ in_list[s] # 0
    \/ s = got
    \/ \E p \in Pointers : ptr[p] = s
    \/ \E th \in Threads : releasing[th] = s

\* What the user fills in has one pointer.
Owned ==
  user = "content" =>
    /\ ptr[Content_] # NULL
    /\ \A p \in Pointers : ptr[p] = ptr[Content_] => p = Content_

\* WriterOwnsContent is about one pointer; that nobody else comes to the same
\* sendable needs to know where every sendable is.
IInv ==
  TypeOK /\ CountsPointers
  /\ Listed /\ Released /\ Gotten /\ Pointed /\ Somewhere /\ Owned

\* A sendable is dropped with its last pointer, and only then.
LEMMA DroppedFacts ==
  ASSUME PoolType, CountsPointers, NEW p \in Pointers
  PROVE  /\ Dropped(p) # NULL =>
              /\ Dropped(p) = ptr[p] /\ Dropped(p) \in Sendables
              /\ \A q \in Pointers : ptr[q] = ptr[p] => q = p
         /\ ptr[p] # NULL /\ Dropped(p) = NULL =>
              \E q \in Pointers \ {p} : ptr[q] = ptr[p]
<1>0. CASE ptr[p] = NULL
  BY <1>0 DEF Dropped
<1>1. CASE ptr[p] # NULL
  <2>1. ptr[p] \in Sendables /\ p \in PointersTo(ptr[p])
    BY <1>1 DEF PoolType, Values, PointersTo
  <2>2. CASE ref_count[ptr[p]] = 1
    <3>1. PointersTo(ptr[p]) = {p}
      BY <2>1, <2>2, CountFacts
    <3> QED
      BY <1>1, <2>1, <2>2, <3>1 DEF Dropped, PointersTo
  <2>3. CASE ref_count[ptr[p]] # 1
    <3>1. PointersTo(ptr[p]) # {p}
      BY <2>1, <2>3, FS_Singleton DEF CountsPointers
    <3>2. \E q \in Pointers \ {p} : ptr[q] = ptr[p]
      BY <2>1, <3>1 DEF PointersTo
    <3> QED
      BY <1>1, <2>3, <3>2 DEF Dropped
  <2> QED
    BY <2>2, <2>3
<1> QED
  BY <1>0, <1>1

Located == Listed /\ Released /\ Gotten /\ Pointed /\ Somewhere /\ Owned

\* An exchange moves a sendable from where it is to a pointer, and what is
\* dropped to the thread that dropped it.
LEMMA ExchangeKeepsPlaces ==
  ASSUME IInv, NEW th \in Threads, NEW p \in Pointers, NEW s \in Values,
         Exchange(th, p, s)
  PROVE  Located'
<1> DEFINE d == Dropped(p)
<1>1. /\ ptr' = [ptr EXCEPT ![p] = s]
      /\ releasing[th] = NULL
      /\ releasing' = [releasing EXCEPT ![th] = d]
      /\ allocated' = allocated /\ in_list' = in_list
  BY DEF Exchange, Assign, list
<1>2. /\ ptr \in [Pointers -> Values] /\ releasing \in [Threads -> Values]
      /\ got \in Values /\ allocated \in Nat /\ PoolType
      /\ in_list \in [Sendables -> Nat]
      /\ NULL \notin Sendables
  BY PoolAssumption DEF IInv, TypeOK, PoolType, Values, NULL, Sendables
<1>3. /\ d # NULL => /\ d = ptr[p] /\ d \in Sendables
                     /\ \A q \in Pointers : ptr[q] = ptr[p] => q = p
      /\ ptr[p] # NULL /\ d = NULL =>
           \E q \in Pointers \ {p} : ptr[q] = ptr[p]
  BY <1>2, DroppedFacts DEF IInv
<1>4. /\ Listed /\ Released /\ Gotten /\ Pointed /\ Somewhere /\ Owned
  BY DEF IInv
<1>5. s # NULL => /\ s \in Sendables /\ s <= allocated /\ in_list[s] = 0
                  /\ \A u \in Threads : releasing[u] # s
                  /\ s # d /\ s # got'
  <2>1. CASE user = "got" /\ s = got /\ got' = NULL
    BY <1>2, <1>3, <1>4, <2>1 DEF Listed, Released, Gotten, Values
  <2>2. ASSUME NEW q \in Pointers \ {p}, s = ptr[q], got' = got
        PROVE  s # NULL => /\ s \in Sendables /\ s <= allocated /\ in_list[s] = 0
                           /\ \A u \in Threads : releasing[u] # s
                           /\ s # d /\ s # got'
    BY <1>2, <1>3, <1>4, <2>2 DEF Listed, Released, Gotten, Pointed, Values
  <2> QED
    BY <2>1, <2>2 DEF Exchange
<1>6. /\ got' = got \/ (got' = NULL /\ s = got)
      /\ user' = "got" <=> got' # NULL
  BY <1>4 DEF Exchange, Gotten
<1>7. Listed'
  BY <1>1, <1>2, <1>3, <1>4, <1>5, <1>6 DEF Listed, Gotten, Values
<1>8. Released'
  <2> SUFFICES ASSUME NEW u \in Threads, releasing'[u] # NULL
               PROVE  /\ releasing'[u] <= allocated /\ releasing'[u] # got'
                      /\ \A q \in Pointers : ptr'[q] # releasing'[u]
                      /\ \A v \in Threads : releasing'[v] = releasing'[u] => v = u
    BY <1>1 DEF Released
  <2>1. CASE u = th
    <3>1. releasing'[u] = d /\ d = ptr[p]
      BY <1>1, <1>2, <1>3, <2>1
    <3>2. d <= allocated /\ d # got'
      BY <1>4, <1>6, <2>1, <3>1 DEF Pointed, Gotten
    <3>3. \A q \in Pointers : ptr'[q] # d
      BY <1>1, <1>2, <1>3, <1>5, <3>1, <2>1
    <3>4. \A v \in Threads : releasing'[v] = d => v = u
      BY <1>1, <1>2, <1>4, <2>1, <3>1 DEF Released
    <3> QED
      BY <3>1, <3>2, <3>3, <3>4
  <2>2. CASE u # th
    <3>1. releasing'[u] = releasing[u]
      BY <1>1, <1>2, <2>2
    <3>2. releasing[u] <= allocated /\ releasing[u] # got'
      BY <1>4, <1>6, <3>1 DEF Released
    <3>3. \A q \in Pointers : ptr'[q] # releasing[u]
      BY <1>1, <1>2, <1>4, <1>5, <3>1 DEF Released
    <3>4. \A v \in Threads : releasing'[v] = releasing[u] => v = u
      BY <1>1, <1>2, <1>3, <1>4, <3>1 DEF Released
    <3> QED
      BY <3>1, <3>2, <3>3, <3>4
  <2> QED
    BY <2>1, <2>2
<1>9. Gotten'
  BY <1>1, <1>2, <1>4, <1>5, <1>6 DEF Gotten
<1>10. Pointed'
  BY <1>1, <1>2, <1>4, <1>5 DEF Pointed
<1>11. Somewhere'
  <2> SUFFICES ASSUME NEW x \in Sendables, x <= allocated
               PROVE  \/ in_list'[x] # 0
                      \/ x = got'
                      \/ \E q \in Pointers : ptr'[q] = x
                      \/ \E u \in Threads : releasing'[u] = x
    BY <1>1 DEF Somewhere
  <2>1. CASE in_list[x] # 0
    BY <1>1, <2>1
  <2>2. CASE x = got
    BY <1>1, <1>2, <1>6, <2>2
  <2>3. ASSUME NEW q \in Pointers, ptr[q] = x
        PROVE  \/ \E r \in Pointers : ptr'[r] = x
               \/ \E u \in Threads : releasing'[u] = x
    <3>1. CASE q # p
      BY <1>1, <1>2, <2>3, <3>1
    <3>2. CASE q = p /\ d = NULL
      BY <1>1, <1>2, <1>3, <2>3, <3>2
    <3>3. CASE q = p /\ d # NULL
      BY <1>1, <1>2, <1>3, <2>3, <3>3
    <3> QED
      BY <3>1, <3>2, <3>3
  <2>4. ASSUME NEW u \in Threads, releasing[u] = x
        PROVE  \E v \in Threads : releasing'[v] = x
    BY <1>1, <1>2, <2>4
  <2> QED
    BY <1>4, <2>1, <2>2, <2>3, <2>4 DEF Somewhere
<1>12. Owned'
  <2>0. Content_ \in Pointers
    BY PointerNames
  <2>1. CASE user = "got" /\ p = Content_ /\ s = got
    BY <1>1, <1>2, <1>4, <2>0, <2>1 DEF Owned, Gotten
  <2>2. CASE /\ user' = "content" => user = "content" /\ p # Content_
             /\ s = NULL
    BY <1>1, <1>2, <1>4, <2>0, <2>2 DEF Owned
  <2>3. ASSUME user' = "content" => user = "content" /\ p # Content_,
               NEW q \in Pointers \ {p}, s = ptr[q],
               user' = "content" => q # Content_
        PROVE  Owned'
    BY <1>1, <1>2, <1>4, <2>0, <2>3 DEF Owned
  <2> QED
    BY <2>1, <2>2, <2>3 DEF Exchange
<1> QED
  BY <1>7, <1>8, <1>9, <1>10, <1>11, <1>12 DEF Located

\* The user takes a sendable that nobody else knows.
LEMMA Fresh ==
  ASSUME IInv, NEW s \in Sendables, Reuse(s) \/ Allocate(s)
  PROVE  /\ \A p \in Pointers : ptr[p] # s
         /\ \A th \in Threads : releasing[th] # s
         /\ s <= allocated' /\ allocated <= allocated'
         /\ allocated' \in 0..MaxSendables
         /\ in_list'[s] = 0
         /\ \A x \in Sendables : x # s => in_list'[x] = in_list[x]
         /\ \A x \in Sendables : x <= allocated' => x <= allocated \/ x = s
<1>1. /\ ptr \in [Pointers -> Values] /\ releasing \in [Threads -> Values]
      /\ allocated \in 0..MaxSendables /\ in_list \in [Sendables -> Nat]
      /\ MaxSendables \in Nat /\ NULL \notin Sendables
      /\ Listed /\ Released /\ Pointed
  BY PoolAssumption DEF IInv, TypeOK, Values, NULL, Sendables
<1>2. CASE Reuse(s)
  BY <1>1, <1>2 DEF Reuse, Listed, Sendables
<1>3. CASE Allocate(s)
  <2>1. s = allocated + 1 /\ allocated' = s /\ in_list' = in_list
    BY <1>3 DEF Allocate
  <2>2. \A x \in Sendables : in_list[x] = 0
    BY <1>3 DEF Allocate
  <2>3. \A p \in Pointers : ptr[p] # s
    BY <1>1, <2>1 DEF Pointed
  <2>4. \A th \in Threads : releasing[th] # s
    BY <1>1, <2>1 DEF Released
  <2> QED
    BY <1>1, <2>1, <2>2, <2>3, <2>4 DEF Sendables
<1> QED
  BY <1>2, <1>3

LEMMA ContentKeepsPlaces ==
  ASSUME IInv, Content
  PROVE  CountsPointers' /\ Located'
<1>1. PICK s \in Sendables : /\ Reuse(s) \/ Allocate(s)
                             /\ ref_count' = [ref_count EXCEPT ![s] = 0]
                             /\ got' = s
  BY DEF Content
<1>2. /\ ptr' = ptr /\ releasing' = releasing
      /\ user = "idle" /\ user' = "got"
  BY DEF Content
<1>3. /\ ref_count \in [Sendables -> Nat] /\ allocated \in Nat
      /\ NULL \notin Sendables /\ releasing \in [Threads -> Values]
      /\ ptr \in [Pointers -> Values]
      /\ CountsPointers /\ Listed /\ Released /\ Gotten /\ Pointed /\ Somewhere
  BY PoolAssumption DEF IInv, TypeOK, Values, NULL, Sendables
<1>4. /\ \A p \in Pointers : ptr[p] # s
      /\ \A th \in Threads : releasing[th] # s
      /\ s <= allocated' /\ allocated <= allocated'
      /\ allocated' \in Nat
      /\ in_list'[s] = 0
      /\ \A x \in Sendables : x # s => in_list'[x] = in_list[x]
      /\ \A x \in Sendables : x <= allocated' => x <= allocated \/ x = s
  BY <1>1, Fresh, PoolAssumption
<1>5. got = NULL
  BY <1>2, <1>3 DEF Gotten
<1>6. CountsPointers'
  <2> SUFFICES ASSUME NEW x \in Sendables
               PROVE  ref_count'[x] = Cardinality(PointersTo(x)')
    BY DEF CountsPointers
  <2>0. PointersTo(x)' = PointersTo(x)
    BY <1>2 DEF PointersTo
  <2>1. CASE x = s
    <3>1. PointersTo(x) = {}
      BY <1>4, <2>1 DEF PointersTo
    <3> QED
      BY <1>1, <1>3, <2>0, <2>1, <3>1, FS_EmptySet
  <2>2. CASE x # s
    BY <1>1, <1>3, <2>0, <2>2 DEF CountsPointers
  <2> QED
    BY <2>1, <2>2
<1>7. Listed'
  BY <1>1, <1>2, <1>3, <1>4 DEF Listed, Sendables
<1>8. Released'
  BY <1>1, <1>2, <1>3, <1>4 DEF Released, Values, Sendables
<1>9. Gotten'
  BY <1>1, <1>2, <1>3, <1>4 DEF Gotten
<1>10. Pointed'
  BY <1>2, <1>3, <1>4 DEF Pointed, Values, Sendables
<1>11. Somewhere'
  BY <1>1, <1>2, <1>3, <1>4, <1>5 DEF Somewhere
<1>12. Owned'
  BY <1>2 DEF Owned
<1> QED
  BY <1>6, <1>7, <1>8, <1>9, <1>10, <1>11, <1>12 DEF Located

LEMMA TakeBackKeepsPlaces ==
  ASSUME IInv, NEW th \in Threads, TakeBack(th)
  PROVE  CountsPointers' /\ Located'
<1> DEFINE s == releasing[th]
<1>1. /\ s # NULL
      /\ in_list' = [in_list EXCEPT ![s] = in_list[s] + 1]
      /\ releasing' = [releasing EXCEPT ![th] = NULL]
      /\ ptr' = ptr /\ ref_count' = ref_count /\ allocated' = allocated
      /\ got' = got /\ user' = user
  BY DEF TakeBack, userVars
<1>2. /\ releasing \in [Threads -> Values] /\ s \in Sendables
      /\ in_list \in [Sendables -> Nat] /\ NULL \notin Sendables
      /\ CountsPointers /\ Listed /\ Released /\ Gotten /\ Pointed
      /\ Somewhere /\ Owned
  BY <1>1, PoolAssumption DEF IInv, TypeOK, Values, NULL, Sendables
<1>3. /\ in_list[s] = 0 /\ s <= allocated /\ s # got
      /\ \A p \in Pointers : ptr[p] # s
      /\ \A u \in Threads : u # th => releasing[u] # s
  BY <1>1, <1>2 DEF Listed, Released
<1>4. CountsPointers'
  BY <1>1, <1>2 DEF CountsPointers, PointersTo
<1>5. Listed'
  BY <1>1, <1>2, <1>3 DEF Listed
<1>6. Released'
  BY <1>1, <1>2, <1>3 DEF Released
<1>7. Gotten' /\ Pointed' /\ Owned'
  BY <1>1, <1>2 DEF Gotten, Pointed, Owned
<1>8. Somewhere'
  <2> SUFFICES ASSUME NEW x \in Sendables, x <= allocated
               PROVE  \/ in_list'[x] # 0
                      \/ x = got
                      \/ \E p \in Pointers : ptr[p] = x
                      \/ \E u \in Threads : releasing'[u] = x
    BY <1>1 DEF Somewhere
  <2>1. CASE x = s
    BY <1>1, <1>2, <1>3, <2>1
  <2>2. CASE x # s
    BY <1>1, <1>2, <2>2 DEF Somewhere
  <2> QED
    BY <2>1, <2>2
<1> QED
  BY <1>4, <1>5, <1>6, <1>7, <1>8 DEF Located

(***************************************************************************)
(* Every step keeps the types and the places                               *)
(***************************************************************************)

LEMMA TypeKept ==
  ASSUME IInv, [Next]_vars
  PROVE  TypeOK'
<1>0. /\ TypeOK /\ PoolType /\ Positive
      /\ ptr \in [Pointers -> Values] /\ got \in Values /\ NULL \in Values
      /\ {"user", "tsender", "port"} \subseteq Threads /\ Targets \subseteq Threads
      /\ "none" \notin Targets
  BY CountsPositive, PoolAssumption
  DEF IInv, TypeOK, PoolType, Values, Threads
<1>1. CASE SetContent
  <2>1. PoolType'
    BY <1>0, <1>1, AssignType, PointerNames DEF SetContent
  <2> QED
    BY <1>0, <1>1, <2>1 DEF SetContent, TypeOK, PoolType, Values, userVars, list,
      walk, connections
<1>2. CASE Share
  <2>1. PoolType'
    BY <1>0, <1>2, AssignType, PointerNames DEF Share
  <2> QED
    BY <1>0, <1>2, <2>1 DEF Share, TypeOK, PoolType, Values, userVars, list,
      walk, connections
<1>3. CASE ResetContent
  <2>1. PoolType'
    BY <1>0, <1>3, AssignType, PointerNames DEF ResetContent
  <2> QED
    BY <1>0, <1>3, <2>1 DEF ResetContent, TypeOK, PoolType, Values, userVars, list,
      walk, connections
<1>4. CASE EndWalk
  <2>1. PoolType'
    BY <1>0, <1>4, AssignType, PointerNames DEF EndWalk
  <2> QED
    BY <1>0, <1>4, <2>1 DEF EndWalk, TypeOK, PoolType, Values, userVars, list,
      walk, connections
<1>5. ASSUME NEW t \in Targets, Hand(t)
      PROVE  TypeOK'
  <2>1. PoolType'
    BY <1>0, <1>5, AssignType, PointerNames DEF Hand
  <2> QED
    BY <1>0, <1>5, <2>1 DEF Hand, TypeOK, PoolType, Values, userVars, list,
      walk, connections
<1>6. ASSUME NEW t \in Targets, Take(t)
      PROVE  TypeOK'
  <2>1. PoolType'
    BY <1>0, <1>6, AssignType, PointerNames DEF Take
  <2> QED
    BY <1>0, <1>6, <2>1 DEF Take, TypeOK, PoolType, Values, userVars, list,
      walk, connections
<1>7. ASSUME NEW t \in Targets, Taken(t)
      PROVE  TypeOK'
  <2>1. PoolType'
    BY <1>0, <1>7, AssignType, PointerNames DEF Taken
  <2> QED
    BY <1>0, <1>7, <2>1 DEF Taken, TypeOK, PoolType, Values, userVars, list,
      walk, connections
<1>8. ASSUME NEW t \in Targets, DropLocal(t)
      PROVE  TypeOK'
  <2>1. PoolType'
    BY <1>0, <1>8, AssignType, PointerNames DEF DropLocal
  <2> QED
    BY <1>0, <1>8, <2>1 DEF DropLocal, TypeOK, PoolType, Values, userVars, list,
      walk, connections
<1>9. ASSUME NEW t \in Targets, Delete(t)
      PROVE  TypeOK'
  <2>1. PoolType'
    BY <1>0, <1>9, AssignType, PointerNames DEF Delete
  <2> QED
    BY <1>0, <1>9, <2>1 DEF Delete, TypeOK, PoolType, Values, userVars, list,
      walk, connections
<1>10. CASE Content
  BY <1>0, <1>10, Fresh DEF Content, Reuse, Allocate, TypeOK, Values, Sendables,
    walk, connections
<1>11. ASSUME NEW th \in Threads, TakeBack(th)
      PROVE  TypeOK'
  BY <1>0, <1>11 DEF TakeBack, TypeOK, Values, userVars, walk, connections
<1>12. CASE Write \/ WaitOkay \/ PulseGo \/ StartWalk \/ OkayToSend
  <2>1. CASE Write
    <3>1. require_complete_send' \in BOOLEAN
      BY Zenon, <2>1, PoolAssumption DEF Write
    <3> QED
      BY <1>0, <2>1, <3>1 DEF Write, TypeOK, pool, list, walk, connections
  <2>2. CASE WaitOkay \/ PulseGo \/ StartWalk \/ OkayToSend
    BY <1>0, <2>2 DEF WaitOkay, PulseGo, StartWalk, OkayToSend, TypeOK, pool,
      list, userVars, walk, connections
  <2> QED
    BY <1>12, <2>1, <2>2
<1>13. ASSUME NEW t \in Targets,
             \/ Choose(t) \/ AwaitSpace(t) \/ Skip(t) \/ Enter(t)
             \/ Sent(t) \/ PostSpace(t)
      PROVE  TypeOK'
  <2>0. CASE Choose(t) \/ AwaitSpace(t)
    BY <1>0, <2>0 DEF Choose, AwaitSpace, TypeOK, pool, list, userVars,
      connections
  <2>1. CASE Skip(t)
    BY <1>0, <2>1 DEF Skip, TypeOK, pool, list, userVars, walk, connections
  <2>2. CASE Enter(t)
    BY <1>0, <2>2 DEF Enter, TypeOK, pool, list, userVars, walk, connections
  <2>3. CASE Sent(t)
    BY <1>0, <2>3 DEF Sent, TypeOK, pool, list, userVars, walk, connections
  <2>4. CASE PostSpace(t)
    BY <1>0, <2>4 DEF PostSpace, TypeOK, pool, list, userVars, walk, connections
  <2> QED
    BY <1>13, <2>0, <2>1, <2>2, <2>3, <2>4
<1>14. ASSUME NEW t \in Targets, Attach(t) \/ Stop(t)
      PROVE  TypeOK'
  <2>1. CASE Attach(t)
    BY <1>0, <2>1 DEF Attach, TypeOK, pool, list, userVars, walk, connections
  <2>2. CASE Stop(t)
    BY <1>0, <2>2 DEF Stop, TypeOK, pool, list, userVars, walk, connections
  <2> QED
    BY <1>14, <2>1, <2>2
<1>15. CASE UNCHANGED vars
  BY <1>0, <1>15 DEF vars, TypeOK, pool, list, userVars, walk, connections
<1> QED
  BY <1>0, <1>1, <1>2, <1>3, <1>4, <1>5, <1>6, <1>7, <1>8,
    <1>9, <1>10, <1>11, <1>12, <1>13, <1>14, <1>15
  DEF Next, UserThread, SenderThread, Connection

LEMMA PlacesKept ==
  ASSUME IInv, [Next]_vars
  PROVE  CountsPointers' /\ Located'
<1>1. PoolSteps
  BY EveryStep DEF IInv
<1>2. ASSUME NEW th \in Threads, NEW p \in Pointers, NEW s \in Values,
             Exchange(th, p, s)
      PROVE  CountsPointers' /\ Located'
  BY <1>2, ExchangeKeepsPlaces, AssignCounts
  DEF Exchange, IInv, TypeOK, PoolType, Values
<1>3. CASE Elsewhere
  <2>1. /\ ptr' = ptr /\ ref_count' = ref_count /\ releasing' = releasing
        /\ allocated' = allocated /\ in_list' = in_list /\ got' = got
        /\ user' = "got" <=> user = "got"
        /\ user' = "content" => user = "content"
    BY <1>3 DEF Elsewhere, pool, list
  <2>2. CountsPointers'
    BY <2>1 DEF IInv, CountsPointers, PointersTo
  <2>3. Listed' /\ Released' /\ Gotten' /\ Pointed'
    BY <2>1 DEF IInv, Listed, Released, Gotten, Pointed
  <2>4. Somewhere' /\ Owned'
    BY <2>1 DEF IInv, Somewhere, Owned
  <2> QED
    BY <2>2, <2>3, <2>4 DEF Located
<1> QED
  BY <1>1, <1>2, <1>3, TakeBackKeepsPlaces, ContentKeepsPlaces DEF PoolSteps

LEMMA InitHolds ==
  ASSUME Init
  PROVE  IInv
<1>1. /\ \A p \in Pointers : ptr[p] = NULL
      /\ \A s \in Sendables : ref_count[s] = 0 /\ in_list[s] = 0
      /\ \A th \in Threads : releasing[th] = NULL
      /\ allocated = 0 /\ got = NULL /\ user = "idle"
  BY DEF Init
<1>2. TypeOK
  <2>1. require_complete_send \in BOOLEAN
    BY Zenon DEF Init
  <2> QED
    BY <2>1, PoolAssumption DEF Init, TypeOK, Values, NULL
<1>3. CountsPointers
  <2> SUFFICES ASSUME NEW s \in Sendables
               PROVE  ref_count[s] = Cardinality(PointersTo(s))
    BY DEF CountsPointers
  <2>1. PointersTo(s) = {}
    BY <1>1 DEF PointersTo, Sendables, NULL
  <2> QED
    BY <1>1, <2>1, FS_EmptySet
<1>4. Listed /\ Released /\ Gotten /\ Pointed /\ Somewhere /\ Owned
  BY <1>1 DEF Listed, Released, Gotten, Pointed, Somewhere, Owned, Sendables
<1> QED
  BY <1>2, <1>3, <1>4 DEF IInv

THEOREM Invariance == Spec => []IInv
<1>1. Init => IInv
  BY InitHolds
<1>2. IInv /\ [Next]_vars => IInv'
  BY TypeKept, PlacesKept DEF IInv, Located
<1> QED
  BY <1>1, <1>2, PTL DEF Spec

\* Every variable of the pool keeps its type; in particular no count of pointers
\* falls below zero (RefCounted::RemoveRef).
THEOREM TypeCorrect == Spec => []TypeOK
<1>1. IInv => TypeOK
  BY DEF IInv
<1> QED
  BY <1>1, Invariance, PTL

\* A sendable's count is the number of counted pointers to it (CountedPtr::Set).
THEOREM CountsRight == Spec => []CountsPointers
<1>1. IInv => CountsPointers
  BY DEF IInv
<1> QED
  BY <1>1, Invariance, PTL

\* While the user fills in the content nobody else points to it
\* (YARPOutputPort::Content, Write).
THEOREM WriterOwns == Spec => []WriterOwnsContent
<1>1. IInv => WriterOwnsContent
  BY PointerNames DEF IInv, Owned, WriterOwnsContent, PointersTo
<1> QED
  BY <1>1, Invariance, PTL

\* No sendable is lost or given out twice (Sendables::GetSendable, PutSendable).
THEOREM PlacedOnce == Spec => []OnePlace
<1>1. ASSUME IInv
      PROVE  OnePlace
  <2> SUFFICES ASSUME NEW s \in Sendables
               PROVE  in_list[s] + Cardinality(Releasers(s))
                        + (IF got = s THEN 1 ELSE 0)
                        + (IF PointersTo(s) # {} THEN 1 ELSE 0)
                      = (IF s <= allocated THEN 1 ELSE 0)
    BY DEF OnePlace
  <2>0. /\ NULL \notin Sendables /\ allocated \in Nat
        /\ in_list \in [Sendables -> Nat]
        /\ Listed /\ Released /\ Gotten /\ Pointed /\ Somewhere
    BY <1>1, PoolAssumption DEF IInv, TypeOK, NULL, Sendables
  <2>1. CASE in_list[s] # 0
    <3>1. Releasers(s) = {} /\ PointersTo(s) = {}
      BY <2>0, <2>1 DEF Listed, Releasers, PointersTo
    <3> QED
      BY <2>0, <2>1, <3>1, FS_EmptySet DEF Listed
  <2>2. CASE in_list[s] = 0
    <3>1. ASSUME NEW th \in Threads, releasing[th] = s
          PROVE  /\ Releasers(s) = {th} /\ PointersTo(s) = {}
                 /\ got # s /\ s <= allocated
      BY <2>0, <3>1 DEF Released, Releasers, PointersTo
    <3>2. CASE \E th \in Threads : releasing[th] = s
      BY <2>2, <3>1, <3>2, FS_Singleton
    <3>3. CASE \A th \in Threads : releasing[th] # s
      <4>1. Releasers(s) = {}
        BY <3>3 DEF Releasers
      <4>2. CASE got = s
        <5>1. PointersTo(s) = {} /\ s <= allocated
          BY <2>0, <4>2 DEF Gotten, PointersTo
        <5> QED
          BY <2>2, <4>1, <4>2, <5>1, FS_EmptySet
      <4>3. CASE got # s /\ PointersTo(s) # {}
        <5>1. s <= allocated
          BY <2>0, <4>3 DEF Pointed, PointersTo
        <5> QED
          BY <2>2, <4>1, <4>3, <5>1, FS_EmptySet
      <4>4. CASE got # s /\ PointersTo(s) = {}
        <5>1. ~(s <= allocated)
          BY <2>0, <2>2, <3>3, <4>4 DEF Somewhere, PointersTo
        <5> QED
          BY <2>2, <4>1, <4>4, <5>1, FS_EmptySet
      <4> QED
        BY <4>2, <4>3, <4>4
    <3> QED
      BY <3>2, <3>3
  <2> QED
    BY <2>1, <2>2
<1> QED
  BY <1>1, Invariance, PTL

(***************************************************************************)
(* How many sendables there are                                            *)
(***************************************************************************)

\* What an exchange of one pointer changes.
LEMMA AssignEffect ==
  ASSUME TypeOK, NEW th \in Threads, NEW p \in Pointers, NEW s, Assign(th, p, s)
  PROVE  /\ ptr'[p] = s
         /\ \A q \in Pointers : q # p => ptr'[q] = ptr[q]
         /\ releasing'[th] = Dropped(p)
         /\ \A u \in Threads : u # th => releasing'[u] = releasing[u]
         /\ ptr[p] = NULL => Dropped(p) = NULL
BY DEF Assign, TypeOK, Dropped

LEMMA ThreadNames ==
  /\ {"user", "tsender", "port"} \subseteq Threads
  /\ Targets \subseteq Threads
  /\ "user" \notin Targets /\ "tsender" \notin Targets /\ "port" \notin Targets
  /\ "none" \notin Targets
BY PoolAssumption DEF Threads

\* What LinkInv says of a connection that a step leaves alone.
SameLink(t) ==
  /\ mutex'[t] = mutex[t] /\ connection'[t] = connection[t]
  /\ space_available'[t] = space_available[t]
  /\ something_to_send'[t] = something_to_send[t]
  /\ ptr'[Handed(t)] = ptr[Handed(t)] /\ ptr'[Local(t)] = ptr[Local(t)]
  /\ releasing'[t] = releasing[t]
  /\ Holding(t)' <=> Holding(t)

LEMMA LinkFrame ==
  ASSUME NEW t \in Targets, LinkInv(t), SameLink(t)
  PROVE  LinkInv(t)'
BY DEF LinkInv, SameLink, Handed, Local

\* The user, and the steps of the sender thread that are about no connection.
LEMMA UserBound ==
  ASSUME IInv, BoundInv,
         Content \/ UserThread \/ StartWalk \/ EndWalk \/ OkayToSend
  PROVE  BoundInv'
<1>1. TypeOK
  BY DEF IInv
<1>2. /\ okay_to_send \in Nat /\ ready_to_go \in Nat
      /\ tsender \in {"wait", "walk", "space", "share", "hand", "release"}
  BY <1>1 DEF TypeOK
<1>3. ASSUME UNCHANGED <<ptr, releasing, connections, current>>,
             tsender' = "hand" <=> tsender = "hand",
             BatonInv', SharedInv', WalkInv'
      PROVE  BoundInv'
  <2>1. \A t \in Targets : SameLink(t)
    BY <1>3 DEF SameLink, Holding, connections
  <2>2. QED BY <1>3, <2>1, LinkFrame DEF BoundInv, connections
<1>4. CASE Content
  BY <1>3, <1>4 DEF Content, BoundInv, BatonInv, SharedInv, WalkInv, Walking, walk,
     connections
<1>5. CASE Write \/ WaitOkay \/ PulseGo
  BY <1>2, <1>3, <1>5 DEF Write, WaitOkay, PulseGo, BoundInv, BatonInv, SharedInv,
     WalkInv, Walking, pool, walk, connections
<1>6. CASE StartWalk
  <2>1. WalkInv'
    BY <1>6, ThreadNames DEF StartWalk, BoundInv, WalkInv, Walking, connections
  <2>2. QED
    BY <1>2, <1>3, <1>6, <2>1 DEF StartWalk, BoundInv, BatonInv, SharedInv, pool,
       userVars
<1>7. CASE OkayToSend
  BY <1>2, <1>3, <1>7 DEF OkayToSend, BoundInv, BatonInv, SharedInv, WalkInv, Walking,
     pool, userVars, connections
<1>8. ASSUME NEW p \in {Content_, Shared}, NEW s, NEW th \in {"user", "tsender"},
             Assign(th, p, s), UNCHANGED <<current, connections>>,
             tsender' = "hand" <=> tsender = "hand"
      PROVE  /\ \A t \in Targets : SameLink(t)
             /\ releasing'["port"] = releasing["port"]
  <2>1. p \in Pointers /\ th \in Threads
    BY PointerNames, ThreadNames
  <2>2. /\ \A q \in Pointers : q # p => ptr'[q] = ptr[q]
        /\ \A u \in Threads : u # th => releasing'[u] = releasing[u]
    BY <1>1, <1>8, <2>1, AssignEffect
  <2>3. ASSUME NEW t \in Targets
        PROVE  /\ ptr'[Handed(t)] = ptr[Handed(t)] /\ ptr'[Local(t)] = ptr[Local(t)]
               /\ releasing'[t] = releasing[t]
    <3>1. /\ Handed(t) \in Pointers \ {p} /\ Local(t) \in Pointers \ {p}
          /\ t \in Threads \ {th}
      BY PointerNames, ThreadNames DEF Content_, Shared, Handed, Local
    <3>2. QED BY <2>2, <3>1
  <2>4. \A t \in Targets : SameLink(t)
    BY <1>8, <2>3 DEF SameLink, Holding, connections
  <2>5. QED
    BY <2>2, <2>4, ThreadNames
<1>9. ASSUME NEW p \in {Content_, Shared}, NEW s, NEW th \in {"user", "tsender"},
             Assign(th, p, s), UNCHANGED <<current, connections>>,
             tsender' = "hand" <=> tsender = "hand",
             BatonInv', SharedInv', WalkInv'
      PROVE  BoundInv'
  BY <1>8, <1>9, LinkFrame DEF BoundInv, connections
<1>10. CASE SetContent
  <2>1. SharedInv'
    BY <1>1, <1>10, AssignEffect, PointerNames, ThreadNames
    DEF SetContent, BoundInv, SharedInv, walk
  <2>2. QED
    BY <1>9, <1>10, <2>1 DEF SetContent, BoundInv, BatonInv, WalkInv, Walking, walk,
       connections
<1>11. CASE Share
  <2>1. okay_to_send = 0 /\ tsender = "wait"
    BY <1>2, <1>11 DEF Share, BoundInv, BatonInv
  <2>2. SharedInv'
    BY <1>1, <1>11, <2>1, AssignEffect, PointerNames, ThreadNames
    DEF Share, BoundInv, SharedInv, walk
  <2>3. BatonInv' /\ WalkInv' /\ UNCHANGED <<tsender, current, connections>>
    BY <1>11 DEF Share, BoundInv, BatonInv, WalkInv, Walking, walk, connections
  <2>4. QED
    BY <1>9, <1>11, <2>2, <2>3 DEF Share
<1>12. CASE ResetContent
  <2>1. SharedInv'
    BY <1>1, <1>12, AssignEffect, PointerNames, ThreadNames
    DEF ResetContent, BoundInv, SharedInv, walk
  <2>2. QED
    BY <1>9, <1>12, <2>1 DEF ResetContent, BoundInv, BatonInv, WalkInv, Walking, walk,
       connections
<1>13. CASE EndWalk
  <2>1. okay_to_send = 0 /\ user \notin {"share", "pulse"}
    BY <1>2, <1>13 DEF EndWalk, BoundInv, BatonInv
  <2>2. SharedInv'
    BY <1>1, <1>13, <2>1, AssignEffect, PointerNames, ThreadNames
    DEF EndWalk, BoundInv, SharedInv, userVars
  <2>3. BatonInv' /\ WalkInv'
    BY <1>2, <1>13, <2>1 DEF EndWalk, BoundInv, BatonInv, WalkInv, userVars,
       connections
  <2>4. QED
    BY <1>9, <1>13, <2>2, <2>3 DEF EndWalk
<1>14. QED
  BY <1>4, <1>5, <1>6, <1>7, <1>10, <1>11, <1>12, <1>13 DEF UserThread

\* A step about connection t leaves the other connections alone.
LEMMA OthersKept ==
  ASSUME BoundInv, NEW t \in Targets, LinkInv(t)',
         \A u \in Targets \ {t} : SameLink(u)
  PROVE  \A u \in Targets : LinkInv(u)'
<1> SUFFICES ASSUME NEW u \in Targets PROVE LinkInv(u)'
  OBVIOUS
<1>1. CASE u = t
  BY <1>1
<1>2. CASE u # t
  BY <1>2, LinkFrame DEF BoundInv
<1>3. QED BY <1>1, <1>2

\* An exchange of one of its pointers, by the thread th, does so too.
LEMMA OthersPointers ==
  ASSUME TypeOK, NEW t \in Targets, NEW p \in {Handed(t), Local(t)}, NEW s,
         NEW th \in {"tsender", "port", t}, Assign(th, p, s),
         NEW u \in Targets \ {t}
  PROVE  /\ ptr'[Handed(u)] = ptr[Handed(u)] /\ ptr'[Local(u)] = ptr[Local(u)]
         /\ releasing'[u] = releasing[u]
<1>1. p \in Pointers /\ th \in Threads
  BY PointerNames, ThreadNames
<1>2. /\ \A q \in Pointers : q # p => ptr'[q] = ptr[q]
      /\ \A v \in Threads : v # th => releasing'[v] = releasing[v]
  BY <1>1, AssignEffect
<1>3. /\ Handed(u) \in Pointers \ {p} /\ Local(u) \in Pointers \ {p}
      /\ u \in Threads \ {th}
  BY PointerNames, ThreadNames DEF Handed, Local
<1>4. QED BY <1>2, <1>3

\* What LinkInv says of types.
LEMMA LinkTypes ==
  ASSUME TypeOK, NEW t \in Targets
  PROVE  /\ space_available[t] \in Nat /\ something_to_send[t] \in Nat
         /\ connection[t] \in
              {"none", "wait", "taken", "send", "sent", "done", "dead"}
         /\ mutex[t] \in {"free", "tsender", "thread"}
         /\ t \in Threads
BY ThreadNames DEF TypeOK

\* The sender thread's walk.
LEMMA WalkBound ==
  ASSUME IInv, BoundInv, NEW t \in Targets,
         Choose(t) \/ AwaitSpace(t) \/ Skip(t) \/ Enter(t) \/ Hand(t)
  PROVE  BoundInv'
<1>1. TypeOK /\ LinkInv(t) /\ t # "none" /\ current \in {"none"} \union Targets
  BY ThreadNames DEF IInv, BoundInv, TypeOK
<1>2. CASE Choose(t) \/ AwaitSpace(t) \/ Skip(t)
  <2>1. \A u \in Targets : SameLink(u)
    BY <1>2 DEF Choose, AwaitSpace, Skip, SameLink, Holding, pool, connections
  <2>2. WalkInv'
    BY <1>1, <1>2
    DEF Choose, AwaitSpace, Skip, BoundInv, WalkInv, Walking, connections
  <2>3. BatonInv' /\ SharedInv'
    BY <1>2 DEF Choose, AwaitSpace, Skip, BoundInv, BatonInv, SharedInv, pool,
       userVars
  <2>4. QED
    BY <1>2, <2>1, <2>2, <2>3, LinkFrame
    DEF Choose, AwaitSpace, Skip, BoundInv, pool, connections
<1>3. CASE Enter(t)
  <2>1. \A u \in Targets \ {t} : SameLink(u)
    BY <1>1, <1>3, ThreadNames DEF Enter, SameLink, Holding, pool, TypeOK
  <2>2. LinkInv(t)'
    BY <1>1, <1>3 DEF Enter, LinkInv, Holding, pool, TypeOK, Handed, Local
  <2>3. BatonInv' /\ SharedInv' /\ WalkInv'
    BY <1>3 DEF Enter, BoundInv, BatonInv, SharedInv, WalkInv, Walking, pool,
       userVars
  <2>4. QED
    BY <1>3, <2>1, <2>2, <2>3, OthersKept DEF Enter, BoundInv, pool
<1>4. CASE Hand(t)
  <2>1. /\ Assign("tsender", Handed(t), ptr[Shared])
        /\ tsender = "hand" /\ current = t /\ space_available[t] > 0
        /\ tsender' = "walk"
        /\ connection' = connection
    BY <1>4 DEF Hand
  <2>2. connection[t] # "none"
    BY <1>1, <2>1 DEF BoundInv, WalkInv
  <2>3. /\ something_to_send[t] = 0 /\ space_available[t] = 1
        /\ connection[t] \in {"wait", "dead"}
    BY <1>1, <2>1, <2>2, LinkTypes DEF LinkInv, Holding
  <2>4. ptr[Handed(t)] = NULL /\ ptr[Local(t)] = NULL /\ releasing[t] = NULL
    BY <1>1, <2>3 DEF LinkInv
  <2>5. /\ \A q \in Pointers : q # Handed(t) => ptr'[q] = ptr[q]
        /\ \A th \in Threads : th # "tsender" => releasing'[th] = releasing[th]
        /\ releasing'["tsender"] = NULL
    BY <1>1, <2>1, <2>4, AssignEffect, PointerNames, ThreadNames
  <2>6. /\ space_available'[t] = 0 /\ something_to_send'[t] = 1
        /\ mutex'[t] = "free" /\ current' = "none"
    BY <1>1, <1>4, <2>3 DEF Hand, TypeOK
  <2>7. ptr'[Local(t)] = NULL /\ releasing'[t] = NULL
    BY <2>4, <2>5, PointerNames, ThreadNames
  <2>8. LinkInv(t)'
    BY <1>1, <2>1, <2>3, <2>6, <2>7 DEF LinkInv, Holding, Handed, Local
  <2>9. \A u \in Targets \ {t} : SameLink(u)
    <3> SUFFICES ASSUME NEW u \in Targets \ {t} PROVE SameLink(u)
      OBVIOUS
    <3>1. /\ ptr'[Handed(u)] = ptr[Handed(u)] /\ ptr'[Local(u)] = ptr[Local(u)]
          /\ releasing'[u] = releasing[u]
      BY <1>1, <2>1, OthersPointers
    <3>2. QED BY <1>1, <1>4, <2>1, <2>6, <3>1, ThreadNames
             DEF Hand, SameLink, Holding, TypeOK
  <2>10. /\ ptr'[Shared] = ptr[Shared] /\ ptr'[Content_] = ptr[Content_]
         /\ releasing'["port"] = releasing["port"]
    BY <2>5, PointerNames, ThreadNames
  <2>11. BatonInv' /\ SharedInv' /\ WalkInv'
    BY <1>4, <2>1, <2>5, <2>10
    DEF Hand, BoundInv, BatonInv, SharedInv, WalkInv, Walking, userVars
  <2>12. QED
    BY <2>1, <2>8, <2>9, <2>10, <2>11, OthersKept DEF BoundInv
<1>5. QED BY <1>2, <1>3, <1>4

\* What the port and the user do is not changed by a connection's thread.
LEMMA PortKept ==
  ASSUME TypeOK, BoundInv,
         UNCHANGED <<okay_to_send, user, ready_to_go, tsender, walk>>,
         ptr'[Shared] = ptr[Shared], ptr'[Content_] = ptr[Content_],
         releasing'["tsender"] = releasing["tsender"],
         \A u \in Targets : connection[u] # "none" => connection'[u] # "none"
                            \/ ~Walking
  PROVE  BatonInv' /\ SharedInv' /\ WalkInv'
<1>1. BatonInv' /\ SharedInv'
  BY DEF BoundInv, BatonInv, SharedInv, walk, Shared, Content_
<1>2. todo \subseteq Targets
  BY DEF TypeOK
<1>3. WalkInv'
  BY <1>2 DEF BoundInv, WalkInv, Walking, walk, TypeOK
<1>4. QED BY <1>1, <1>3

\* An exchange by a connection's own thread.
LEMMA ThreadExchange ==
  ASSUME IInv, BoundInv, NEW t \in Targets, NEW p \in {Handed(t), Local(t)}, NEW s,
         Assign(t, p, s), UNCHANGED <<userVars, okay_to_send, ready_to_go, walk>>,
         UNCHANGED space_available, LinkInv(t)',
         \A u \in Targets \ {t} :
           /\ mutex'[u] = mutex[u] /\ connection'[u] = connection[u]
           /\ something_to_send'[u] = something_to_send[u],
         connection[t] # "none", connection'[t] # "none"
  PROVE  BoundInv'
<1>1. TypeOK
  BY DEF IInv
<1>2. \A u \in Targets \ {t} : SameLink(u)
  BY <1>1, OthersPointers DEF SameLink, Holding, walk
<1>3. /\ ptr'[Shared] = ptr[Shared] /\ ptr'[Content_] = ptr[Content_]
      /\ releasing'["tsender"] = releasing["tsender"]
      /\ releasing'["port"] = releasing["port"]
  <2>1. /\ p \in Pointers /\ t \in Threads /\ "port" # t /\ "tsender" # t
        /\ Shared \in Pointers \ {p} /\ Content_ \in Pointers \ {p}
    BY PointerNames, ThreadNames
  <2>2. QED BY <1>1, <2>1, AssignEffect, ThreadNames
<1>4. \A u \in Targets : connection[u] # "none" => connection'[u] # "none"
  OBVIOUS
<1>5. BatonInv' /\ SharedInv' /\ WalkInv'
  BY <1>1, <1>3, <1>4, PortKept DEF userVars, walk
<1>6. releasing'["port"] # NULL => \E u \in Targets : connection'[u] = "none"
  BY <1>3 DEF BoundInv
<1>7. QED BY <1>2, <1>5, <1>6, OthersKept DEF BoundInv

\* Take, Taken and DropLocal move the message of the connection; the other
\* steps do not touch it.
LEMMA ConnectionBound ==
  ASSUME IInv, BoundInv, NEW t \in Targets, Connection(t)
  PROVE  BoundInv'
<1>1. TypeOK /\ LinkInv(t) /\ PoolType /\ CountsPointers
  BY DEF IInv, BoundInv, TypeOK, PoolType, Values
<1>2. /\ Handed(t) \in Pointers /\ Local(t) \in Pointers /\ Handed(t) # Local(t)
      /\ t \in Threads
  BY PointerNames, ThreadNames
<1>3. /\ space_available[t] \in Nat /\ something_to_send[t] \in Nat
  BY <1>1, LinkTypes
<1>4. CASE Take(t)
  <2>1. /\ connection[t] = "wait" /\ ptr[Local(t)] = NULL /\ releasing[t] = NULL
        /\ something_to_send[t] = 1 /\ space_available[t] = 0
        /\ Assign(t, Local(t), ptr[Handed(t)])
    BY <1>1, <1>3, <1>4 DEF Take, LinkInv
  <2>2. /\ ptr'[Local(t)] = ptr[Handed(t)] /\ ptr'[Handed(t)] = ptr[Handed(t)]
        /\ releasing'[t] = NULL
    BY <1>1, <1>2, <2>1, AssignEffect
  <2>3. /\ connection'[t] = "taken" /\ mutex'[t] = "thread"
        /\ something_to_send'[t] = 0 /\ space_available'[t] = 0
        /\ ~Holding(t)'
    BY <1>1, <1>4, <2>1 DEF Take, walk, TypeOK, LinkInv, Holding
  <2>4. LinkInv(t)'
    BY <2>2, <2>3 DEF LinkInv, Holding, Handed, Local
  <2>5. \A u \in Targets \ {t} :
          /\ mutex'[u] = mutex[u] /\ connection'[u] = connection[u]
          /\ something_to_send'[u] = something_to_send[u]
    BY <1>1, <1>4 DEF Take, TypeOK
  <2>6. QED BY <1>4, <2>1, <2>3, <2>4, <2>5, ThreadExchange DEF Take
<1>5. CASE Taken(t)
  <2>1. /\ connection[t] = "taken" /\ releasing[t] = NULL
        /\ something_to_send[t] = 0 /\ space_available[t] = 0
        /\ Assign(t, Handed(t), NULL)
    BY <1>1, <1>3, <1>5 DEF Taken, LinkInv
  <2>2. Dropped(Handed(t)) = NULL
    <3>1. CASE ptr[Handed(t)] = NULL
      BY <3>1 DEF Dropped
    <3>2. CASE ptr[Handed(t)] # NULL
      <4>1. ptr[Local(t)] = ptr[Handed(t)]
        BY <1>1, <2>1, <3>2 DEF LinkInv
      <4>2. QED BY <1>1, <1>2, <4>1, DroppedFacts
    <3>3. QED BY <3>1, <3>2
  <2>3. /\ ptr'[Handed(t)] = NULL /\ releasing'[t] = NULL
    BY <1>1, <1>2, <2>1, <2>2, AssignEffect
  <2>4. /\ connection'[t] = "send" /\ mutex'[t] = "free"
        /\ something_to_send'[t] = 0 /\ space_available'[t] = 0
        /\ ~Holding(t)'
    BY <1>1, <1>5, <2>1 DEF Taken, walk, TypeOK, LinkInv, Holding
  <2>5. LinkInv(t)'
    BY <2>3, <2>4 DEF LinkInv, Holding, Handed, Local
  <2>6. \A u \in Targets \ {t} :
          /\ mutex'[u] = mutex[u] /\ connection'[u] = connection[u]
          /\ something_to_send'[u] = something_to_send[u]
    BY <1>1, <1>5 DEF Taken, TypeOK
  <2>7. QED BY <1>5, <2>1, <2>4, <2>5, <2>6, ThreadExchange DEF Taken
<1>6. CASE DropLocal(t)
  <2>1. /\ connection[t] = "sent" /\ ptr[Handed(t)] = NULL
        /\ something_to_send[t] = 0 /\ space_available[t] = 0
        /\ Assign(t, Local(t), NULL)
    BY <1>1, <1>3, <1>6 DEF DropLocal, LinkInv
  <2>2. ptr'[Handed(t)] = NULL /\ ptr'[Local(t)] = NULL
    BY <1>1, <1>2, <2>1, AssignEffect
  <2>3. /\ connection'[t] = "done" /\ mutex'[t] = mutex[t]
        /\ tsender' = tsender /\ current' = current
        /\ something_to_send'[t] = 0 /\ space_available'[t] = 0
    BY <1>1, <1>6, <2>1 DEF DropLocal, walk, TypeOK
  <2>4. LinkInv(t)'
    BY <1>1, <2>1, <2>2, <2>3 DEF LinkInv, Holding, Handed, Local
  <2>5. \A u \in Targets \ {t} :
          /\ mutex'[u] = mutex[u] /\ connection'[u] = connection[u]
          /\ something_to_send'[u] = something_to_send[u]
    BY <1>1, <1>6 DEF DropLocal, TypeOK
  <2>6. QED BY <1>6, <2>1, <2>3, <2>4, <2>5, ThreadExchange DEF DropLocal
<1>7. CASE Sent(t) \/ PostSpace(t)
  <2>1. LinkInv(t)'
    BY <1>1, <1>3, <1>7
    DEF Sent, PostSpace, LinkInv, Holding, pool, walk, TypeOK, Handed, Local
  <2>2. \A u \in Targets \ {t} : SameLink(u)
    BY <1>1, <1>7 DEF Sent, PostSpace, SameLink, Holding, pool, walk, TypeOK
  <2>3. \A u \in Targets : connection[u] = "none" <=> connection'[u] = "none"
    BY <1>1, <1>7 DEF Sent, PostSpace, TypeOK
  <2>4. BatonInv' /\ SharedInv' /\ WalkInv'
    BY <1>1, <1>7, <2>3, PortKept DEF Sent, PostSpace, pool, userVars, walk
  <2>5. QED
    BY <1>7, <2>1, <2>2, <2>3, <2>4, OthersKept
    DEF Sent, PostSpace, BoundInv, pool
<1>8. QED BY <1>4, <1>5, <1>6, <1>7 DEF Connection

\* A deleted connection leaves its message to the port thread.
LEMMA AttachBound ==
  ASSUME IInv, BoundInv, NEW t \in Targets, Attach(t) \/ Stop(t) \/ Delete(t)
  PROVE  BoundInv'
<1>1. TypeOK /\ LinkInv(t)
  BY DEF IInv, BoundInv
<1>2. CASE Attach(t)
  <2>1. LinkInv(t)'
    BY <1>1, <1>2 DEF Attach, LinkInv, Holding, pool, walk, TypeOK, Handed, Local
  <2>2. \A u \in Targets \ {t} : SameLink(u)
    BY <1>1, <1>2 DEF Attach, SameLink, Holding, pool, walk, TypeOK
  <2>3. ~Walking /\ releasing'["port"] = NULL
    BY <1>2 DEF Attach, ListFree, pool
  <2>4. BatonInv' /\ SharedInv' /\ WalkInv'
    BY <1>1, <1>2, <2>3, PortKept DEF Attach, pool, userVars, walk
  <2>5. QED BY <2>1, <2>2, <2>3, <2>4, OthersKept DEF BoundInv
<1>3. CASE Stop(t)
  <2>1. LinkInv(t)'
    BY <1>1, <1>3 DEF Stop, LinkInv, Holding, pool, walk, TypeOK, Handed, Local
  <2>2. \A u \in Targets \ {t} : SameLink(u)
    BY <1>1, <1>3 DEF Stop, SameLink, Holding, pool, walk, TypeOK
  <2>3. \A u \in Targets : connection[u] = "none" <=> connection'[u] = "none"
    BY <1>1, <1>3 DEF Stop, TypeOK
  <2>4. BatonInv' /\ SharedInv' /\ WalkInv'
    BY <1>1, <1>3, <2>3, PortKept DEF Stop, pool, userVars, walk
  <2>5. QED
    BY <1>3, <2>1, <2>2, <2>3, <2>4, OthersKept DEF Stop, BoundInv, pool
<1>4. CASE Delete(t)
  <2>1. /\ connection[t] = "dead" /\ ~Walking /\ current # t
        /\ Assign("port", Handed(t), NULL)
        /\ ptr[Local(t)] = NULL /\ releasing[t] = NULL
    BY <1>1, <1>4, ThreadNames DEF Delete, ListFree, LinkInv, BoundInv, WalkInv,
                                 Walking
  <2>2. /\ ptr'[Handed(t)] = NULL
        /\ \A q \in Pointers : q # Handed(t) => ptr'[q] = ptr[q]
        /\ \A u \in Threads : u # "port" => releasing'[u] = releasing[u]
    BY <1>1, <2>1, AssignEffect, PointerNames, ThreadNames
  <2>3. /\ connection'[t] = "none" /\ mutex'[t] = mutex[t] /\ current' = current
        /\ ptr'[Local(t)] = NULL /\ releasing'[t] = NULL
    BY <1>1, <1>4, <2>1, <2>2, PointerNames, ThreadNames DEF Delete, walk, TypeOK
  <2>4. LinkInv(t)'
    BY <1>1, <2>1, <2>2, <2>3 DEF LinkInv, Holding, Handed, Local
  <2>5. \A u \in Targets \ {t} : SameLink(u)
    BY <1>1, <1>4, <2>1, OthersPointers DEF Delete, SameLink, Holding, walk, TypeOK
  <2>6. /\ ptr'[Shared] = ptr[Shared] /\ ptr'[Content_] = ptr[Content_]
        /\ releasing'["tsender"] = releasing["tsender"]
    BY <2>2, PointerNames, ThreadNames
  <2>7. BatonInv' /\ SharedInv' /\ WalkInv'
    BY <1>1, <1>4, <2>1, <2>6, PortKept DEF Delete, userVars, walk
  <2>8. QED BY <2>3, <2>4, <2>5, <2>7, OthersKept DEF BoundInv
<1>5. QED BY <1>2, <1>3, <1>4

\* A thread that has put something back has nothing more to take back.
LEMMA TakeBackBound ==
  ASSUME IInv, BoundInv, NEW th \in Threads, TakeBack(th)
  PROVE  BoundInv'
<1>1. /\ releasing' = [releasing EXCEPT ![th] = NULL]
      /\ releasing \in [Threads -> Values]
      /\ UNCHANGED <<ptr, userVars, okay_to_send, ready_to_go, walk, connections>>
  BY DEF TakeBack, IInv, TypeOK, Values
<1>2. \A u \in Threads : releasing'[u] = releasing[u] \/ releasing'[u] = NULL
  BY <1>1
<1>3. BatonInv' /\ SharedInv' /\ WalkInv'
  BY <1>1, <1>2, ThreadNames
  DEF BoundInv, BatonInv, SharedInv, WalkInv, Walking, userVars, walk, connections
<1>4. ASSUME NEW t \in Targets PROVE LinkInv(t)'
  BY <1>1, <1>2, ThreadNames
  DEF BoundInv, LinkInv, Holding, walk, connections, Handed, Local
<1>5. QED
  BY <1>1, <1>2, <1>3, <1>4, ThreadNames DEF BoundInv, connections

\* Who can have a sendable when the user asks for one and there is none in the
\* list: the port, and each connection.
Holders == Targets \union {"port"}

Holds(h, s) ==
  IF h = "port" THEN ptr[Shared] = s \/ releasing["tsender"] = s
  ELSE IF connection[h] = "none" THEN releasing["port"] = s
  ELSE ptr[Handed(h)] = s \/ ptr[Local(h)] = s \/ releasing[h] = s

\* No holder has two.
LEMMA HoldsOne ==
  ASSUME TypeOK, BoundInv, NEW h \in Holders,
         NEW s \in Sendables, NEW x \in Sendables, Holds(h, s), Holds(h, x)
  PROVE  s = x
<1>1. NULL \notin Sendables
  BY DEF NULL, Sendables
<1>2. CASE h = "port"
  BY <1>1, <1>2 DEF Holds, BoundInv, SharedInv
<1>3. CASE h \in Targets /\ connection[h] = "none"
  BY <1>3, ThreadNames DEF Holds
<1>4. CASE h \in Targets /\ connection[h] # "none"
  <2>1. LinkInv(h) /\ h # "port"
    BY <1>4, ThreadNames DEF BoundInv
  <2>2. QED BY <1>1, <1>4, <2>1 DEF Holds, LinkInv
<1>5. QED BY <1>2, <1>3, <1>4 DEF Holders

\* And every sendable has one.
LEMMA SomeHolder ==
  ASSUME IInv, BoundInv, user = "idle", releasing["user"] = NULL,
         \A x \in Sendables : in_list[x] = 0,
         NEW s \in Sendables, s <= allocated
  PROVE  \E h \in Holders : Holds(h, s)
<1>1. /\ NULL \notin Sendables /\ got = NULL /\ ptr[Content_] = NULL
      /\ "port" \in Holders /\ Targets \subseteq Holders /\ "port" \notin Targets
  BY ThreadNames DEF IInv, Gotten, BoundInv, SharedInv, NULL, Sendables, Holders
<1>2. \/ \E p \in Pointers : ptr[p] = s
      \/ \E th \in Threads : releasing[th] = s
  BY <1>1 DEF IInv, Somewhere
<1>3. CASE ptr[Shared] = s \/ releasing["tsender"] = s
  BY <1>1, <1>3 DEF Holds
<1>4. ASSUME NEW t \in Targets,
             ptr[Handed(t)] = s \/ ptr[Local(t)] = s \/ releasing[t] = s
      PROVE  Holds(t, s)
  <2>1. connection[t] # "none"
    BY <1>1, <1>4 DEF BoundInv, LinkInv
  <2>2. QED BY <1>1, <1>4, <2>1 DEF Holds
<1>5. CASE releasing["port"] = s
  <2>1. PICK t \in Targets : connection[t] = "none"
    BY <1>1, <1>5 DEF BoundInv
  <2>2. QED BY <1>1, <1>5, <2>1 DEF Holds
<1>6. ASSUME NEW p \in Pointers, ptr[p] = s
      PROVE  \E h \in Holders : Holds(h, s)
  <2>1. \/ p = Content_ \/ p = Shared
        \/ \E t \in Targets : p = Handed(t) \/ p = Local(t)
    BY DEF Pointers, Content_, Shared, Handed, Local
  <2>2. QED BY <1>1, <1>3, <1>4, <1>6, <2>1
<1>7. ASSUME NEW th \in Threads, releasing[th] = s
      PROVE  \E h \in Holders : Holds(h, s)
  <2>1. th \in {"user", "tsender", "port"} \/ th \in Targets
    BY DEF Threads
  <2>2. QED BY <1>1, <1>3, <1>4, <1>5, <1>7, <2>1
<1>8. QED BY <1>2, <1>6, <1>7

\* When a sendable has to be allocated there are at most as many as holders.
LEMMA FewAllocated ==
  ASSUME IInv, BoundInv, user = "idle", releasing["user"] = NULL,
         \A x \in Sendables : in_list[x] = 0
  PROVE  allocated <= Cardinality(Targets) + 1
<1> DEFINE Out == 1..allocated
           holder == [s \in Out |-> CHOOSE h \in Holders : Holds(h, s)]
<1>1. IsFiniteSet(Targets) /\ allocated \in Nat /\ Out \subseteq Sendables
  BY PoolAssumption DEF IInv, TypeOK, Sendables
<1>2. IsFiniteSet(Holders) /\ Cardinality(Holders) = Cardinality(Targets) + 1
  BY <1>1, FS_AddElement, ThreadNames DEF Holders
<1>3. IsFiniteSet(Out) /\ Cardinality(Out) = allocated
  BY <1>1, FS_Interval
<1>4. \A s \in Out : \E h \in Holders : Holds(h, s)
  BY <1>1, SomeHolder
<1>5. \A s \in Out : holder[s] \in Holders /\ Holds(holder[s], s)
  BY <1>4
<1>6. holder \in [Out -> Holders]
  BY <1>5
<1>7. \A s, x \in Out : holder[s] = holder[x] => s = x
  BY <1>1, <1>5, HoldsOne DEF IInv
<1>8. Cardinality(Targets) \in Nat
  BY <1>1, FS_CardinalityType
<1>9. ASSUME Cardinality(Holders) < Cardinality(Out)
      PROVE  FALSE
  <2> HIDE DEF Out, holder
  <2>1. \E s, x \in Out : s # x /\ holder[s] = holder[x]
    BY <1>2, <1>3, <1>6, <1>9, FS_PigeonHole
  <2>2. QED BY <1>7, <2>1
<1>10. QED BY <1>1, <1>2, <1>3, <1>8, <1>9

\* The user, the port and each connection have at most one sendable, and a new
\* one is made only when all have theirs (Sendables::Get).
THEOREM PoolStaysBounded == Spec => []PoolBounded
<1>1. Init => BoundInv /\ PoolBounded
  <2> SUFFICES ASSUME Init PROVE BoundInv /\ PoolBounded
    OBVIOUS
  <2>1. \A p \in Pointers : ptr[p] = NULL
    BY DEF Init
  <2>2. BatonInv /\ SharedInv /\ WalkInv
    BY <2>1, PointerNames, ThreadNames DEF Init, BatonInv, SharedInv, WalkInv,
                            Walking
  <2>3. \A t \in Targets : LinkInv(t)
    BY <2>1, PointerNames, ThreadNames DEF Init, LinkInv, Holding
  <2>4. PoolBounded
    BY FS_CardinalityType, PoolAssumption DEF Init, PoolBounded
  <2>5. QED BY <2>2, <2>3, <2>4, ThreadNames DEF Init, BoundInv
<1>2. IInv /\ BoundInv /\ [Next]_vars => BoundInv'
  <2>1. ASSUME BoundInv, UNCHANGED vars PROVE BoundInv'
    <3>1. \A t \in Targets : SameLink(t)
      BY <2>1 DEF vars, pool, walk, connections, SameLink, Holding
    <3>2. BatonInv' /\ SharedInv' /\ WalkInv'
      BY <2>1
      DEF BoundInv, BatonInv, SharedInv, WalkInv, Walking, vars, pool, userVars, walk,
          connections
    <3>3. QED
      BY <2>1, <3>1, <3>2, LinkFrame DEF BoundInv, vars, pool, connections
  <2>2. QED
    BY <2>1, UserBound, WalkBound, ConnectionBound, AttachBound, TakeBackBound
    DEF Next, SenderThread
<1>3. IInv /\ BoundInv /\ PoolBounded /\ [Next]_vars => PoolBounded'
  <2> SUFFICES ASSUME IInv, BoundInv, PoolBounded, [Next]_vars
               PROVE  PoolBounded'
    OBVIOUS
  <2>1. Cardinality(Targets) \in Nat
    BY FS_CardinalityType, PoolAssumption
  <2>2. CASE allocated' = allocated
    BY <2>2 DEF PoolBounded
  <2>3. CASE Content
    <3>1. PICK s \in Sendables : Reuse(s) \/ Allocate(s)
      BY <2>3 DEF Content
    <3>2. CASE Allocate(s)
      <4>1. allocated <= Cardinality(Targets) + 1
        BY <2>3, <3>2, FewAllocated DEF Content, Allocate
      <4>2. allocated' = allocated + 1 /\ allocated \in Nat
        BY <3>2 DEF Allocate, IInv, TypeOK
      <4>3. QED BY <2>1, <4>1, <4>2 DEF PoolBounded
    <3>3. QED BY <2>2, <3>1, <3>2 DEF Reuse
  <2>4. allocated' = allocated \/ Content
    BY EveryStep DEF IInv, PoolSteps, Exchange, TakeBack, Elsewhere, list
  <2>5. QED BY <2>2, <2>3, <2>4
<1>4. QED BY <1>1, <1>2, <1>3, Invariance, PTL DEF Spec

=============================================================================
