--------------------------- MODULE VersioningProofs ---------------------------
(***************************************************************************)
(* Proofs about Versioning.                                                *)
(*                                                                         *)
(* The events on their way, the one at the worker first, are promises: the *)
(* last of them about a file says what is so on the disk (Due), and a file *)
(* that none of them is about agrees with its mirror (Matches).  Rows are  *)
(* ahead of the mirrors by one event, so theirs are the promises of the    *)
(* mailbox alone (RowAwaited).  A file of which a change was lost is out   *)
(* of this until it is told of again, which is what missed and strayed say.*)
(***************************************************************************)
EXTENDS Versioning, SharedLemmas

Task == [event : Event, found : Content \union Ino \union Folder \union {None}]

\* Paths have names from N.  A file has nothing under it, a folder that can be
\* renamed has no watch target in it, every source is watched, and the names
\* that the renaming of a directory glues together name no file.  A directory is
\* no inode, and None is none of the records.
Setting(N) ==
    /\ Source \union Dir \union File \union Folder \subseteq Seq(N)
    /\ Root \in Dir
    /\ IsFiniteSet(File)
    /\ \A f, g \in File : Under(f, g) => f = g
    /\ \A f \in File, d \in Folder : ~Under(d, f)
    /\ \A f \in File, d \in Folder : Under(f, d) => SameRepo(f, d)
    /\ \A s \in Source : Watchable(s, Dir)
    /\ Folder \intersect Ino = {}
    /\ \A d, e \in Folder : \A f \in Below(d) : Landing(f, d, e) \notin File
    /\ None \notin [ino : Ino, content : Content]
    /\ None \notin [loc : File, active : BOOLEAN]
    /\ None \notin Task

-----------------------------------------------------------------------------
(* Events. *)

LEMMA ThoseFacts ==
    ASSUME NEW S, NEW s \in Seq(S), NEW K, K \subseteq 1..Len(s)
    PROVE  /\ Those(s, K) \in Seq(S)
           /\ Len(Those(s, K)) = Cardinality(K)
           /\ \A n \in 1..Len(Those(s, K)) : \E i \in K : Those(s, K)[n] = s[i]
           /\ \A i \in K : \E n \in 1..Len(Those(s, K)) : Those(s, K)[n] = s[i]
<1> DEFINE upto(i) == {j \in K : j <= i}
           rank == [i \in K |-> Cardinality(upto(i))]
           c == Cardinality(K)
<1>1. IsFiniteSet(K) /\ c \in Nat
  <2>1. IsFiniteSet(1..Len(s))
    BY FS_Interval
  <2> QED
    BY <2>1, FS_Subset, FS_CardinalityType
<1>2. \A i \in K : IsFiniteSet(upto(i)) /\ Cardinality(upto(i)) \in 1..c
  <2> SUFFICES ASSUME NEW i \in K
               PROVE  IsFiniteSet(upto(i)) /\ Cardinality(upto(i)) \in 1..c
    OBVIOUS
  <2>1. upto(i) \in SUBSET K /\ i \in upto(i)
    OBVIOUS
  <2> HIDE DEF upto
  <2>2. IsFiniteSet(upto(i)) /\ Cardinality(upto(i)) <= c
    BY <1>1, <2>1, FS_Subset
  <2>3. Cardinality(upto(i)) \in Nat /\ Cardinality(upto(i)) # 0
    BY <2>1, <2>2, FS_CardinalityType, FS_EmptySet
  <2> HIDE DEF c
  <2> QED
    BY <1>1, <2>2, <2>3
<1>3. \A i, k \in K : i < k => rank[i] # rank[k]
  <2> SUFFICES ASSUME NEW i \in K, NEW k \in K, i < k, rank[i] = rank[k]
               PROVE  FALSE
    OBVIOUS
  <2>1. upto(i) \in SUBSET upto(k) /\ k \in upto(k) /\ k \notin upto(i)
    <3>1. K \subseteq Int
      OBVIOUS
    <3>2. \A j \in K : j <= i => j <= k
      BY <3>1
    <3>3. k <= k /\ ~(k <= i)
      BY <3>1
    <3> HIDE DEF rank, c
    <3> QED
      BY <3>2, <3>3
  <2>2. IsFiniteSet(upto(k))
    BY <1>2
  <2>3. Cardinality(upto(k)) = Cardinality(upto(i))
    OBVIOUS
  <2> HIDE DEF upto
  <2>4. upto(k) = upto(i)
    BY <2>1, <2>2, <2>3, FS_Subset
  <2> QED
    BY <2>1, <2>4
<1>4. rank \in Injection(K, 1..c)
  <2>1. rank \in [K -> 1..c]
    BY <1>2
  <2>2. \A i, k \in K : i # k => i < k \/ k < i
    OBVIOUS
  <2>3. \A i, k \in DOMAIN rank : rank[i] = rank[k] => i = k
    <3>1. DOMAIN rank = K
      OBVIOUS
    <3> HIDE DEF rank
    <3> QED
      BY <1>3, <2>2, <3>1
  <2> HIDE DEF rank, c
  <2> QED
    BY <2>1, <2>3 DEF Injection, IsInjective
<1>5. rank \in Surjection(K, 1..c)
  <2>1. IsFiniteSet(1..c) /\ Cardinality(1..c) = c
    BY <1>1, FS_Interval
  <2> HIDE DEF rank
  <2> QED
    BY <1>4, <2>1, FS_Injection
<1>6. \A n \in 1..c : \E i \in K : Cardinality(upto(i)) = n
  <2>1. \A n \in 1..c : \E i \in K : rank[i] = n
    <3> HIDE DEF rank
    <3> QED
      BY <1>5 DEF Surjection
  <2> QED
    BY <2>1
<1>7. \A i, k \in K : Cardinality(upto(i)) = Cardinality(upto(k)) => i = k
  <2>1. \A i, k \in K : rank[i] = rank[k] => i = k
    <3>1. DOMAIN rank = K
      OBVIOUS
    <3> HIDE DEF rank
    <3> QED
      BY <1>4, <3>1 DEF Injection, IsInjective
  <2> QED
    BY <2>1
<1> DEFINE pick(n) == CHOOSE i \in K : Cardinality(upto(i)) = n
<1>8. \A n \in 1..c : pick(n) \in K
  <2> HIDE DEF upto
  <2> QED
    BY <1>6
<1>9. \A i \in K : pick(Cardinality(upto(i))) = i
  <2> HIDE DEF upto
  <2> QED
    BY <1>7
<1>10. Those(s, K) = [n \in 1..c |-> s[pick(n)]]
  BY DEF Those
<1>11. \A i \in K : s[i] \in S
  OBVIOUS
<1> HIDE DEF upto, rank, c, pick
<1> QED
  <2>1. Those(s, K) \in Seq(S) /\ Len(Those(s, K)) = c
    <3>1. \A n \in 1..c : s[pick(n)] \in S
      BY <1>8, <1>11
    <3>2. Those(s, K) \in [1..c -> S]
      BY <1>10, <3>1
    <3> QED
      BY <1>1, <3>2
  <2>2. \A n \in 1..c : Those(s, K)[n] = s[pick(n)]
    BY <1>10
  <2> QED
    BY <1>2, <1>8, <1>9, <2>1, <2>2 DEF c

\* What an event is about.
LEMMA EventParts ==
    ASSUME NEW e \in Event
    PROVE  /\ e.kind \in {"created", "modified", "deleted", "moved"}
           /\ e.src \in File \union Folder
           /\ e.kind \in {"created", "modified"} => e.src \in File
           /\ e.kind = "moved" => \/ e.src \in File /\ e.dst \in File
                                  \/ e.src \in Folder /\ e.dst \in Folder
BY DEF Event

LEMMA EventsAre ==
    /\ \A f \in File : Ev("created", f) \in Event /\ Ev("modified", f) \in Event
    /\ \A p \in File \union Folder : Ev("deleted", p) \in Event
    /\ \A f, g \in File : Mv(f, g) \in Event
    /\ \A d, e \in Folder : Mv(d, e) \in Event
BY DEF Event, Ev, Mv

\* The files of a folder arrive as files.
Movable(e) ==
    e.kind = "moved" /\ e.src \in Folder
        => \A f \in Below(e.src) : Moved(f, e.src, e.dst) \in File

\* The events of a change are told in the order of the change; what is left out
\* is lost.
Reported(new, events) ==
    /\ queue' = queue \o new
    /\ \A i \in 1..Len(new) :
          Seen(new[i]) /\ \E j \in 1..Len(events) : new[i] = events[j]
    /\ \A j \in 1..Len(events) : \A f \in File :
          Touches(events[j], f) /\ Seen(events[j]) =>
              \/ \E i \in 1..Len(new) : new[i] = events[j]
              \/ f \in missed' /\ f \in strayed'
    /\ Len(new) <= Len(events)
    /\ \A f \in File :
          \/ \E i \in 1..Len(new) :
                new[i].kind \in {"created", "modified", "deleted"} /\ Under(f, new[i].src)
          \/ f \in missed => f \in missed'
    /\ \A f \in File :
          \/ \E i \in 1..Len(new) : new[i].kind = "created" /\ Under(f, new[i].src)
          \/ f \in strayed => f \in strayed'
    /\ \A i \in 1..Len(new) : \A f \in File :
          new[i].kind = "moved" /\ Under(f, new[i].dst) /\ Unsettled(new[i])
              => f \in missed' /\ f \in strayed'
    /\ recent' \subseteq recent \union {events[i].src : i \in 1..Len(events)}
    /\ missed' \subseteq File /\ (strayed \subseteq File => strayed' \subseteq File)
    /\ ops' = ops + 1
    /\ UNCHANGED <<task, row, head>>

LEMMA ReportFacts ==
    ASSUME TypeOK, NEW events \in Seq(Event), Report(events)
    PROVE  \E new \in Seq(Event) : Reported(new, events)
<1> DEFINE seen == {i \in DOMAIN events : Seen(events[i])}
           through == {i \in seen : events[i].src \notin recent /\ InSubscription(events[i])}
           delivered == {events[i] : i \in through}
           dropped == {events[i] : i \in seen \ through}
           told(kinds) == {p \in File : \E e \in delivered : e.kind \in kinds /\ Under(p, e.src)}
           lost == {p \in File : \/ \E e \in dropped : Touches(e, p)
                                \/ \E e \in delivered :
                                      e.kind = "moved" /\ Under(p, e.dst) /\ Unsettled(e)}
           new == Those(events, through)
<1>1. /\ queue' = queue \o new
      /\ recent' = recent \union {events[i].src : i \in seen}
      /\ missed' = (missed \ told({"created", "modified", "deleted"})) \union lost
      /\ strayed' = (strayed \ told({"created"})) \union lost
      /\ ops' = ops + 1
      /\ UNCHANGED <<task, row, head>>
  BY DEF Report
<1>2. through \subseteq 1..Len(events) /\ through \subseteq seen /\ seen \subseteq 1..Len(events)
  OBVIOUS
<1>3. /\ new \in Seq(Event)
      /\ Len(new) = Cardinality(through)
      /\ \A n \in 1..Len(new) : \E i \in through : new[n] = events[i]
      /\ \A i \in through : \E n \in 1..Len(new) : new[n] = events[i]
  <2> HIDE DEF through
  <2> QED
    BY <1>2, ThoseFacts
<1>4. Len(new) <= Len(events)
  <2> HIDE DEF new, through, seen, delivered, dropped, told, lost
  <2>1. IsFiniteSet(1..Len(events)) /\ Cardinality(1..Len(events)) = Len(events)
    <3>1. Len(events) \in Nat
      OBVIOUS
    <3>2. \A n \in Nat : IsFiniteSet(1..n) /\ Cardinality(1..n) = n
      BY FS_Interval
    <3> QED
      BY <3>1, <3>2
  <2>2. through \in SUBSET (1..Len(events))
    BY <1>2
  <2>3. Cardinality(through) <= Cardinality(1..Len(events))
    BY <2>1, <2>2, FS_Subset
  <2> QED
    BY <1>3, <2>1, <2>3
<1>5. \A e : e \in delivered <=> \E n \in 1..Len(new) : new[n] = e
  <2> HIDE DEF new, through
  <2> QED
    BY <1>3
<1>6. \A j \in 1..Len(events) : \A f \in File :
         Touches(events[j], f) /\ Seen(events[j]) => events[j] \in delivered \/ f \in lost
  OBVIOUS
<1>7. \A n \in 1..Len(new) : \A f \in File :
         new[n].kind = "moved" /\ Under(f, new[n].dst) /\ Unsettled(new[n]) => f \in lost
  <2> HIDE DEF new, delivered, dropped
  <2> QED
    BY <1>5
<1>8. \A f \in File :
         /\ f \in told({"created", "modified", "deleted"}) =>
              \E i \in 1..Len(new) :
                 new[i].kind \in {"created", "modified", "deleted"} /\ Under(f, new[i].src)
         /\ f \in told({"created"}) =>
              \E i \in 1..Len(new) : new[i].kind = "created" /\ Under(f, new[i].src)
  <2> HIDE DEF new, delivered
  <2> QED
    BY <1>5
<1>9. lost \subseteq File
  OBVIOUS
<1>10. \A j \in 1..Len(events) : \A f \in File :
         Touches(events[j], f) /\ Seen(events[j]) =>
            (\E i \in 1..Len(new) : new[i] = events[j]) \/ f \in lost
  <2> HIDE DEF new, delivered, lost
  <2> QED
    BY <1>5, <1>6
<1>11. /\ \A n \in 1..Len(new) : Seen(new[n]) /\ \E j \in 1..Len(events) : new[n] = events[j]
       /\ recent' \subseteq recent \union {events[i].src : i \in 1..Len(events)}
  <2>3. \A i \in through : Seen(events[i])
    OBVIOUS
  <2> HIDE DEF new, through
  <2>1. \A n \in 1..Len(new) : Seen(new[n]) /\ \E j \in 1..Len(events) : new[n] = events[j]
    BY <1>2, <1>3, <2>3
  <2>2. recent' \subseteq recent \union {events[i].src : i \in 1..Len(events)}
    BY <1>1, <1>2
  <2> QED
    BY <2>1, <2>2
<1>12. missed \subseteq File
  BY DEF TypeOK
<1> HIDE DEF seen, through, delivered, dropped, told, lost, new
<1>13. /\ \A f \in File : f \in lost => f \in missed' /\ f \in strayed'
       /\ \A f \in File : f \in missed => \/ f \in missed'
                                         \/ f \in told({"created", "modified", "deleted"})
       /\ \A f \in File : f \in strayed => f \in strayed' \/ f \in told({"created"})
       /\ missed' \subseteq File
       /\ strayed \subseteq File => strayed' \subseteq File
  BY <1>1, <1>9, <1>12
<1>14. new \in Seq(Event)
  BY <1>3
<1> USE <1>14
<1> WITNESS new \in Seq(Event)
<1> QED
  BY <1>1, <1>3, <1>4, <1>7, <1>8, <1>10, <1>11, <1>13 DEF Reported

-----------------------------------------------------------------------------
(* Changes on the disk. *)

\* A sequence with one more element in front.
LEMMA OneMore ==
    ASSUME NEW S, NEW x \in S, NEW r \in Seq(S)
    PROVE  /\ <<x>> \o r \in Seq(S)
           /\ Len(<<x>> \o r) = Len(r) + 1
           /\ (<<x>> \o r)[1] = x
           /\ \A i \in 1..Len(r) : (<<x>> \o r)[i + 1] = r[i]
           /\ \A j \in 1..Len(r) + 1 :
                 j = 1 \/ (j - 1 \in 1..Len(r) /\ (<<x>> \o r)[j] = r[j - 1])
<1> DEFINE one == <<x>>
<1>1. one \in Seq(S) /\ Len(one) = 1 /\ one[1] = x /\ Len(r) \in Nat
  OBVIOUS
<1> HIDE DEF one
<1>2. /\ one \o r \in Seq(S) /\ Len(one \o r) = 1 + Len(r)
      /\ \A i \in 1..1 + Len(r) : (one \o r)[i] = IF i <= 1 THEN one[i] ELSE r[i - 1]
  <2>1. one \in Seq(S) /\ r \in Seq(S)
    BY <1>1
  <2>2. /\ one \o r \in Seq(S) /\ Len(one \o r) = Len(one) + Len(r)
        /\ \A i \in 1..Len(one) + Len(r) :
              (one \o r)[i] = IF i <= Len(one) THEN one[i] ELSE r[i - Len(one)]
    BY <2>1, ConcatProperties, Zenon
  <2> QED
    BY <1>1, <2>2
<1>3. (one \o r)[1] = x /\ Len(one \o r) = Len(r) + 1
  BY <1>1, <1>2
<1>4. \A i \in 1..Len(r) : (one \o r)[i + 1] = r[i]
  BY <1>1, <1>2
<1>5. \A j \in 1..Len(r) + 1 : j = 1 \/ (j - 1 \in 1..Len(r) /\ (one \o r)[j] = r[j - 1])
  BY <1>1, <1>2
<1> QED
  BY <1>2, <1>3, <1>4, <1>5 DEF one

LEMMA RestOf ==
    ASSUME NEW N, NEW s \in Seq(N), NEW n \in Nat, n <= Len(s)
    PROVE  /\ SubSeq(s, n + 1, Len(s)) \in Seq(N)
           /\ Len(SubSeq(s, n + 1, Len(s))) = Len(s) - n
           /\ \A i \in 1..Len(s) - n : SubSeq(s, n + 1, Len(s))[i] = s[n + i]
<1>1. Len(s) \in Nat /\ n + 1 \in 1..Len(s) + 1 /\ Len(s) \in n..Len(s)
  OBVIOUS
<1>2. \A i \in n + 1..Len(s) : s[i] \in N
  OBVIOUS
<1>3. /\ SubSeq(s, n + 1, Len(s)) \in Seq(N)
      /\ Len(SubSeq(s, n + 1, Len(s))) = Len(s) - n
  BY <1>1, <1>2, SubSeqProperties
<1>4. \A i \in 1..Len(s) - n : SubSeq(s, n + 1, Len(s))[i] = s[n + i]
  BY <1>1, SubSeqProperties
<1> QED
  BY <1>3, <1>4

\* The paths below a folder, and where they arrive.
LEMMA MovedFacts ==
    ASSUME NEW N, NEW p \in Seq(N), NEW d \in Seq(N), NEW e \in Seq(N), Under(p, d)
    PROVE  /\ Moved(p, d, e) \in Seq(N)
           /\ Under(Moved(p, d, e), e)
           /\ Moved(Moved(p, d, e), e, d) = p
<1> DEFINE q == Moved(p, d, e)
           rest == SubSeq(p, Len(d) + 1, Len(p))
<1>1. Len(d) \in Nat /\ Len(p) \in Nat /\ Len(e) \in Nat /\ Len(d) <= Len(p)
  BY DEF Under
<1>2. /\ rest \in Seq(N)
      /\ Len(rest) = Len(p) - Len(d)
      /\ \A i \in 1..Len(p) - Len(d) : rest[i] = p[Len(d) + i]
  BY <1>1, RestOf
<1>3. q = e \o rest
  BY DEF Moved
<1> HIDE DEF q, rest
<1>4. /\ q \in Seq(N)
      /\ Len(q) = Len(e) + (Len(p) - Len(d))
      /\ \A i \in 1..Len(e) : q[i] = e[i]
      /\ \A i \in 1..Len(p) - Len(d) : q[Len(e) + i] = p[Len(d) + i]
  <2>1. q \in Seq(N) /\ Len(q) = Len(e) + Len(rest)
    BY <1>2, <1>3, ConcatProperties
  <2>2. \A i \in 1..Len(e) : q[i] = e[i]
    BY <1>1, <1>2, <1>3
  <2>3. \A i \in 1..Len(rest) : q[Len(e) + i] = rest[i]
    BY <1>1, <1>2, <1>3
  <2> QED
    BY <1>2, <2>1, <2>2, <2>3
<1>5. Under(q, e)
  BY <1>1, <1>4 DEF Under
<1> DEFINE back == SubSeq(q, Len(e) + 1, Len(q))
<1>6. /\ back \in Seq(N)
      /\ Len(back) = Len(p) - Len(d)
      /\ \A i \in 1..Len(p) - Len(d) : back[i] = p[Len(d) + i]
  <2>1. /\ back \in Seq(N)
        /\ Len(back) = Len(q) - Len(e)
        /\ \A i \in 1..Len(q) - Len(e) : back[i] = q[Len(e) + i]
    <3>1. q \in Seq(N) /\ Len(e) \in Nat /\ Len(e) <= Len(q)
      BY <1>1, <1>4
    <3> QED
      BY <3>1, RestOf
  <2>2. Len(q) - Len(e) = Len(p) - Len(d)
    BY <1>1, <1>4
  <2> HIDE DEF back
  <2> QED
    BY <1>4, <2>1, <2>2
<1>7. Moved(q, e, d) = d \o back
  BY DEF Moved
<1> HIDE DEF back
<1>8. /\ d \o back \in Seq(N)
      /\ Len(d \o back) = Len(p)
      /\ \A i \in 1..Len(d) : (d \o back)[i] = p[i]
      /\ \A i \in Len(d) + 1..Len(p) : (d \o back)[i] = p[i]
  <2>1. \A i \in 1..Len(d) : d[i] = p[i]
    BY DEF Under
  <2>2. \A i \in Len(d) + 1..Len(p) : (d \o back)[i] = back[i - Len(d)]
    BY <1>1, <1>6
  <2>3. \A i \in Len(d) + 1..Len(p) : back[i - Len(d)] = p[i]
    <3> SUFFICES ASSUME NEW i \in Len(d) + 1..Len(p) PROVE back[i - Len(d)] = p[i]
      OBVIOUS
    <3>1. i - Len(d) \in 1..Len(p) - Len(d) /\ Len(d) + (i - Len(d)) = i
      BY <1>1
    <3> QED
      BY <1>6, <3>1
  <2> QED
    BY <1>1, <1>6, <2>1, <2>2, <2>3
<1>9. d \o back = p
  <2>1. \A i \in 1..Len(p) : (d \o back)[i] = p[i]
    BY <1>1, <1>8
  <2> QED
    BY <1>8, <2>1, SeqEqual
<1> QED
  BY <1>4, <1>5, <1>7, <1>9 DEF q

\* An order of a finite set has all of it.
LEMMA OrdersFacts ==
    ASSUME NEW S, IsFiniteSet(S), NEW from \in SetToSeqs(S)
    PROVE  from \in Seq(S) /\ \A x \in S : \E i \in 1..Len(from) : from[i] = x
<1> DEFINE c == Cardinality(S)
<1>1. c \in Nat
  BY FS_CardinalityType
<1>2. from \in [1..c -> S] /\ \A i, j \in 1..c : i # j => from[i] # from[j]
  BY DEF SetToSeqs
<1>3. IsFiniteSet(1..c) /\ Cardinality(1..c) = c
  BY <1>1, FS_Interval
<1>4. from \in Injection(1..c, S)
  <2> HIDE DEF c
  <2> QED
    BY <1>2 DEF Injection, IsInjective
<1>5. from \in Surjection(1..c, S)
  BY <1>3, <1>4, FS_Injection
<1> QED
  <2> HIDE DEF c
  <2>1. from \in Seq(S) /\ Len(from) = c
    BY <1>1, <1>2
  <2> QED
    BY <1>5, <2>1 DEF Surjection

\* Inodes are used once at a time.
Distinct ==
    \A f, g \in File : Exists(f) /\ Exists(g) /\ disk[f].ino = disk[g].ino => f = g

DiskOK == disk \in [File -> [ino : Ino, content : Content] \union {None}]

\* The last that the events of a change tell of a file is true.  A file that
\* arrives with its folder is told twice: with it, and by itself.
Honest(events) ==
    \A f \in File :
        /\ (\A j \in 1..Len(events) : ~Touches(events[j], f)) => disk'[f] = disk[f]
        /\ \A j \in 1..Len(events) : Touches(events[j], f) =>
              LET e == events[j] IN
              /\ e.kind = "created" => Exists(f)'
              /\ e.kind = "modified" => Exists(f) /\ Exists(f)' /\ disk'[f].ino = disk[f].ino
              /\ e.kind = "deleted" => ~Exists(f)'
              /\ e.kind = "moved" /\ ~Under(f, e.dst) => ~Exists(f)'
              /\ e.kind = "moved" /\ Under(f, e.dst) =>
                    \/ \E k \in 1..Len(events) :
                          /\ events[k].kind = "moved"
                          /\ events[k].src \in Folder
                          /\ Under(f, events[k].dst)
                          /\ \A i \in 1..Len(events) : events[i].kind = "moved"
                    \/ /\ Len(events) = 1 /\ e.src \in File /\ e.dst = f
                       /\ Exists(e.src) /\ disk'[f] = disk[e.src]

Change(events) ==
    /\ events \in Seq(Event)
    /\ \A j \in 1..Len(events) : Movable(events[j])
    /\ Report(events)
    /\ DiskOK'
    /\ Distinct => Distinct'
    /\ Honest(events)

LEMMA FileUnder ==
    ASSUME NEW N, Setting(N), NEW f \in File, NEW g \in File
    PROVE  Under(f, g) <=> f = g
<1>1. Under(f, f)
  BY DEF Under, Setting
<1> QED
  BY <1>1 DEF Setting

\* A change of one path.
LEMMA ChangeOfFile ==
    ASSUME NEW N, Setting(N), TypeOK, NEW f \in File, Create(f) \/ Modify(f) \/ Delete(f)
    PROVE  \E events : Change(events)
<1>1. \A g \in File : Under(g, f) <=> g = f
  BY FileUnder
<1>2. /\ \A g \in File : (Exists(g))' <=> disk'[g] # None
      /\ \A g \in File : Exists(g) <=> disk[g] # None
      /\ disk \in [File -> [ino : Ino, content : Content] \union {None}]
      /\ None \notin [ino : Ino, content : Content]
  BY DEF Exists, TypeOK, Setting
<1>3. ASSUME NEW kind \in {"created", "modified", "deleted"}, Report(<<Ev(kind, f)>>),
             DiskOK', Distinct => Distinct',
             \A g \in File \ {f} : disk'[g] = disk[g],
             kind = "created" => Exists(f)',
             kind = "modified" => Exists(f) /\ Exists(f)' /\ disk'[f].ino = disk[f].ino,
             kind = "deleted" => ~Exists(f)'
      PROVE  Change(<<Ev(kind, f)>>)
  <2> DEFINE events == <<Ev(kind, f)>>
  <2>1. events \in Seq(Event) /\ Len(events) = 1 /\ events[1] = Ev(kind, f)
    BY EventsAre
  <2>2. Ev(kind, f).kind = kind /\ Ev(kind, f).src = f
    BY DEF Ev
  <2>3. \A g \in File : Touches(Ev(kind, f), g) <=> g = f
    BY <1>1, <2>2 DEF Touches
  <2> HIDE DEF events
  <2>4. \A j \in 1..Len(events) : events[j] = Ev(kind, f) /\ 1 \in 1..Len(events)
    BY <2>1
  <2>5. Honest(events)
    BY <1>3, <2>1, <2>2, <2>3, <2>4 DEF Honest
  <2>6. \A j \in 1..Len(events) : Movable(events[j])
    BY <2>2, <2>4 DEF Movable
  <2>7. Report(events)
    BY <1>3 DEF events
  <2>8. Change(events)
    BY <1>3, <2>1, <2>5, <2>6, <2>7 DEF Change
  <2> QED
    BY <2>8 DEF events
<1>4. CASE Create(f)
  <2>1. PICK i \in Ino \ {disk[g].ino : g \in {h \in File : Exists(h)}}, c \in Content :
          disk' = [disk EXCEPT ![f] = [ino |-> i, content |-> c]]
    BY <1>4 DEF Create
  <2>2. DiskOK' /\ disk'[f] = [ino |-> i, content |-> c] /\ \A g \in File \ {f} : disk'[g] = disk[g]
    BY <1>2, <2>1 DEF DiskOK
  <2>3. Exists(f)'
    BY <1>2, <2>2
  <2>4. Distinct => Distinct'
    <3>1. \A g \in File \ {f} : Exists(g) => disk[g].ino # i
      OBVIOUS
    <3>2. disk'[f].ino = i
      BY <2>2
    <3> QED
      BY <1>2, <2>2, <3>1, <3>2 DEF Distinct
  <2> QED
    BY <1>3, <1>4, <2>2, <2>3, <2>4 DEF Create
<1>5. CASE Modify(f)
  <2>1. PICK c \in Content : disk' = [disk EXCEPT ![f].content = c]
    BY <1>5 DEF Modify
  <2>2. disk[f] \in [ino : Ino, content : Content] /\ Exists(f)
    BY <1>2, <1>5 DEF Modify
  <2>3. /\ disk'[f] \in [ino : Ino, content : Content]
        /\ disk'[f].ino = disk[f].ino
        /\ \A g \in File \ {f} : disk'[g] = disk[g]
    BY <1>2, <2>1, <2>2
  <2>4. DiskOK'
    BY <1>2, <2>1, <2>3 DEF DiskOK
  <2>5. Exists(f)'
    BY <1>2, <2>3
  <2>6. Distinct => Distinct'
    BY <1>2, <2>2, <2>3, <2>5 DEF Distinct
  <2> QED
    BY <1>3, <1>5, <2>2, <2>3, <2>4, <2>5, <2>6 DEF Modify
<1>6. CASE Delete(f)
  <2>1. disk'[f] = None /\ \A g \in File \ {f} : disk'[g] = disk[g]
    BY <1>2, <1>6 DEF Delete
  <2>2. DiskOK'
    BY <1>2, <1>6 DEF Delete, DiskOK
  <2>3. Distinct => Distinct'
    BY <1>2, <2>1 DEF Distinct
  <2>4. ~(Exists(f)')
    BY <1>2, <2>1
  <2> QED
    BY <1>3, <1>6, <2>1, <2>2, <2>3, <2>4 DEF Delete
<1> QED
  BY <1>4, <1>5, <1>6

\* A file gets another path.
LEMMA ChangeOfPath ==
    ASSUME NEW N, Setting(N), TypeOK, NEW f \in File, NEW g \in File, Rename(f, g)
    PROVE  \E events : Change(events)
<1>1. \A p, q \in File : Under(p, q) <=> p = q
  BY FileUnder
<1>2. /\ \A h \in File : (Exists(h))' <=> disk'[h] # None
      /\ \A h \in File : Exists(h) <=> disk[h] # None
      /\ disk \in [File -> [ino : Ino, content : Content] \union {None}]
      /\ None \notin [ino : Ino, content : Content]
  BY DEF Exists, TypeOK, Setting
<1>3. f # g /\ Exists(f) /\ disk' = [disk EXCEPT ![g] = disk[f], ![f] = None]
  BY DEF Rename
<1>4. /\ disk'[g] = disk[f]
      /\ disk'[f] = None
      /\ \A h \in File : h # f /\ h # g => disk'[h] = disk[h]
  BY <1>2, <1>3
<1>5. DiskOK'
  BY <1>2, <1>3 DEF DiskOK
<1>6. Distinct => Distinct'
  BY <1>2, <1>3, <1>4 DEF Distinct
<1>7. CASE Report(<<Mv(f, g)>>)
  <2> DEFINE events == <<Mv(f, g)>>
  <2>1. events \in Seq(Event) /\ Len(events) = 1 /\ events[1] = Mv(f, g)
    BY EventsAre
  <2>2. Mv(f, g).kind = "moved" /\ Mv(f, g).src = f /\ Mv(f, g).dst = g
    BY DEF Mv
  <2>3. \A h \in File : Touches(Mv(f, g), h) <=> h = f \/ h = g
    BY <1>1, <2>2 DEF Touches
  <2>4. Report(events)
    BY <1>7
  <2> HIDE DEF events
  <2>5. \A j \in 1..Len(events) : events[j] = Mv(f, g) /\ 1 \in 1..Len(events)
    BY <2>1
  <2>6. Honest(events)
    BY <1>1, <1>2, <1>3, <1>4, <2>1, <2>2, <2>3, <2>5 DEF Honest
  <2>7. \A j \in 1..Len(events) : Movable(events[j])
    <3>1. f \notin Folder
      <4>1. Under(f, f)
        BY <1>1
      <4> QED
        BY <4>1 DEF Setting
    <3> QED
      BY <2>2, <2>5, <3>1 DEF Movable
  <2> QED
    BY <1>5, <1>6, <2>1, <2>4, <2>6, <2>7 DEF Change
<1>8. CASE Report(<<Ev("deleted", f), Ev("created", g)>>)
  <2> DEFINE events == <<Ev("deleted", f), Ev("created", g)>>
  <2>1. /\ events \in Seq(Event)
        /\ Len(events) = 2
        /\ events[1] = Ev("deleted", f) /\ events[2] = Ev("created", g)
    BY EventsAre
  <2>2. /\ Ev("deleted", f).kind = "deleted" /\ Ev("deleted", f).src = f
        /\ Ev("created", g).kind = "created" /\ Ev("created", g).src = g
    BY DEF Ev
  <2>3. \A h \in File : /\ Touches(Ev("deleted", f), h) <=> h = f
                        /\ Touches(Ev("created", g), h) <=> h = g
    BY <1>1, <2>2 DEF Touches
  <2>4. Report(events)
    BY <1>8
  <2> HIDE DEF events
  <2>5. /\ \A j \in 1..Len(events) : events[j] = Ev("deleted", f) \/ events[j] = Ev("created", g)
        /\ 1 \in 1..Len(events) /\ 2 \in 1..Len(events)
    BY <2>1
  <2>6. Honest(events)
    BY <1>1, <1>2, <1>3, <1>4, <2>1, <2>2, <2>3, <2>5 DEF Honest
  <2>7. \A j \in 1..Len(events) : Movable(events[j])
    BY <2>2, <2>5 DEF Movable
  <2> QED
    BY <1>5, <1>6, <2>1, <2>4, <2>6, <2>7 DEF Change
<1> QED
  BY <1>7, <1>8 DEF Rename

\* A folder gets another path, with all that is in it.
LEMMA ChangeOfFolder ==
    ASSUME NEW N, Setting(N), TypeOK, NEW d \in Folder, NEW e \in Folder, RenameFolder(d, e)
    PROVE  \E events : Change(events)
<1>1. \A p, q \in File : Under(p, q) <=> p = q
  BY FileUnder
<1>2. /\ \A h \in File : (Exists(h))' <=> disk'[h] # None
      /\ \A h \in File : Exists(h) <=> disk[h] # None
      /\ disk \in [File -> [ino : Ino, content : Content] \union {None}]
      /\ None \notin [ino : Ino, content : Content]
  BY DEF Exists, TypeOK, Setting
<1>3. /\ ~Under(e, d)
      /\ \E f \in Below(d) : Exists(f)
      /\ \A f \in Below(e) : ~Exists(f)
      /\ \A f \in Below(d) : Moved(f, d, e) \in File
      /\ disk' = [f \in File |->
                     IF Under(f, e) /\ Moved(f, e, d) \in File THEN disk[Moved(f, e, d)]
                     ELSE IF Under(f, d) THEN None ELSE disk[f]]
  BY DEF RenameFolder
<1>4. File \subseteq Seq(N) /\ d \in Seq(N) /\ e \in Seq(N)
  BY DEF Setting
<1>5. ASSUME NEW f \in File, Under(f, d), Under(f, e)
      PROVE  FALSE
  <2>1. f \in Seq(N) /\ Len(d) \in Nat /\ Len(e) \in Nat
    BY <1>4
  <2>2. CASE Len(d) <= Len(e)
    BY <1>3, <1>4, <1>5, <2>1, <2>2, UnderIsATree
  <2>3. CASE Len(e) <= Len(d)
    <3>1. Under(d, e)
      BY <1>4, <1>5, <2>1, <2>3, UnderIsATree
    <3>2. PICK g \in Below(d) : Exists(g)
      BY <1>3
    <3>3. g \in File /\ g \in Seq(N) /\ Under(g, d)
      BY <1>4 DEF Below
    <3>4. Under(g, e)
      BY <1>4, <3>1, <3>3, UnderTransitive
    <3> QED
      BY <1>3, <3>2, <3>3, <3>4 DEF Below
  <2> QED
    BY <2>1, <2>2, <2>3
<1>6. \A f \in File : Under(f, d) =>
         /\ Moved(f, d, e) \in File
         /\ Under(Moved(f, d, e), e)
         /\ Moved(Moved(f, d, e), e, d) = f
  BY <1>3, <1>4, MovedFacts DEF Below
<1>7. \A f \in File : Under(f, e) =>
         /\ Under(Moved(f, e, d), d)
         /\ Moved(Moved(f, e, d), d, e) = f
  BY <1>4, MovedFacts
<1>8. \A f \in File :
         /\ Under(f, e) /\ Moved(f, e, d) \in File => disk'[f] = disk[Moved(f, e, d)]
         /\ Under(f, e) /\ Moved(f, e, d) \notin File => disk'[f] = disk[f]
         /\ Under(f, d) => disk'[f] = None
         /\ ~Under(f, d) /\ ~Under(f, e) => disk'[f] = disk[f]
         /\ Under(f, e) => disk[f] = None
  BY <1>2, <1>3, <1>5 DEF Below
<1>9. DiskOK'
  <2>1. \A f \in File : disk'[f] \in [ino : Ino, content : Content] \union {None}
    BY <1>2, <1>8
  <2> QED
    BY <1>3, <2>1 DEF DiskOK
<1>10. Distinct => Distinct'
  <2> SUFFICES ASSUME Distinct, NEW f \in File, NEW g \in File,
                      Exists(f)', Exists(g)', disk'[f].ino = disk'[g].ino
               PROVE  f = g
    BY DEF Distinct
  <2> DEFINE was(h) == IF Under(h, e) THEN Moved(h, e, d) ELSE h
  <2>1. ASSUME NEW h \in File, Exists(h)'
        PROVE  /\ was(h) \in File
               /\ Exists(was(h))
               /\ disk'[h] = disk[was(h)]
               /\ Under(was(h), d) <=> Under(h, e)
               /\ Under(h, e) => Moved(was(h), d, e) = h
    BY <1>2, <1>5, <1>7, <1>8, <2>1
  <2>2. /\ was(f) \in File /\ Exists(was(f)) /\ disk'[f] = disk[was(f)]
        /\ was(g) \in File /\ Exists(was(g)) /\ disk'[g] = disk[was(g)]
    BY <2>1
  <2>3. was(f) = was(g)
    <3> HIDE DEF was
    <3> QED
      BY <2>2 DEF Distinct
  <2>4. Under(f, e) <=> Under(g, e)
    <3>1. Under(was(f), d) <=> Under(f, e)
      BY <2>1
    <3>2. Under(was(g), d) <=> Under(g, e)
      BY <2>1
    <3> HIDE DEF was
    <3> QED
      BY <2>3, <3>1, <3>2
  <2>5. CASE Under(f, e)
    <3>1. Moved(was(f), d, e) = f /\ Moved(was(g), d, e) = g
      BY <2>1, <2>4, <2>5
    <3> HIDE DEF was
    <3> QED
      BY <2>3, <3>1
  <2>6. CASE ~Under(f, e)
    BY <2>3, <2>4, <2>6
  <2> QED
    BY <2>5, <2>6
<1> DEFINE S == {f \in Below(d) : Exists(f)}
<1>11. IsFiniteSet(S) /\ S \subseteq File /\ \A f \in S : Under(f, d) /\ Exists(f)
  <2>1. S \in SUBSET File
    BY DEF Below
  <2>2. IsFiniteSet(S)
    BY <2>1, FS_Subset DEF Setting
  <2> QED
    BY <2>1, <2>2 DEF Below
<1>12. \A f \in File : Under(f, d) /\ Exists(f) => f \in S
  BY DEF Below
<1>13. PICK from \in SetToSeqs(S) :
          LET to == [i \in DOMAIN from |-> Moved(from[i], d, e)]
          IN  \/ Report(<<Mv(d, e)>> \o [i \in DOMAIN from |-> Mv(from[i], to[i])])
              \/ /\ ~SameRepo(d, e)
                 /\ Report(<<Ev("deleted", d)>> \o [i \in DOMAIN from |-> Ev("created", to[i])])
  BY DEF RenameFolder
<1> HIDE DEF S
<1>14. from \in Seq(S) /\ \A f \in S : \E i \in 1..Len(from) : from[i] = f
  BY <1>11, OrdersFacts
<1> DEFINE to == [i \in DOMAIN from |-> Moved(from[i], d, e)]
           n == Len(from)
<1>15. n \in Nat /\ DOMAIN from = 1..n
  BY <1>14
<1>16. \A i \in 1..n : /\ from[i] \in File /\ Under(from[i], d) /\ Exists(from[i])
                       /\ to[i] = Moved(from[i], d, e)
                       /\ to[i] \in File /\ Under(to[i], e)
                       /\ Moved(to[i], e, d) = from[i]
  <2>1. \A i \in 1..n : from[i] \in S
    BY <1>14
  <2>2. \A i \in 1..n : to[i] = Moved(from[i], d, e)
    BY <1>15
  <2> HIDE DEF to, n
  <2> QED
    BY <1>6, <1>11, <2>1, <2>2
<1>17. \A f \in File : Under(f, d) /\ Exists(f) => \E i \in 1..n : from[i] = f
  BY <1>12, <1>14
<1>18. CASE Report(<<Mv(d, e)>> \o [i \in DOMAIN from |-> Mv(from[i], to[i])])
  <2> DEFINE rest == [i \in DOMAIN from |-> Mv(from[i], to[i])]
             events == <<Mv(d, e)>> \o rest
  <2>1. /\ rest \in Seq(Event) /\ Len(rest) = n
        /\ \A i \in 1..n : rest[i] = Mv(from[i], to[i])
    <3>1. \A i \in 1..n : rest[i] = Mv(from[i], to[i])
      BY <1>15
    <3>2. \A i \in 1..n : rest[i] \in Event
      <4> HIDE DEF to, rest
      <4> QED
        BY <1>16, <3>1, EventsAre
    <3>3. rest \in [1..n -> Event]
      <4>1. DOMAIN rest = 1..n /\ rest = [i \in DOMAIN rest |-> rest[i]]
        BY <1>15
      <4> HIDE DEF rest, n
      <4> QED
        BY <3>2, <4>1
    <3> HIDE DEF rest, n
    <3> QED
      BY <1>15, <3>1, <3>3
  <2>2. Report(events)
    BY <1>18
  <2>3. /\ events \in Seq(Event) /\ Len(events) = n + 1
        /\ events[1] = Mv(d, e) /\ 1 \in 1..Len(events)
        /\ \A j \in 1..Len(events) : j = 1 \/ \E i \in 1..n : events[j] = Mv(from[i], to[i])
        /\ \A i \in 1..n : events[i + 1] = Mv(from[i], to[i]) /\ i + 1 \in 1..Len(events)
    <3>1. Mv(d, e) \in Event
      BY EventsAre
    <3> HIDE DEF rest, n, to
    <3> QED
      BY <1>15, <2>1, <3>1, OneMore
  <2> HIDE DEF events, rest, to, n
  <2>4. \A p, q : Mv(p, q).kind = "moved" /\ Mv(p, q).src = p /\ Mv(p, q).dst = q
    BY DEF Mv
  <2>5. \A j \in 1..Len(events) :
           /\ events[j].kind = "moved"
           /\ \A f \in File : Under(f, events[j].dst) => Under(f, e)
           /\ \A f \in File : Under(f, events[j].src) => Under(f, d)
    BY <1>1, <1>16, <2>3, <2>4
  <2>6. Honest(events)
    <3> SUFFICES ASSUME NEW f \in File
                 PROVE  /\ (\A j \in 1..Len(events) : ~Touches(events[j], f))
                             => disk'[f] = disk[f]
                        /\ \A j \in 1..Len(events) : Touches(events[j], f) =>
                             /\ ~Under(f, events[j].dst) => ~(Exists(f)')
                             /\ Under(f, events[j].dst) => Under(f, e)
      <4>1. \A f \in File : Under(f, e) =>
               \E k \in 1..Len(events) : /\ events[k].kind = "moved"
                                         /\ events[k].src \in Folder
                                         /\ Under(f, events[k].dst)
                                         /\ \A i \in 1..Len(events) : events[i].kind = "moved"
        <5> SUFFICES ASSUME NEW f \in File, Under(f, e)
                     PROVE  /\ 1 \in 1..Len(events)
                            /\ events[1].src \in Folder
                            /\ Under(f, events[1].dst)
                            /\ \A i \in 1..Len(events) : events[i].kind = "moved"
          OBVIOUS
        <5> QED
          BY <2>3, <2>4, <2>5
      <4> QED
        BY <2>5, <4>1 DEF Honest
    <3>1. ~Touches(Mv(d, e), f) => disk'[f] = disk[f]
      BY <1>8, <2>4 DEF Touches
    <3>2. ASSUME NEW j \in 1..Len(events), Touches(events[j], f), ~Under(f, events[j].dst)
          PROVE  ~(Exists(f)')
      <4>1. Under(f, d)
        BY <2>5, <3>2 DEF Touches
      <4> QED
        BY <1>2, <1>8, <4>1
    <3> QED
      BY <2>3, <2>5, <3>1, <3>2
  <2>7. \A j \in 1..Len(events) : Movable(events[j])
    <3>1. Movable(Mv(d, e))
      BY <1>3, <2>4 DEF Movable
    <3>2. \A i \in 1..n : Movable(Mv(from[i], to[i]))
      <4>1. \A f \in File : f \notin Folder
        BY <1>1 DEF Setting
      <4> QED
        BY <1>16, <2>4, <4>1 DEF Movable
    <3> QED
      BY <2>3, <3>1, <3>2
  <2> QED
    BY <1>9, <1>10, <2>2, <2>3, <2>6, <2>7 DEF Change
<1>19. CASE Report(<<Ev("deleted", d)>> \o [i \in DOMAIN from |-> Ev("created", to[i])])
  <2> DEFINE rest == [i \in DOMAIN from |-> Ev("created", to[i])]
             events == <<Ev("deleted", d)>> \o rest
  <2>1. /\ rest \in Seq(Event) /\ Len(rest) = n
        /\ \A i \in 1..n : rest[i] = Ev("created", to[i])
    <3>1. \A i \in 1..n : rest[i] = Ev("created", to[i])
      BY <1>15
    <3>2. \A i \in 1..n : rest[i] \in Event
      <4> HIDE DEF to, rest
      <4> QED
        BY <1>16, <3>1, EventsAre
    <3>3. rest \in [1..n -> Event]
      <4>1. DOMAIN rest = 1..n /\ rest = [i \in DOMAIN rest |-> rest[i]]
        BY <1>15
      <4> HIDE DEF rest, n
      <4> QED
        BY <3>2, <4>1
    <3> HIDE DEF rest, n
    <3> QED
      BY <1>15, <3>1, <3>3
  <2>2. Report(events)
    BY <1>19
  <2>3. /\ events \in Seq(Event) /\ Len(events) = n + 1
        /\ events[1] = Ev("deleted", d) /\ 1 \in 1..Len(events)
        /\ \A j \in 1..Len(events) : j = 1 \/ \E i \in 1..n : events[j] = Ev("created", to[i])
        /\ \A i \in 1..n : events[i + 1] = Ev("created", to[i]) /\ i + 1 \in 1..Len(events)
    <3>1. Ev("deleted", d) \in Event
      BY EventsAre
    <3> HIDE DEF rest, n, to
    <3>2. /\ events \in Seq(Event) /\ Len(events) = Len(rest) + 1
          /\ events[1] = Ev("deleted", d)
          /\ \A i \in 1..Len(rest) : events[i + 1] = rest[i]
          /\ \A j \in 1..Len(rest) + 1 :
                j = 1 \/ (j - 1 \in 1..Len(rest) /\ events[j] = rest[j - 1])
      BY <2>1, <3>1, OneMore
    <3> HIDE DEF events
    <3>3. n \in Nat /\ Len(rest) = n /\ 1 \in 1..n + 1 /\ \A i \in 1..n : i + 1 \in 1..n + 1
      BY <1>15, <2>1
    <3>4. \A j \in 1..n + 1 : j = 1 \/ \E i \in 1..n : events[j] = Ev("created", to[i])
      BY <2>1, <3>2, <3>3
    <3>5. \A i \in 1..n : events[i + 1] = Ev("created", to[i])
      BY <2>1, <3>2, <3>3
    <3> QED
      BY <3>2, <3>3, <3>4, <3>5
  <2> HIDE DEF events, rest, to, n
  <2>4. \A p : /\ Ev("deleted", p).kind = "deleted" /\ Ev("deleted", p).src = p
               /\ Ev("created", p).kind = "created" /\ Ev("created", p).src = p
    BY DEF Ev
  <2>5. \A f \in File : /\ Touches(Ev("deleted", d), f) <=> Under(f, d)
                        /\ \A i \in 1..n : Touches(Ev("created", to[i]), f) <=> (f = to[i])
    BY <1>1, <1>16, <2>4 DEF Touches
  <2>6. Honest(events)
    <3> SUFFICES ASSUME NEW f \in File
                 PROVE  /\ ~Under(f, d) /\ (\A i \in 1..n : f # to[i]) => disk'[f] = disk[f]
                        /\ \A i \in 1..n : f = to[i] => Exists(f)'
                        /\ Under(f, d) => ~(Exists(f)')
      <4>1. \A j \in 1..Len(events) :
               \/ events[j] = Ev("deleted", d)
               \/ \E i \in 1..n : events[j] = Ev("created", to[i])
        BY <2>3
      <4>2. \A f \in File : (\A j \in 1..Len(events) : ~Touches(events[j], f)) =>
               ~Under(f, d) /\ (\A i \in 1..n : f # to[i])
        BY <2>3, <2>5
      <4> QED
        BY <2>4, <2>5, <4>1, <4>2 DEF Honest
    <3>1. ASSUME ~Under(f, d), \A i \in 1..n : f # to[i]
          PROVE  disk'[f] = disk[f]
      <4>1. CASE Under(f, e) /\ Moved(f, e, d) \in File
        <5> DEFINE q == Moved(f, e, d)
        <5>1. Under(q, d) /\ Moved(q, d, e) = f
          BY <1>7, <4>1
        <5>2. ~Exists(q)
          BY <1>16, <1>17, <3>1, <4>1, <5>1
        <5> QED
          BY <1>2, <1>8, <4>1, <5>2
      <4> QED
        BY <1>8, <3>1, <4>1
    <3>2. \A i \in 1..n : f = to[i] => Exists(f)'
      BY <1>2, <1>8, <1>16
    <3> QED
      BY <1>2, <1>8, <3>1, <3>2
  <2>7. \A j \in 1..Len(events) : Movable(events[j])
    BY <2>3, <2>4 DEF Movable
  <2> QED
    BY <1>9, <1>10, <2>2, <2>3, <2>6, <2>7 DEF Change
<1> QED
  BY <1>13, <1>18, <1>19

\* What World does, but for the passing of time.
LEMMA WorldChanges ==
    ASSUME NEW N, Setting(N), TypeOK, World
    PROVE  /\ ops < MaxOps
           /\ (\E events : Change(events)) \/ \E p \in File \union Folder : Expire(p)
BY ChangeOfFile, ChangeOfPath, ChangeOfFolder DEF World

-----------------------------------------------------------------------------
(* Types. *)

Base == TypeOK /\ Distinct /\ \A i \in 1..Len(queue) : Movable(queue[i])

LEMMA FirstIsContent == First \in Content
<1>1. Content \subseteq Nat /\ Content # {}
  BY VersioningAssumption
<1>2. \E x \in Content : \A y \in Content : x <= y
  BY <1>1, LeastNatural
<1> QED
  BY <1>1, <1>2 DEF First, Min

LEMMA InitBase == ASSUME NEW N, Setting(N), Init PROVE Base
<1>1. First \in Content /\ Content \subseteq Nat /\ Start \subseteq File
  BY FirstIsContent, VersioningAssumption
<1>2. PICK i \in [Start -> Ino] :
          /\ IsInjective(i)
          /\ disk = [f \in File |-> IF f \in Start THEN [ino |-> i[f], content |-> First] ELSE None]
          /\ row = [n \in Ino |->
                       IF \E f \in Start : i[f] = n
                       THEN [loc |-> CHOOSE f \in Start : i[f] = n, active |-> TRUE]
                       ELSE None]
          /\ head = [p \in Tracked |-> IF p \in Start THEN First ELSE None]
  BY DEF Init
<1>3. disk \in [File -> [ino : Ino, content : Content] \union {None}]
  BY <1>1, <1>2
<1>4. row \in [Ino -> [loc : File, active : BOOLEAN] \union {None}]
  <2>1. \A n \in Ino : (\E f \in Start : i[f] = n) => (CHOOSE f \in Start : i[f] = n) \in File
    BY <1>1
  <2> QED
    BY <1>2, <2>1
<1>5. head \in [Tracked -> Content \union {None}]
  BY <1>1, <1>2
<1>6. /\ recent = {} /\ queue = <<>> /\ task = None /\ ops = 0 /\ missed = {} /\ strayed = {}
      /\ MaxOps \in Nat
  BY VersioningAssumption DEF Init
<1>7. Distinct
  <2>1. \A f, g \in Start : i[f] = i[g] => f = g
    BY <1>2 DEF IsInjective
  <2>2. \A f \in File : Exists(f) => f \in Start /\ disk[f].ino = i[f]
    BY <1>2 DEF Exists
  <2> QED
    BY <2>1, <2>2 DEF Distinct
<1> QED
  BY <1>3, <1>4, <1>5, <1>6, <1>7 DEF Base, TypeOK

LEMMA ChangeBase ==
    ASSUME NEW N, Setting(N), Base, NEW events, Change(events), ops < MaxOps
    PROVE  Base'
<1>1. TypeOK /\ events \in Seq(Event) /\ Report(events) /\ DiskOK' /\ Distinct'
  BY DEF Base, Change
<1>2. PICK new \in Seq(Event) :
         /\ queue' = queue \o new
         /\ \A i \in 1..Len(new) : \E j \in 1..Len(events) : new[i] = events[j]
         /\ recent' \subseteq recent \union {events[i].src : i \in 1..Len(events)}
         /\ missed' \subseteq File /\ (strayed \subseteq File => strayed' \subseteq File)
         /\ ops' = ops + 1
         /\ UNCHANGED <<task, row, head>>
  BY <1>1, ReportFacts DEF Reported
<1>3. queue \in Seq(Event) /\ queue' \in Seq(Event)
  BY <1>1, <1>2 DEF TypeOK
<1>4. recent' \subseteq File \union Folder
  <2>1. \A i \in 1..Len(events) : events[i] \in Event
    BY <1>1
  <2>2. \A i \in 1..Len(events) : events[i].src \in File \union Folder
    BY <2>1, EventParts
  <2> QED
    BY <1>1, <1>2, <2>2 DEF TypeOK
<1>5. ops' \in 0..MaxOps
  BY <1>1, <1>2, VersioningAssumption DEF TypeOK
<1>6. TypeOK'
  BY <1>1, <1>2, <1>3, <1>4, <1>5 DEF TypeOK, DiskOK
<1>7. \A i \in 1..Len(queue') : Movable(queue'[i])
  <2>1. \A i \in 1..Len(new) : Movable(new[i])
    BY <1>2 DEF Change
  <2>2. /\ Len(queue') = Len(queue) + Len(new)
        /\ \A i \in 1..Len(queue) : queue'[i] = queue[i]
        /\ \A i \in 1..Len(queue) + Len(new) :
              i \in 1..Len(queue) \/ (i - Len(queue) \in 1..Len(new)
                                        /\ queue'[i] = new[i - Len(queue)])
    <3>1. /\ Len(queue \o new) = Len(queue) + Len(new)
          /\ \A i \in 1..Len(queue) + Len(new) :
                (queue \o new)[i] = IF i <= Len(queue) THEN queue[i] ELSE new[i - Len(queue)]
      BY <1>3, ConcatProperties, Zenon
    <3>2. Len(queue) \in Nat /\ Len(new) \in Nat
      BY <1>3
    <3> QED
      BY <1>2, <3>1, <3>2
  <2> QED
    BY <2>1, <2>2 DEF Base
<1> QED
  BY <1>1, <1>6, <1>7 DEF Base

LEMMA SameDisk == ASSUME disk' = disk PROVE Distinct => Distinct'
BY DEF Distinct, Exists

LEMMA ExpireBase == ASSUME Base, NEW p, Expire(p) PROVE Base'
BY SameDisk DEF Expire, history, Base, TypeOK

\* Taking the first event.
LEMMA PickFacts ==
    ASSUME TypeOK, NEW kind, Pick(kind)
    PROVE  /\ Head(queue) \in Event /\ Head(queue).kind = kind
           /\ Head(queue) = queue[1] /\ 1 \in 1..Len(queue)
           /\ queue' \in Seq(Event)
           /\ Len(queue') = Len(queue) - 1
           /\ \A i \in 1..Len(queue') : queue'[i] = queue[i + 1] /\ i + 1 \in 1..Len(queue)
           /\ task = None
           /\ UNCHANGED <<disk, recent, ops>>
<1>1. queue \in Seq(Event) /\ queue # <<>> /\ queue' = Tail(queue)
  BY DEF Pick, TypeOK
<1>2. /\ Head(queue) \in Event /\ queue' \in Seq(Event)
      /\ Len(queue') = Len(queue) - 1
      /\ \A i \in 1..Len(queue') : queue'[i] = queue[i + 1]
  BY <1>1, HeadTailProperties
<1>3. Len(queue) \in Nat /\ Len(queue) # 0 /\ Head(queue) = queue[1]
  BY <1>1, EmptySeq
<1> QED
  BY <1>2, <1>3 DEF Pick

LEMMA AppendRowFacts ==
    ASSUME NEW N, Setting(N), TypeOK, NEW p \in File, Exists(p), AppendRow(p)
    PROVE  /\ disk[p].ino \in Ino
           /\ row' = [row EXCEPT ![disk[p].ino] = [loc |-> p, active |-> TRUE]]
           /\ row'[disk[p].ino] = [loc |-> p, active |-> TRUE]
           /\ row' \in [Ino -> [loc : File, active : BOOLEAN] \union {None}]
           /\ \A i \in Ino : row[i] # None => row'[i] # None
<1>1. disk[p] \in [ino : Ino, content : Content]
  BY DEF Exists, TypeOK
<1>2. /\ row \in [Ino -> [loc : File, active : BOOLEAN] \union {None}]
      /\ None \notin [loc : File, active : BOOLEAN]
  BY DEF TypeOK, Setting
<1>3. row' = [row EXCEPT ![disk[p].ino] = [loc |-> p, active |-> TRUE]]
  BY DEF AppendRow
<1>4. [loc |-> p, active |-> TRUE] \in [loc : File, active : BOOLEAN]
  OBVIOUS
<1> QED
  BY <1>1, <1>2, <1>3, <1>4

\* The rows after a move.
LEMMA MovedRowsFacts ==
    ASSUME NEW N, Setting(N), TypeOK, NEW e \in Event, e.kind = "moved", Movable(e)
    PROVE  /\ MovedRows(e) \in [Ino -> [loc : File, active : BOOLEAN] \union {None}]
           /\ \A i \in Ino : row[i] # None => MovedRows(e)[i] # None
           /\ \A i \in Ino :
                 row[i] # None /\ ~Under(row[i].loc, e.src) => MovedRows(e)[i] = row[i]
<1>1. /\ row \in [Ino -> [loc : File, active : BOOLEAN] \union {None}]
      /\ None \notin [loc : File, active : BOOLEAN]
      /\ disk \in [File -> [ino : Ino, content : Content] \union {None}]
  BY DEF TypeOK, Setting
<1>2. \A p \in File : Under(p, e.src) /\ p # e.src => Moved(p, e.src, e.dst) \in File
  <2>1. CASE e.src \in Folder
    BY <2>1 DEF Movable, Below
  <2>2. CASE e.src \in File
    BY <2>2, FileUnder
  <2> QED
    BY <2>1, <2>2, EventParts
<1>3. InScope(e.dst, Source) \in BOOLEAN
  BY DEF InScope
<1> DEFINE under(i) == row[i] # None /\ Under(row[i].loc, e.src) /\ row[i].loc # e.src
           moved(i) == [loc |-> Moved(row[i].loc, e.src, e.dst), active |-> InScope(e.dst, Source)]
<1>4. \A i \in Ino : MovedRows(e)[i] = IF under(i) THEN moved(i) ELSE row[i]
  BY DEF MovedRows
<1>5. MovedRows(e) = [i \in Ino |-> MovedRows(e)[i]]
  BY DEF MovedRows
<1>6. \A i \in Ino : under(i) => moved(i) \in [loc : File, active : BOOLEAN]
  BY <1>1, <1>2, <1>3
<1>7. \A i \in Ino : /\ ~under(i) => MovedRows(e)[i] = row[i]
                     /\ under(i) => MovedRows(e)[i] = moved(i)
  <2> HIDE DEF under, moved
  <2> QED
    BY <1>4
<1>8. /\ \A i \in Ino : MovedRows(e)[i] \in [loc : File, active : BOOLEAN] \union {None}
      /\ \A i \in Ino : row[i] # None => MovedRows(e)[i] # None
  <2> HIDE DEF under, moved
  <2> QED
    BY <1>1, <1>6, <1>7
<1>9. MovedRows(e) \in [Ino -> [loc : File, active : BOOLEAN] \union {None}]
  BY <1>5, <1>8
<1> QED
  BY <1>7, <1>8, <1>9

\* What is found at a path.
LEMMA StatFacts ==
    ASSUME TypeOK, NEW p \in File \union Folder, NEW n \in Stat(p)
    PROVE  /\ n \in Ino \union Folder \union {None}
           /\ p \in File => n = IF Exists(p) THEN disk[p].ino ELSE None
           /\ p \in File /\ Exists(p) => n \in Ino /\ n # None
<1>1. p \in File /\ Exists(p) => disk[p].ino \in Ino
  BY DEF TypeOK, Exists
<1> QED
  BY <1>1, VersioningAssumption DEF Stat

\* What is taken from the mailbox leaves the rest as it was.
LEMMA PickBase ==
    ASSUME NEW N, Setting(N), Base, NEW kind, Pick(kind),
           row' \in [Ino -> [loc : File, active : BOOLEAN] \union {None}],
           task' = None \/ \E e \in Event : \E found \in Found(e.kind) :
                              task' = [event |-> e, found |-> found],
           head' = head, UNCHANGED history
    PROVE  Base'
<1>1. TypeOK /\ queue' \in Seq(Event) /\ UNCHANGED <<disk, recent, ops>>
  BY PickFacts DEF Base
<1>2. task' = None \/ (task'.event \in Event /\ task'.found \in Found(task'.event.kind))
  OBVIOUS
<1>3. TypeOK'
  BY <1>1, <1>2 DEF TypeOK, history
<1>4. \A i \in 1..Len(queue') : Movable(queue'[i])
  BY PickFacts DEF Base
<1> QED
  BY <1>1, <1>3, <1>4, SameDisk DEF Base

\* And an event that is done leaves the mirrors' types as they were.
LEMMA AtBase ==
    ASSUME NEW N, Setting(N), Base, NEW kind, At(kind),
           head' \in [Tracked -> Content \union {None}],
           missed' \subseteq File, strayed' \subseteq File
    PROVE  Base'
BY SameDisk DEF At, Base, TypeOK

LEMMA TrackedFiles == File \subseteq Tracked
BY DEF Tracked

LEMMA WithoutTypes ==
    ASSUME TypeOK, NEW src
    PROVE  /\ Without(head, src) \in [Tracked -> Content \union {None}]
           /\ \A p \in Tracked : Without(head, src)[p] = IF Under(p, src) THEN None ELSE head[p]
BY DEF Without, TypeOK

LEMMA MoveTypes ==
    ASSUME TypeOK, NEW src, NEW dst
    PROVE  Move(head, src, dst) \in [Tracked -> Content \union {None}]
<1> DEFINE from(p) == {q \in Below(src) : head[q] # None /\ p = Landing(q, src, dst)}
<1>1. \A q \in File : head[q] \in Content \union {None}
  BY TrackedFiles DEF TypeOK
<1>2. \A p \in Tracked : from(p) # {} => (CHOOSE q \in from(p) : TRUE) \in File
  <2>1. \A p \in Tracked : from(p) \subseteq File
    BY DEF Below
  <2>2. \A p \in Tracked : from(p) # {} => (CHOOSE q \in from(p) : TRUE) \in from(p)
    <3> HIDE DEF from
    <3> QED
      OBVIOUS
  <2> QED
    BY <2>1, <2>2
<1>3. \A p \in Tracked : head[p] \in Content \union {None}
  BY DEF TypeOK
<1>4. Move(head, src, dst) =
        [p \in Tracked |-> IF from(p) # {} THEN head[CHOOSE q \in from(p) : TRUE]
                           ELSE IF Under(p, src) THEN None ELSE head[p]]
  BY DEF Move
<1> HIDE DEF from
<1> QED
  BY <1>1, <1>2, <1>3, <1>4

\* At its second look moved_handle finds n: it ends, or gives the row of n to what
\* it found first.
Ends(e, n) ==
    /\ n = None \/ (n \in Ino /\ row[n] # None /\ n # task.found /\ row[task.found] # None)
    /\ task' = None /\ UNCHANGED <<row, strayed>>
    /\ missed' = missed \union Below(e.src)

Renames(e, n) ==
    /\ e.dst \in File /\ n \in Ino /\ row[n] # None
    /\ n = task.found \/ row[task.found] = None
    /\ row' = [row EXCEPT ![n] = None,
                          ![task.found] = [loc |-> e.dst, active |-> InScope(e.dst, Source)]]
    /\ missed' = missed \union (IF n = task.found THEN {} ELSE {e.dst})
    /\ strayed' = strayed \union (IF n = task.found THEN {} ELSE {e.dst})

LEMMA NodeFacts ==
    ASSUME NEW N, Setting(N), TypeOK, MovedNode
    PROVE  \E e \in Event : \E n \in Stat(e.dst) :
              /\ task # None /\ e = task.event /\ e.kind = "moved" /\ task.found # None
              /\ UNCHANGED <<disk, recent, queue, head, ops>>
              /\ e.dst \in File => n = IF Exists(e.dst) THEN disk[e.dst].ino ELSE None
              /\ \/ Ends(e, n)
                 \/ /\ task' = [event |-> e, found |-> None]
                    /\ \/ Renames(e, n)
                       \/ ~(n \in Ino /\ row[n] # None) /\ n # None /\ UNCHANGED <<row, history>>
<1>1. PICK e \in Event : task # None /\ e = task.event /\ e.kind = "moved"
  BY DEF MovedNode, TypeOK
<1>2. e.dst \in File \union Folder
  BY <1>1, EventParts
<1>3. \A n \in Stat(e.dst) :
         /\ e.dst \in File => n = IF Exists(e.dst) THEN disk[e.dst].ino ELSE None
         /\ e.dst \notin File => n \in Folder \union {None}
  BY <1>2, StatFacts DEF Stat
<1>4. None \notin Ino /\ Folder \intersect Ino = {}
  BY VersioningAssumption DEF Setting
<1>5. /\ UNCHANGED <<disk, recent, queue, head, ops>> /\ task.found # None
      /\ \E n \in Stat(e.dst) :
            \/ Ends(e, n)
            \/ /\ n # None /\ ~(n \in Ino /\ row[n] # None)
               /\ task' = [event |-> e, found |-> None] /\ UNCHANGED <<row, history>>
            \/ /\ n \in Ino /\ row[n] # None /\ (n = task.found \/ row[task.found] = None)
               /\ row' = [row EXCEPT ![n] = None,
                              ![task.found] = [loc |-> e.dst, active |-> InScope(e.dst, Source)]]
               /\ task' = [event |-> e, found |-> None]
               /\ missed' = missed \union (IF n = task.found THEN {} ELSE {e.dst})
               /\ strayed' = strayed \union (IF n = task.found THEN {} ELSE {e.dst})
  BY <1>1 DEF MovedNode, Ends, Continue
<1>6. PICK n \in Stat(e.dst) :
            \/ Ends(e, n)
            \/ /\ n # None /\ ~(n \in Ino /\ row[n] # None)
               /\ task' = [event |-> e, found |-> None] /\ UNCHANGED <<row, history>>
            \/ /\ n \in Ino /\ row[n] # None /\ (n = task.found \/ row[task.found] = None)
               /\ row' = [row EXCEPT ![n] = None,
                              ![task.found] = [loc |-> e.dst, active |-> InScope(e.dst, Source)]]
               /\ task' = [event |-> e, found |-> None]
               /\ missed' = missed \union (IF n = task.found THEN {} ELSE {e.dst})
               /\ strayed' = strayed \union (IF n = task.found THEN {} ELSE {e.dst})
  BY <1>5
<1>7. n \in Ino => e.dst \in File
  BY <1>3, <1>4
<1> QED
  BY <1>1, <1>3, <1>5, <1>6, <1>7 DEF Renames

\* The rows then.
LEMMA RenamesTypes ==
    ASSUME NEW N, Setting(N), TypeOK, NEW e, NEW n, Renames(e, n)
    PROVE  /\ row' \in [Ino -> [loc : File, active : BOOLEAN] \union {None}]
           /\ n = task.found => row'[n] = [loc |-> e.dst, active |-> InScope(e.dst, Source)]
<1> DEFINE named == [loc |-> e.dst, active |-> InScope(e.dst, Source)]
<1>1. named \in [loc : File, active : BOOLEAN]
  BY DEF Renames, InScope
<1>2. row' = [row EXCEPT ![n] = None, ![task.found] = named] /\ n \in Ino
  BY DEF Renames
<1>3. row \in [Ino -> [loc : File, active : BOOLEAN] \union {None}]
  BY DEF TypeOK
<1> HIDE DEF named
<1> QED
  BY <1>1, <1>2, <1>3 DEF named

LEMMA RenamesKeeps ==
    ASSUME NEW N, Setting(N), TypeOK, NEW e, NEW n, Renames(e, n), NEW i \in Ino
    PROVE  /\ i # n /\ i # task.found => row'[i] = row[i]
           /\ row[i] # None /\ (i # n \/ n = task.found) => row'[i] # None
<1> DEFINE named == [loc |-> e.dst, active |-> InScope(e.dst, Source)]
<1>1. named \in [loc : File, active : BOOLEAN]
  BY DEF Renames, InScope
<1>2. named # None
  BY <1>1 DEF Setting
<1>3. row' = [row EXCEPT ![n] = None, ![task.found] = named] /\ n \in Ino
  BY DEF Renames
<1>4. row \in [Ino -> [loc : File, active : BOOLEAN] \union {None}]
  BY DEF TypeOK
<1> HIDE DEF named
<1> QED
  BY <1>2, <1>3, <1>4

LEMMA WorkerBase == ASSUME NEW N, Setting(N), Base, Worker PROVE Base'
<1> USE DEF Base
<1>1. /\ \A e \in Event : /\ e.kind \in {"created", "modified"} => e.src \in File
                          /\ e.kind # "modified" => None \in Found(e.kind)
      /\ \A p \in File : Exists(p) => disk[p] \in [ino : Ino, content : Content]
      /\ task # None => task.event \in Event /\ task.found \in Found(task.event.kind)
      /\ task # None /\ task.event.kind = "modified" => task.found \in Content
      /\ head \in [Tracked -> Content \union {None}]
      /\ missed \subseteq File /\ strayed \subseteq File
      /\ row \in [Ino -> [loc : File, active : BOOLEAN] \union {None}]
  BY EventParts DEF TypeOK, Exists, Found
<1>2. CASE CreatedRow
  <2> DEFINE e == Head(queue)
  <2>1. Pick("created") /\ e \in Event /\ e.kind = "created" /\ head' = head /\ UNCHANGED history
    BY <1>2, PickFacts DEF CreatedRow
  <2>2. e.src \in File
    BY <1>1, <2>1
  <2>3. CASE Exists(e.src)
    <3>1. AppendRow(e.src) /\ task' = [event |-> e, found |-> None]
      BY <1>2, <2>3 DEF CreatedRow, Continue
    <3>2. row' \in [Ino -> [loc : File, active : BOOLEAN] \union {None}]
      BY <2>2, <2>3, <3>1, AppendRowFacts
    <3>3. e.kind # "modified"
      BY <2>1
    <3> HIDE DEF e
    <3>4. \E o \in Event : \E found \in Found(o.kind) : task' = [event |-> o, found |-> found]
      BY <1>1, <2>1, <3>1, <3>3
    <3> QED
      BY <2>1, <3>2, <3>4, PickBase
  <2>4. CASE ~Exists(e.src)
    <3>1. row' = row /\ task' = None
      BY <1>2, <2>4, <2>1, PickFacts DEF CreatedRow
    <3> QED
      BY <1>1, <2>1, <3>1, PickBase
  <2> QED
    BY <2>3, <2>4
<1>3. CASE CreatedMirror
  <2> DEFINE p == task.event.src
  <2>1. At("created") /\ head' = IF Exists(p) THEN [head EXCEPT ![p] = disk[p].content] ELSE head
    BY <1>3 DEF CreatedMirror
  <2>2. task.event \in Event /\ task.event.kind = "created" /\ UNCHANGED history
    BY <1>1, <1>3, <2>1 DEF At, CreatedMirror
  <2>3. p \in File
    BY <1>1, <2>2
  <2>4. head' \in [Tracked -> Content \union {None}]
    BY <1>1, <2>1, <2>3
  <2>5. missed' \subseteq File /\ strayed' \subseteq File
    BY <1>1, <2>2 DEF history
  <2> QED
    BY <2>1, <2>4, <2>5, AtBase
<1>4. CASE ReadModified
  <2> DEFINE e == Head(queue)
  <2>1. /\ Pick("modified") /\ e \in Event /\ e.kind = "modified"
        /\ head' = head /\ row' = row /\ UNCHANGED history
    BY <1>4, PickFacts DEF ReadModified
  <2>2. e.src \in File
    BY <1>1, <2>1
  <2>3. \/ task' = None
        \/ task' = [event |-> e, found |-> disk[e.src].content] /\ Exists(e.src)
    BY <1>4, <2>1, PickFacts DEF ReadModified, Continue
  <2>4. Exists(e.src) => disk[e.src].content \in Content
    BY <1>1, <2>2
  <2>5. \/ task' = None
        \/ \E o \in Event : \E found \in Found(o.kind) : task' = [event |-> o, found |-> found]
    <3>1. Exists(e.src) => disk[e.src].content \in Found(e.kind)
      BY <2>1, <2>4 DEF Found
    <3> HIDE DEF e
    <3> QED
      BY <2>1, <2>3, <3>1
  <2> QED
    BY <1>1, <2>1, <2>5, PickBase
<1>5. CASE ModifiedUnknown
  <2> DEFINE p == task.event.src
  <2>1. /\ task # None /\ task.event.kind = "modified" /\ Exists(p) /\ AppendRow(p)
        /\ task' = [event |-> Ev("created", p), found |-> None]
        /\ UNCHANGED <<disk, recent, queue, head, ops, history>>
    BY <1>5 DEF ModifiedUnknown, Continue
  <2>2. p \in File
    BY <1>1, <2>1
  <2>3. row' \in [Ino -> [loc : File, active : BOOLEAN] \union {None}]
    BY <2>1, <2>2, AppendRowFacts
  <2>4. Ev("created", p) \in Event /\ Ev("created", p).kind # "modified"
    BY <2>2, EventsAre DEF Ev
  <2>5. task'.event \in Event /\ task'.found \in Found(task'.event.kind)
    BY <1>1, <2>1, <2>4
  <2>6. /\ UNCHANGED <<disk, recent, queue, head, ops, missed, strayed>>
    BY <2>1 DEF history
  <2> QED
    BY <2>3, <2>5, <2>6, SameDisk DEF TypeOK
<1>6. CASE ModifiedMirror
  <2> DEFINE p == task.event.src
  <2>1. At("modified") /\ (head' = head \/ head' = [head EXCEPT ![p] = task.found])
    BY <1>6 DEF ModifiedMirror
  <2>2. task.event \in Event /\ task.event.kind = "modified" /\ task.found \in Content
    BY <1>1, <2>1 DEF At
  <2>3. head' \in [Tracked -> Content \union {None}]
    BY <1>1, <2>1, <2>2
  <2>4. missed' \subseteq File /\ strayed' \subseteq File
    BY <1>1, <1>6 DEF ModifiedMirror, history
  <2> QED
    BY <2>1, <2>3, <2>4, AtBase
<1>7. CASE DeletedRow
  <2> DEFINE e == Head(queue)
  <2>1. /\ Pick("deleted") /\ e \in Event /\ e.kind # "modified"
        /\ head' = head /\ UNCHANGED history
        /\ task' = [event |-> e, found |-> None]
        /\ row' = [i \in Ino |->
                      IF row[i] # None /\ Under(row[i].loc, e.src)
                      THEN [row[i] EXCEPT !.active = FALSE] ELSE row[i]]
    BY <1>7, PickFacts DEF DeletedRow, Continue
  <2>2. row' \in [Ino -> [loc : File, active : BOOLEAN] \union {None}]
    <3> HIDE DEF e
    <3>1. \A i \in Ino : row[i] # None =>
             [row[i] EXCEPT !.active = FALSE] \in [loc : File, active : BOOLEAN]
      BY <1>1
    <3> QED
      BY <1>1, <2>1, <3>1
  <2>3. \E o \in Event : \E found \in Found(o.kind) : task' = [event |-> o, found |-> found]
    <3> HIDE DEF e
    <3> QED
      BY <1>1, <2>1
  <2> QED
    BY <2>1, <2>2, <2>3, PickBase
<1>8. CASE DeletedMirror
  <2>1. At("deleted") /\ head' = Without(head, task.event.src)
    BY <1>8 DEF DeletedMirror
  <2>2. head' \in [Tracked -> Content \union {None}]
    BY <2>1, WithoutTypes
  <2>3. missed' \subseteq File /\ strayed' \subseteq File
    BY <1>1, <1>8 DEF DeletedMirror, history
  <2> QED
    BY <2>1, <2>2, <2>3, AtBase
<1>9. CASE MovedRow
  <2> DEFINE e == Head(queue)
  <2>1. /\ Pick("moved") /\ e \in Event /\ e.kind = "moved" /\ Movable(e)
        /\ head' = head /\ UNCHANGED history
        /\ row' = MovedRows(e)
    BY <1>9, PickFacts DEF MovedRow
  <2>2. row' \in [Ino -> [loc : File, active : BOOLEAN] \union {None}]
    BY <2>1, MovedRowsFacts
  <2>3. \E o \in Event : \E found \in Found(o.kind) : task' = [event |-> o, found |-> found]
    <3>1. PICK n \in Stat(e.dst) : task' = [event |-> e, found |-> n]
      BY <1>9 DEF MovedRow, Continue
    <3>2. e.dst \in File \union Folder
      BY <2>1, EventParts
    <3>3. n \in Found(e.kind)
      BY <2>1, <3>2, StatFacts DEF Found
    <3> HIDE DEF e
    <3> QED
      BY <2>1, <3>1, <3>3
  <2> QED
    BY <2>1, <2>2, <2>3, PickBase
<1>11. CASE MovedNode
  <2>1. PICK e \in Event : \E n \in Stat(e.dst) :
           /\ task # None /\ e.kind = "moved"
           /\ UNCHANGED <<disk, recent, queue, head, ops>>
           /\ \/ Ends(e, n)
              \/ /\ task' = [event |-> e, found |-> None]
                 /\ Renames(e, n) \/ UNCHANGED <<row, history>>
    BY <1>11, NodeFacts
  <2>2. PICK n :
           \/ Ends(e, n)
           \/ /\ task' = [event |-> e, found |-> None]
              /\ Renames(e, n) \/ UNCHANGED <<row, history>>
    BY <2>1
  <2>3. task' = None \/ (task'.event \in Event /\ task'.found \in Found(task'.event.kind))
    <3>1. task' = None \/ task' = [event |-> e, found |-> None]
      BY <2>2 DEF Ends
    <3>2. None \in Found(e.kind)
      BY <1>1, <2>1
    <3> QED
      BY <3>1, <3>2
  <2>4. missed' \subseteq File /\ strayed' \subseteq File
    BY <1>1, <2>2 DEF Ends, Renames, history, Below
  <2>5. row' \in [Ino -> [loc : File, active : BOOLEAN] \union {None}]
    BY <1>1, <2>2, RenamesTypes DEF Ends
  <2> QED
    BY <2>1, <2>3, <2>4, <2>5, SameDisk DEF TypeOK
<1>10. CASE MovedMirror
  <2> DEFINE src == task.event.src
             dst == task.event.dst
  <2>1. At("moved")
    BY <1>10 DEF MovedMirror
  <2>2. \/ head' = head
        \/ head' = Without(head, src)
        \/ head' = Move(head, src, dst)
        \/ /\ dst \in File /\ Exists(dst)
           /\ head' = [Without(head, src) EXCEPT ![dst] = disk[dst].content]
    BY <1>10 DEF MovedMirror
  <2>3. head' \in [Tracked -> Content \union {None}]
    BY <1>1, <2>2, WithoutTypes, MoveTypes
  <2>4. missed' \subseteq missed \union Below(src) /\ strayed' = strayed
    BY <1>10 DEF MovedMirror, history
  <2>5. missed' \subseteq File /\ strayed' \subseteq File
    BY <1>1, <2>4 DEF Below
  <2> QED
    BY <2>1, <2>3, <2>5, AtBase
<1> QED
  BY <1>2, <1>3, <1>4, <1>5, <1>6, <1>7, <1>8, <1>9, <1>10, <1>11 DEF Worker

LEMMA BaseStays == ASSUME NEW N, Setting(N) PROVE Spec => []Base
<1>1. Init => Base
  BY InitBase
<1>2. Base /\ [Next]_vars => Base'
  <2> SUFFICES ASSUME Base, [Next]_vars PROVE Base'
    OBVIOUS
  <2>1. CASE World
    <3>1. ASSUME NEW events, Change(events), ops < MaxOps PROVE Base'
      BY <3>1, ChangeBase
    <3> QED
      BY <2>1, <3>1, WorldChanges, ExpireBase DEF Base
  <2>2. CASE Worker
    BY <2>2, WorkerBase
  <2>3. CASE UNCHANGED vars
    BY <2>3, SameDisk DEF vars, history, Base, TypeOK
  <2> QED
    BY <2>1, <2>2, <2>3 DEF Next
<1> QED
  BY <1>1, <1>2, PTL DEF Spec

\* Every variable has the values the code can give it; the text of an edit is
\* read before the handler runs (LocalConsumer.handle, TempFile.from_path).
THEOREM Typing ==
    ASSUME NEW N, Setting(N)
    PROVE  Spec => []TypeOK
BY BaseStays, PTL DEF Base

-----------------------------------------------------------------------------
(* What the pending events promise. *)

\* What the worker has still to act on, in order.
Trail == IF task = None THEN queue ELSE <<task.event>> \o queue

Untouched(f, s) == \A i \in 1..Len(s) : ~Touches(s[i], f)

IsLast(i, f, s) ==
    /\ i \in 1..Len(s)
    /\ Touches(s[i], f)
    /\ \A j \in 1..Len(s) : j > i => ~Touches(s[j], f)

Known(f) == row[disk[f].ino] # None

Matches(f) ==
    IF Exists(f) THEN head[f] # None /\ Similar(head[f], disk[f].content) /\ Known(f)
                 ELSE head[f] = None

\* The last event of s about f is the i-th: what it says is so on the disk, and
\* the mirror has what a move is to move, which nothing before changes.
Due(f, s, i) ==
    LET e == s[i] IN
    /\ e.kind \in {"created", "modified"} => Exists(f)
    /\ e.kind = "deleted" => ~Exists(f)
    /\ e.kind = "moved" /\ ~Under(f, e.dst) => ~Exists(f)
    /\ e.kind = "moved" /\ Under(f, e.dst) =>
          /\ e.src \in File /\ e.dst = f
          /\ Exists(f) /\ Known(f)
          /\ head[e.src] # None /\ Similar(head[e.src], disk[f].content)
          /\ \A j \in 1..Len(s) : j < i => ~Touches(s[j], e.src)

Awaited(f, s) ==
    /\ Untouched(f, s) => Matches(f)
    /\ \A i \in 1..Len(s) : IsLast(i, f, s) => Due(f, s, i)

\* The row of a new file, the text of an edit and the inode that a move went to
\* are those of the file if nothing more is to come.
InHand ==
    task # None => \A f \in File \ missed :
        Touches(task.event, f) /\ Untouched(f, queue) =>
            /\ task.event.kind = "created" => Known(f)
            /\ task.event.kind = "modified" => task.found = disk[f].content
            /\ task.event.kind = "moved" /\ task.found # None /\ f = task.event.dst /\ Watched(f)
                  => Exists(f) /\ disk[f].ino = task.found

Promised ==
    /\ \A f \in File : head[f] # None => Watched(f)
    /\ \A i \in 1..Len(Trail) : Trail[i].kind \in {"created", "modified"} => Watched(Trail[i].src)
    /\ \A f \in File \ missed : Watched(f) => Awaited(f, Trail)

MirrorInv == Promised /\ InHand

LEMMA TrailFacts ==
    ASSUME TypeOK
    PROVE  /\ queue \in Seq(Event) /\ Trail \in Seq(Event)
           /\ task = None => Trail = queue
           /\ task # None =>
                 /\ task.event \in Event
                 /\ Len(Trail) = Len(queue) + 1
                 /\ Trail[1] = task.event
                 /\ \A i \in 1..Len(queue) : Trail[i + 1] = queue[i]
           /\ \A o : o \in Pending <=> \E i \in 1..Len(Trail) : Trail[i] = o
<1>1. queue \in Seq(Event) /\ (task # None => task.event \in Event)
  BY DEF TypeOK
<1>2. ToSet(queue) = {queue[i] : i \in 1..Len(queue)}
  BY <1>1 DEF ToSet
<1>3. CASE task = None
  <2>1. Trail = queue /\ Pending = ToSet(queue)
    BY <1>3 DEF Trail, Pending
  <2> QED
    BY <1>1, <1>2, <1>3, <2>1
<1>4. CASE task # None
  <2>1. Trail = <<task.event>> \o queue /\ Pending = ToSet(queue) \union {task.event}
    BY <1>4 DEF Trail, Pending
  <2>2. /\ Trail \in Seq(Event)
        /\ Len(Trail) = Len(queue) + 1
        /\ Trail[1] = task.event
        /\ \A i \in 1..Len(queue) : Trail[i + 1] = queue[i]
        /\ \A j \in 1..Len(queue) + 1 :
              j = 1 \/ (j - 1 \in 1..Len(queue) /\ Trail[j] = queue[j - 1])
    BY <1>1, <1>4, <2>1, OneMore
  <2>3. Len(queue) \in Nat
    BY <1>1
  <2>4. ASSUME NEW o, o \in Pending PROVE \E i \in 1..Len(Trail) : Trail[i] = o
    <3>1. CASE o = task.event
      BY <2>2, <2>3, <3>1
    <3>2. CASE o \in ToSet(queue)
      <4>1. PICK i \in 1..Len(queue) : o = queue[i]
        BY <1>2, <3>2
      <4>2. i + 1 \in 1..Len(Trail) /\ Trail[i + 1] = o
        BY <2>2, <2>3, <4>1
      <4> QED
        BY <4>2
    <3> QED
      BY <2>1, <2>4, <3>1, <3>2
  <2>5. ASSUME NEW i \in 1..Len(Trail) PROVE Trail[i] \in Pending
    BY <1>2, <2>1, <2>2
  <2> QED
    BY <1>1, <1>4, <2>2, <2>4, <2>5
<1> QED
  BY <1>3, <1>4

\* Events with more at their end.
LEMMA MoreEvents ==
    \A s, t \in Seq(Event) :
        /\ Len(s) \in Nat /\ Len(t) \in Nat
        /\ Len(s \o t) = Len(s) + Len(t)
        /\ \A i \in 1..Len(s) : i \in 1..Len(s \o t) /\ (s \o t)[i] = s[i]
        /\ \A k \in 1..Len(t) : Len(s) + k \in 1..Len(s \o t) /\ (s \o t)[Len(s) + k] = t[k]
        /\ \A i \in 1..Len(s \o t) : i \in 1..Len(s) \/ \E k \in 1..Len(t) : i = Len(s) + k
<1> SUFFICES ASSUME NEW s \in Seq(Event), NEW t \in Seq(Event)
             PROVE  /\ Len(s) \in Nat /\ Len(t) \in Nat
                    /\ Len(s \o t) = Len(s) + Len(t)
                    /\ \A i \in 1..Len(s) : i \in 1..Len(s \o t) /\ (s \o t)[i] = s[i]
                    /\ \A k \in 1..Len(t) :
                          Len(s) + k \in 1..Len(s \o t) /\ (s \o t)[Len(s) + k] = t[k]
                    /\ \A i \in 1..Len(s \o t) :
                          i \in 1..Len(s) \/ \E k \in 1..Len(t) : i = Len(s) + k
  BY Zenon
<1>1. /\ Len(s \o t) = Len(s) + Len(t)
      /\ \A i \in 1..Len(s) + Len(t) :
            (s \o t)[i] = IF i <= Len(s) THEN s[i] ELSE t[i - Len(s)]
  BY ConcatProperties, Zenon
<1>2. Len(s) \in Nat /\ Len(t) \in Nat
  OBVIOUS
<1>3. \A i \in 1..Len(s) : i \in 1..Len(s \o t) /\ (s \o t)[i] = s[i]
  BY <1>1, <1>2
<1>4. \A k \in 1..Len(t) : Len(s) + k \in 1..Len(s \o t) /\ (s \o t)[Len(s) + k] = t[k]
  BY <1>1, <1>2
<1>5. ASSUME NEW i \in 1..Len(s \o t), i \notin 1..Len(s)
      PROVE  \E k \in 1..Len(t) : i = Len(s) + k
  <2>1. i - Len(s) \in 1..Len(t) /\ i = Len(s) + (i - Len(s))
    BY <1>1, <1>2, <1>5
  <2> QED
    BY <2>1
<1> QED
  BY <1>1, <1>2, <1>3, <1>4, <1>5

LEMMA MoreLast ==
    ASSUME NEW s \in Seq(Event), NEW t \in Seq(Event), NEW f
    PROVE  /\ Untouched(f, s \o t) => Untouched(f, s) /\ Untouched(f, t)
           /\ \A i : IsLast(i, f, s \o t) =>
                 \/ IsLast(i, f, s) /\ Untouched(f, t)
                 \/ \E k \in 1..Len(t) : i = Len(s) + k /\ Touches(t[k], f)
<1> DEFINE st == s \o t
<1>1. /\ Len(s) \in Nat /\ Len(t) \in Nat
      /\ Len(st) = Len(s) + Len(t)
      /\ \A i \in 1..Len(s) : i \in 1..Len(st) /\ st[i] = s[i]
      /\ \A k \in 1..Len(t) : Len(s) + k \in 1..Len(st) /\ st[Len(s) + k] = t[k]
      /\ \A i \in 1..Len(st) : i \in 1..Len(s) \/ \E k \in 1..Len(t) : i = Len(s) + k
  BY MoreEvents
<1> HIDE DEF st
<1>2. Untouched(f, st) => Untouched(f, s) /\ Untouched(f, t)
  BY <1>1 DEF Untouched
<1>3. ASSUME NEW i, IsLast(i, f, st)
      PROVE  \/ IsLast(i, f, s) /\ Untouched(f, t)
             \/ \E k \in 1..Len(t) : i = Len(s) + k /\ Touches(t[k], f)
  <2>1. CASE i \in 1..Len(s)
    <3>1. \A k \in 1..Len(t) : Len(s) + k > i
      BY <1>1, <2>1
    <3>2. Untouched(f, t)
      BY <1>1, <1>3, <3>1 DEF IsLast, Untouched
    <3>3. IsLast(i, f, s)
      BY <1>1, <1>3, <2>1 DEF IsLast
    <3> QED
      BY <3>2, <3>3
  <2>2. CASE \E k \in 1..Len(t) : i = Len(s) + k
    BY <1>1, <1>3, <2>2 DEF IsLast
  <2> QED
    BY <1>1, <1>3, <2>1, <2>2 DEF IsLast
<1> QED
  BY <1>2, <1>3 DEF st

LEMMA AboveWatched ==
    ASSUME NEW N, Setting(N), NEW f \in File, Watched(f),
           NEW p \in File \union Folder, Under(f, p)
    PROVE  Watched(p)
<1>1. CASE p \in File
  BY <1>1, FileUnder
<1>2. CASE p \in Folder
  BY <1>2 DEF Setting, SameRepo, Watched
<1> QED
  BY <1>1, <1>2

\* Every event about a watched file is seen.
LEMMA WatchedSeen ==
    ASSUME NEW N, Setting(N), NEW e \in Event, NEW f \in File, Watched(f), Touches(e, f)
    PROVE  Seen(e)
BY AboveWatched, EventParts DEF Touches, Seen

\* What the worker is told of a file that has lost nothing.
LEMMA Told ==
    ASSUME NEW N, Setting(N), TypeOK, NEW events, Change(events),
           NEW new \in Seq(Event), Reported(new, events),
           NEW f \in File, Watched(f), f \notin missed' \/ f \notin strayed'
    PROVE  /\ Untouched(f, new) => disk'[f] = disk[f]
           /\ \A k \in 1..Len(new) : Touches(new[k], f) =>
                 LET e == new[k] IN
                 /\ e.kind = "created" => Exists(f)'
                 /\ e.kind = "modified" => Exists(f) /\ Exists(f)' /\ disk'[f].ino = disk[f].ino
                 /\ e.kind = "deleted" => ~Exists(f)'
                 /\ e.kind = "moved" /\ ~Under(f, e.dst) => ~Exists(f)'
                 /\ e.kind = "moved" /\ Under(f, e.dst) =>
                       /\ Len(new) = 1 /\ e.src \in File /\ e.dst = f
                       /\ Exists(e.src) /\ disk'[f] = disk[e.src]
                       /\ ~Unsettled(e)
<1>1. events \in Seq(Event) /\ Honest(events)
  BY DEF Change
<1>2. \A j \in 1..Len(events) : Touches(events[j], f) => \E i \in 1..Len(new) : new[i] = events[j]
  <2> SUFFICES ASSUME NEW j \in 1..Len(events), Touches(events[j], f)
               PROVE  \E i \in 1..Len(new) : new[i] = events[j]
    OBVIOUS
  <2>1. events[j] \in Event
    BY <1>1
  <2>2. Seen(events[j])
    BY <2>1, WatchedSeen
  <2> QED
    BY <2>2 DEF Reported
<1>3. Untouched(f, new) => disk'[f] = disk[f]
  <2> SUFFICES ASSUME Untouched(f, new) PROVE disk'[f] = disk[f]
    OBVIOUS
  <2>1. \A j \in 1..Len(events) : ~Touches(events[j], f)
    BY <1>2 DEF Untouched
  <2> QED
    BY <1>1, <2>1 DEF Honest
<1>4. ASSUME NEW k \in 1..Len(new), Touches(new[k], f)
      PROVE  LET e == new[k] IN
             /\ e.kind = "created" => Exists(f)'
             /\ e.kind = "modified" => Exists(f) /\ Exists(f)' /\ disk'[f].ino = disk[f].ino
             /\ e.kind = "deleted" => ~Exists(f)'
             /\ e.kind = "moved" /\ ~Under(f, e.dst) => ~Exists(f)'
             /\ e.kind = "moved" /\ Under(f, e.dst) =>
                   /\ Len(new) = 1 /\ e.src \in File /\ e.dst = f
                   /\ Exists(e.src) /\ disk'[f] = disk[e.src]
                   /\ ~Unsettled(e)
  <2>1. PICK j \in 1..Len(events) : new[k] = events[j]
    BY DEF Reported
  <2> DEFINE e == events[j]
  <2>2. Touches(e, f)
    BY <1>4, <2>1
  <2>3. /\ e.kind = "created" => Exists(f)'
        /\ e.kind = "modified" => Exists(f) /\ Exists(f)' /\ disk'[f].ino = disk[f].ino
        /\ e.kind = "deleted" => ~Exists(f)'
        /\ e.kind = "moved" /\ ~Under(f, e.dst) => ~Exists(f)'
        /\ e.kind = "moved" /\ Under(f, e.dst) =>
              \/ \E i \in 1..Len(events) :
                    /\ events[i].kind = "moved"
                    /\ events[i].src \in Folder
                    /\ Under(f, events[i].dst)
              \/ /\ Len(events) = 1 /\ e.src \in File /\ e.dst = f
                 /\ Exists(e.src) /\ disk'[f] = disk[e.src]
    BY <1>1, <2>2 DEF Honest
  <2>4. ASSUME NEW i \in 1..Len(events), events[i].kind = "moved",
               events[i].src \in Folder, Under(f, events[i].dst)
        PROVE  FALSE
    <3>1. Touches(events[i], f)
      BY <2>4 DEF Touches
    <3>2. PICK m \in 1..Len(new) : new[m] = events[i]
      BY <1>2, <3>1
    <3>3. Unsettled(new[m])
      BY <2>4, <3>2 DEF Unsettled
    <3> QED
      BY <2>4, <3>2, <3>3 DEF Reported
  <2>5. e.kind = "moved" /\ Under(f, e.dst) => ~Unsettled(e)
    BY <2>1 DEF Reported
  <2>6. Len(events) = 1 => Len(new) = 1
    <3>1. Len(new) <= Len(events) /\ Len(new) \in Nat /\ k \in Nat /\ k <= Len(new) /\ 1 <= k
      BY DEF Reported
    <3>2. ASSUME NEW m \in Nat, m <= 1, k <= m PROVE m = 1
      BY <3>1, <3>2
    <3> QED
      BY <3>1, <3>2
  <2> QED
    BY <2>1, <2>3, <2>4, <2>5, <2>6
<1> QED
  BY <1>3, <1>4

\* A report goes to the end of the trail.
LEMMA ReportTrail ==
    ASSUME TypeOK, NEW events, NEW new \in Seq(Event), Reported(new, events)
    PROVE  Trail' = Trail \o new /\ Trail \in Seq(Event)
<1>1. queue' = queue \o new /\ task' = task
  BY DEF Reported
<1>2. queue \in Seq(Event) /\ Trail \in Seq(Event)
  BY TrailFacts
<1>3. CASE task = None
  BY <1>1, <1>2, <1>3 DEF Trail
<1>4. CASE task # None
  <2>1. <<task.event>> \in Seq(Event)
    BY <1>4 DEF TypeOK
  <2>2. (<<task.event>> \o queue) \o new = <<task.event>> \o (queue \o new)
    BY <1>2, <2>1, ConcatAssociative
  <2> QED
    BY <1>1, <1>2, <1>4, <2>2 DEF Trail
<1> QED
  BY <1>3, <1>4

LEMMA ChangeMirror ==
    ASSUME NEW N, Setting(N), Base, MirrorInv, NEW events, Change(events)
    PROVE  MirrorInv'
<1>1. TypeOK /\ events \in Seq(Event) /\ Report(events)
  BY DEF Base, Change
<1>2. PICK new \in Seq(Event) : Reported(new, events)
  BY <1>1, ReportFacts
<1>3. UNCHANGED <<task, row, head>> /\ queue' = queue \o new
  BY <1>2 DEF Reported
<1>4. PICK s \in Seq(Event) : s = Trail /\ Trail' = s \o new
  BY <1>1, <1>2, ReportTrail
<1>5. /\ Len(s) \in Nat
      /\ \A i \in 1..Len(s) : i \in 1..Len(s \o new) /\ (s \o new)[i] = s[i]
      /\ \A k \in 1..Len(new) : Len(s) + k \in 1..Len(s \o new) /\ (s \o new)[Len(s) + k] = new[k]
      /\ \A i \in 1..Len(s \o new) : i \in 1..Len(s) \/ \E k \in 1..Len(new) : i = Len(s) + k
  BY MoreEvents, Zenon
<1>6. \A f \in File : head'[f] # None => Watched(f)
  BY <1>3 DEF MirrorInv, Promised
<1>7. \A i \in 1..Len(Trail') : Trail'[i].kind \in {"created", "modified"} => Watched(Trail'[i].src)
  <2>1. \A i \in 1..Len(s) : s[i].kind \in {"created", "modified"} => Watched(s[i].src)
    BY <1>4 DEF MirrorInv, Promised
  <2>2. \A k \in 1..Len(new) : new[k].kind \in {"created", "modified"} => Watched(new[k].src)
    BY <1>2 DEF Reported, Seen
  <2> DEFINE st == s \o new
  <2>3. \A i \in 1..Len(st) : \/ i \in 1..Len(s) /\ st[i] = s[i]
                              \/ \E k \in 1..Len(new) : st[i] = new[k]
    BY <1>5
  <2>4. Trail' = st
    BY <1>4
  <2> HIDE DEF st
  <2>5. \A i \in 1..Len(st) : st[i].kind \in {"created", "modified"} => Watched(st[i].src)
    BY <2>1, <2>2, <2>3
  <2> QED
    BY <2>4, <2>5
<1>8. ASSUME NEW f \in File, f \notin missed', Untouched(f, new)
      PROVE  f \notin missed
  BY <1>2, <1>8 DEF Reported, Untouched, Touches
<1>9. ASSUME NEW f \in File, f \notin missed', Watched(f)
      PROVE  Awaited(f, s \o new)'
  <2>1. /\ Untouched(f, new) => disk'[f] = disk[f] /\ f \notin missed
        /\ Untouched(f, new) => Awaited(f, s)
    BY <1>1, <1>2, <1>4, <1>8, <1>9, Told DEF MirrorInv, Promised
  <2>2. Untouched(f, s \o new) => Matches(f)'
    <3> SUFFICES ASSUME Untouched(f, s \o new) PROVE Matches(f)'
      OBVIOUS
    <3>1. Untouched(f, s) /\ Untouched(f, new)
      BY MoreLast
    <3> QED
      BY <1>3, <2>1, <3>1 DEF Awaited, Matches, Exists, Known
  <2>3. ASSUME NEW i, IsLast(i, f, s), Untouched(f, new)
        PROVE  Due(f, s \o new, i)'
    <3>1. Due(f, s, i) /\ disk'[f] = disk[f] /\ i \in 1..Len(s)
      BY <2>1, <2>3 DEF Awaited, IsLast
    <3>2. /\ (s \o new)[i] = s[i]
          /\ \A j \in 1..Len(s \o new) : j < i => (s \o new)[j] = s[j] /\ j \in 1..Len(s)
      BY <1>5, <3>1
    <3> QED
      BY <1>3, <3>1, <3>2 DEF Due, Exists, Known
  <2>4. ASSUME NEW k \in 1..Len(new), Touches(new[k], f)
        PROVE  Due(f, s \o new, Len(s) + k)'
    <3> DEFINE e == new[k]
    <3>1. /\ e.kind = "created" => Exists(f)'
          /\ e.kind = "modified" => Exists(f)'
          /\ e.kind = "deleted" => ~Exists(f)'
          /\ e.kind = "moved" /\ ~Under(f, e.dst) => ~Exists(f)'
          /\ e.kind = "moved" /\ Under(f, e.dst) =>
                /\ Len(new) = 1 /\ e.src \in File /\ e.dst = f
                /\ Exists(e.src) /\ disk'[f] = disk[e.src]
                /\ ~Unsettled(e)
      BY <1>1, <1>2, <1>9, <2>4, Told
    <3>2. (s \o new)[Len(s) + k] = e
      BY <1>5
    <3>3. ASSUME e.kind = "moved", Under(f, e.dst)
          PROVE  /\ e.src \in File /\ e.dst = f
                 /\ Exists(f)' /\ Known(f)'
                 /\ head'[e.src] # None /\ Similar(head'[e.src], disk'[f].content)
                 /\ \A j \in 1..Len(s \o new) : j < Len(s) + k => ~Touches((s \o new)[j], e.src)
      <4>1. /\ Len(new) = 1 /\ k = 1 /\ e.src \in File /\ e.dst = f
            /\ Exists(e.src) /\ disk'[f] = disk[e.src] /\ ~Unsettled(e)
        BY <3>1, <3>3
      <4>2. e.src \notin missed /\ head[e.src] # None /\ Untouched(e.src, s)
        BY <1>1, <1>4, <4>1, TrailFacts DEF Unsettled, Untouched
      <4>3. Watched(e.src) /\ Matches(e.src)
        BY <1>4, <4>1, <4>2 DEF MirrorInv, Promised, Awaited
      <4>4. /\ Exists(f)' /\ Known(f)'
            /\ head'[e.src] # None /\ Similar(head'[e.src], disk'[f].content)
        BY <1>3, <4>1, <4>3 DEF Matches, Exists, Known
      <4>5. \A j \in 1..Len(s \o new) : j < Len(s) + k => j \in 1..Len(s)
        BY <1>5, <4>1
      <4> QED
        BY <1>5, <4>1, <4>2, <4>4, <4>5 DEF Untouched
    <3> HIDE DEF e
    <3> QED
      BY <3>1, <3>2, <3>3 DEF Due, Exists, Known
  <2> QED
    BY <2>2, <2>3, <2>4, MoreLast DEF Awaited
<1>10. InHand'
  <2> SUFFICES ASSUME task # None, NEW f \in File, f \notin missed',
                      Touches(task.event, f), Untouched(f, queue \o new)
               PROVE  /\ task.event.kind = "created" => Known(f)'
                      /\ task.event.kind = "modified" => task.found = disk'[f].content
                      /\ /\ task.event.kind = "moved" /\ task.found # None
                         /\ f = task.event.dst /\ Watched(f)
                         => Exists(f)' /\ disk'[f].ino = task.found
    BY <1>3 DEF InHand, Watched, Target
  <2>1. queue \in Seq(Event) /\ task.event \in Event
    BY <1>1 DEF TypeOK
  <2>2. Untouched(f, queue) /\ Untouched(f, new)
    BY <2>1, MoreLast
  <2>3. ASSUME task.event.kind \in {"created", "modified"} PROVE Watched(f)
    <3>1. task.event.src = f
      BY <2>1, <2>3, EventParts, FileUnder DEF Touches
    <3>2. Watched(task.event.src)
      <4>1. Trail[1] = task.event /\ 1 \in 1..Len(Trail)
        BY <1>1, TrailFacts
      <4> QED
        BY <2>3, <4>1 DEF MirrorInv, Promised
    <3> QED
      BY <3>1, <3>2
  <2>4. Watched(f) => disk'[f] = disk[f] /\ f \notin missed
    BY <1>1, <1>2, <1>8, <2>2, Told
  <2> QED
    BY <1>3, <2>2, <2>3, <2>4 DEF MirrorInv, Promised, InHand, Known, Exists
<1> QED
  BY <1>3, <1>4, <1>6, <1>7, <1>9, <1>10 DEF MirrorInv, Promised, Watched, Target

\* The watches cover the sources.
LEMMA ScopeWatched ==
    ASSUME NEW N, Setting(N), NEW f \in File, InScope(f, Source)
    PROVE  Watched(f)
<1>1. PICK s \in Source : Under(f, s)
  BY DEF InScope
<1>2. /\ Source \subseteq Seq(N) /\ Dir \subseteq Seq(N) /\ Root \in Dir
      /\ Watchable(s, Dir) /\ f \in Seq(N)
  BY DEF Setting
<1>3. \E t \in Derive(Source, Dir) : Under(f, t)
  BY <1>1, <1>2, SourceHasTarget
<1> QED
  BY <1>3 DEF Watched, Resolve, Target

LEMMA InitMirror == ASSUME NEW N, Setting(N), Init PROVE MirrorInv
<1>1. First \in Content /\ Content \subseteq Nat /\ None \notin Content
  BY FirstIsContent, VersioningAssumption
<1>2. PICK i \in [Start -> Ino] :
          /\ IsInjective(i)
          /\ disk = [f \in File |-> IF f \in Start THEN [ino |-> i[f], content |-> First] ELSE None]
          /\ row = [n \in Ino |->
                       IF \E f \in Start : i[f] = n
                       THEN [loc |-> CHOOSE f \in Start : i[f] = n, active |-> TRUE]
                       ELSE None]
          /\ head = [p \in Tracked |-> IF p \in Start THEN First ELSE None]
  BY DEF Init
<1>3. \A f \in Start : f \in File /\ Watched(f)
  <2>1. \A f \in Start : f \in File /\ InScope(f, Source)
    BY VersioningAssumption
  <2> QED
    BY <2>1, ScopeWatched
<1>4. \A f \in File : head[f] = IF f \in Start THEN First ELSE None
  BY <1>2, TrackedFiles
<1>5. \A f \in Start : row[i[f]] # None
  <2> SUFFICES ASSUME NEW f \in Start PROVE row[i[f]] # None
    OBVIOUS
  <2> DEFINE n == i[f]
  <2>1. n \in Ino /\ \E g \in Start : i[g] = n
    OBVIOUS
  <2>2. (CHOOSE g \in Start : i[g] = n) \in File
    BY <1>3, <2>1
  <2>3. row[n] = [loc |-> CHOOSE g \in Start : i[g] = n, active |-> TRUE]
    BY <1>2, <2>1
  <2>4. row[n] \in [loc : File, active : BOOLEAN]
    BY <2>2, <2>3
  <2> QED
    BY <2>4 DEF Setting
<1>6. \A f \in File : /\ f \in Start => /\ disk[f] \in [ino : Ino, content : Content]
                                        /\ disk[f].ino = i[f] /\ disk[f].content = First
                      /\ f \notin Start => disk[f] = None
  BY <1>1, <1>2
<1>7. \A f \in File : Matches(f)
  BY <1>1, <1>4, <1>5, <1>6 DEF Matches, Exists, Known, Similar, Setting
<1>8. Trail = <<>> /\ task = None
  BY DEF Init, Trail
<1> QED
  BY <1>1, <1>3, <1>4, <1>7, <1>8 DEF MirrorInv, Promised, InHand, Awaited, Untouched, IsLast

LEMMA ExpireMirror == ASSUME MirrorInv, NEW p, Expire(p) PROVE MirrorInv'
<1>1. UNCHANGED <<disk, queue, task, row, head, missed>>
  BY DEF Expire, history
<1>2. Trail' = Trail
  BY <1>1 DEF Trail
<1>3. \A f, s : Awaited(f, s)' <=> Awaited(f, s)
  BY <1>1 DEF Awaited, Untouched, IsLast, Due, Matches, Exists, Known
<1> QED
  BY <1>1, <1>2, <1>3 DEF MirrorInv, Promised, InHand, Known, Exists, Watched, Target

\* t is s without its first event.
Shifted(s, t, e) ==
    /\ 1 \in 1..Len(s) /\ s[1] = e
    /\ \A i \in 1..Len(t) : t[i] = s[i + 1] /\ i + 1 \in 1..Len(s)
    /\ \A j \in 1..Len(s) : j = 1 \/ (j - 1 \in 1..Len(t) /\ t[j - 1] = s[j])

LEMMA PickShifts ==
    ASSUME TypeOK, NEW kind, Pick(kind)
    PROVE  Shifted(queue, queue', Head(queue)) /\ queue' \in Seq(Event)
<1>1. PICK s \in Seq(Event), t \in Seq(Event) : s = queue /\ t = queue'
  BY PickFacts DEF TypeOK
<1>2. /\ Head(queue) = s[1] /\ 1 \in 1..Len(s)
      /\ Len(t) = Len(s) - 1
      /\ \A i \in 1..Len(t) : t[i] = s[i + 1] /\ i + 1 \in 1..Len(s)
  BY <1>1, PickFacts
<1>3. Len(s) \in Nat
  BY <1>1, LenProperties
<1>4. \A j \in 1..Len(s) : j = 1 \/ (j - 1 \in 1..Len(t) /\ t[j - 1] = s[j])
  <2> SUFFICES ASSUME NEW j \in 1..Len(s), j # 1
               PROVE  j - 1 \in 1..Len(t) /\ t[j - 1] = s[j]
    OBVIOUS
  <2>1. j - 1 \in 1..Len(t) /\ (j - 1) + 1 = j
    BY <1>2, <1>3
  <2> QED
    BY <1>2, <2>1
<1>5. Shifted(s, t, Head(queue))
  BY <1>2, <1>4 DEF Shifted
<1> QED
  BY <1>1, <1>5

LEMMA TrailOfPick ==
    ASSUME TypeOK, NEW kind, Pick(kind)
    PROVE  /\ Trail = queue
           /\ task' = None => Shifted(Trail, Trail', Head(queue)) /\ Trail' \in Seq(Event)
           /\ task' # None /\ task'.event = Head(queue) => Trail' = Trail
<1>1. queue \in Seq(Event) /\ queue # <<>> /\ queue' = Tail(queue) /\ task = None
  BY DEF Pick, TypeOK
<1>2. Trail = queue
  BY <1>1 DEF Trail
<1>3. ASSUME task' = None
      PROVE  Shifted(Trail, Trail', Head(queue)) /\ Trail' \in Seq(Event)
  <2>1. Trail' = queue'
    BY <1>3 DEF Trail
  <2> QED
    BY <1>2, <2>1, PickShifts
<1>4. ASSUME task' # None, task'.event = Head(queue)
      PROVE  Trail' = Trail
  <2>1. Trail' = <<Head(queue)>> \o Tail(queue)
    BY <1>1, <1>4 DEF Trail
  <2>2. queue = <<Head(queue)>> \o Tail(queue)
    BY <1>1
  <2> QED
    BY <1>2, <2>1, <2>2
<1> QED
  BY <1>2, <1>3, <1>4

\* The event at the worker is the first of the trail.
LEMMA TrailShifts ==
    ASSUME TypeOK, task # None
    PROVE  task.event \in Event /\ queue \in Seq(Event) /\ Shifted(Trail, queue, task.event)
<1>1. PICK s \in Seq(Event), t \in Seq(Event) : s = Trail /\ t = queue
  BY TrailFacts
<1>2. /\ task.event \in Event
      /\ Len(s) = Len(t) + 1 /\ s[1] = task.event
      /\ \A i \in 1..Len(t) : s[i + 1] = t[i]
  BY <1>1, TrailFacts
<1>3. Len(t) \in Nat
  BY <1>1, LenProperties
<1>4. \A j \in 1..Len(s) : j = 1 \/ (j - 1 \in 1..Len(t) /\ t[j - 1] = s[j])
  <2> SUFFICES ASSUME NEW j \in 1..Len(s), j # 1
               PROVE  j - 1 \in 1..Len(t) /\ t[j - 1] = s[j]
    OBVIOUS
  <2>1. j - 1 \in 1..Len(t) /\ (j - 1) + 1 = j
    BY <1>2, <1>3
  <2> QED
    BY <1>2, <2>1
<1>5. 1 \in 1..Len(s) /\ \A i \in 1..Len(t) : i + 1 \in 1..Len(s)
  BY <1>2, <1>3
<1>6. Shifted(s, t, task.event)
  BY <1>2, <1>4, <1>5 DEF Shifted
<1> QED
  BY <1>1, <1>2, <1>6

LEMMA TrailOfAt ==
    ASSUME TypeOK, NEW kind, At(kind)
    PROVE  /\ task # None /\ task.event \in Event /\ task.event.kind = kind
           /\ task' = None /\ UNCHANGED <<disk, row, queue>>
           /\ Trail' = queue /\ Trail' \in Seq(Event)
           /\ Shifted(Trail, Trail', task.event)
<1>1. task # None /\ task.event.kind = kind /\ task' = None /\ UNCHANGED <<disk, row, queue>>
  BY DEF At
<1>2. Trail' = queue
  BY <1>1 DEF Trail
<1> QED
  BY <1>1, <1>2, TrailShifts

\* No row is forgotten.
RowsKept == \A i \in Ino : row[i] # None => row'[i] # None

LEMMA StillKnown ==
    ASSUME TypeOK, RowsKept, disk' = disk, NEW f \in File, Exists(f), Known(f)
    PROVE  Known(f)'
BY DEF TypeOK, RowsKept, Exists, Known

\* A row step leaves what the mirrors are promised, where it forgets no row of a
\* file that loses nothing.
LEMMA RowStep ==
    ASSUME TypeOK, Promised, UNCHANGED <<disk, head>>, Trail' = Trail, missed \subseteq missed',
           \A f \in File \ missed' : Exists(f) /\ Known(f) => Known(f)'
    PROVE  Promised'
<1>1. PICK s \in Seq(Event) : s = Trail /\ s = Trail'
  BY TrailFacts
<1>2. ASSUME NEW f \in File, f \notin missed', Awaited(f, s)
      PROVE  Awaited(f, s)'
  <2>1. Matches(f) => Matches(f)'
    BY <1>2 DEF Matches, Exists
  <2>2. \A i \in 1..Len(s) : Due(f, s, i) => Due(f, s, i)'
    BY <1>2 DEF Due, Exists
  <2> QED
    BY <1>2, <2>1, <2>2 DEF Awaited, IsLast, Untouched
<1> QED
  BY <1>1, <1>2 DEF Promised, Watched, Target

LEMMA RowsStep ==
    ASSUME TypeOK, Promised, RowsKept, UNCHANGED <<disk, head, missed>>, Trail' = Trail
    PROVE  Promised'
<1>1. \A f \in File : Exists(f) /\ Known(f) => Known(f)'
  BY StillKnown
<1> QED
  BY <1>1, RowStep

\* What the event that is done says is so then; the others stay promised.
LEMMA EventDone ==
    ASSUME NEW N, Setting(N), TypeOK, Promised, RowsKept, disk' = disk, task' = None,
           NEW e \in Event, Shifted(Trail, Trail', e), Trail' \in Seq(Event),
           missed \subseteq missed',
           \A g \in File : ~Touches(e, g) => head'[g] = head[g],
           \A f \in File : head'[f] # None => Watched(f),
           \A f \in File \ missed' :
               Watched(f) /\ IsLast(1, f, Trail) /\ Due(f, Trail, 1) => Matches(f)'
    PROVE  MirrorInv'
<1>1. PICK s \in Seq(Event), t \in Seq(Event) : s = Trail /\ t = Trail'
  BY TrailFacts
<1>2. /\ 1 \in 1..Len(s) /\ s[1] = e
      /\ \A i \in 1..Len(t) : t[i] = s[i + 1] /\ i + 1 \in 1..Len(s)
      /\ \A j \in 1..Len(s) : j = 1 \/ (j - 1 \in 1..Len(t) /\ t[j - 1] = s[j])
      /\ Len(s) \in Nat /\ Len(t) \in Nat
  BY <1>1, LenProperties DEF Shifted
<1>3. \A i \in 1..Len(t) : t[i].kind \in {"created", "modified"} => Watched(t[i].src)
  BY <1>1, <1>2 DEF Promised
<1>4. ASSUME NEW f \in File, f \notin missed', Watched(f)
      PROVE  Awaited(f, t)'
  <2>1. Awaited(f, s)
    BY <1>1, <1>4 DEF Promised
  <2>2. ASSUME Untouched(f, t) PROVE Matches(f)'
    <3>1. CASE Touches(e, f)
      <4>1. IsLast(1, f, s)
        <5>1. \A j \in 1..Len(s) : j > 1 => ~Touches(s[j], f)
          BY <1>2, <2>2 DEF Untouched
        <5> QED
          BY <1>2, <3>1, <5>1 DEF IsLast
      <4> QED
        BY <1>1, <1>2, <1>4, <2>1, <4>1 DEF Awaited
    <3>2. CASE ~Touches(e, f)
      <4>1. Untouched(f, s)
        BY <1>2, <2>2, <3>2 DEF Untouched
      <4>2. Matches(f) /\ head'[f] = head[f]
        BY <2>1, <3>2, <4>1 DEF Awaited
      <4> QED
        BY <4>2, StillKnown DEF Matches, Exists
    <3> QED
      BY <3>1, <3>2
  <2>3. ASSUME NEW i \in 1..Len(t), IsLast(i, f, t) PROVE Due(f, t, i)'
    <3>1. i + 1 \in 1..Len(s) /\ t[i] = s[i + 1]
      BY <1>2
    <3>2. IsLast(i + 1, f, s)
      <4>1. \A j \in 1..Len(s) : j > i + 1 => j - 1 \in 1..Len(t) /\ t[j - 1] = s[j] /\ j - 1 > i
        BY <1>2
      <4> QED
        BY <2>3, <3>1, <4>1 DEF IsLast
    <3>3. Due(f, s, i + 1)
      BY <2>1, <3>1, <3>2 DEF Awaited
    <3> DEFINE o == t[i]
    <3>4. ASSUME o.kind = "moved", Under(f, o.dst)
          PROVE  /\ o.src \in File /\ o.dst = f
                 /\ Exists(f)' /\ Known(f)'
                 /\ head'[o.src] # None /\ Similar(head'[o.src], disk'[f].content)
                 /\ \A j \in 1..Len(t) : j < i => ~Touches(t[j], o.src)
      <4>1. /\ o.src \in File /\ o.dst = f
            /\ Exists(f) /\ Known(f)
            /\ head[o.src] # None /\ Similar(head[o.src], disk[f].content)
            /\ \A j \in 1..Len(s) : j < i + 1 => ~Touches(s[j], o.src)
        BY <3>1, <3>3, <3>4 DEF Due
      <4>2. ~Touches(e, o.src)
        <5>1. 1 < i + 1
          OBVIOUS
        <5> QED
          BY <1>2, <4>1, <5>1
      <4>3. head'[o.src] = head[o.src]
        BY <4>1, <4>2
      <4>4. \A j \in 1..Len(t) : j < i => ~Touches(t[j], o.src)
        <5> SUFFICES ASSUME NEW j \in 1..Len(t), j < i PROVE ~Touches(t[j], o.src)
          OBVIOUS
        <5>1. j + 1 \in 1..Len(s) /\ t[j] = s[j + 1] /\ j + 1 < i + 1
          BY <1>2
        <5> QED
          BY <4>1, <5>1
      <4>5. Exists(f)' /\ Known(f)'
        BY <4>1, StillKnown DEF Exists
      <4> QED
        BY <4>1, <4>3, <4>4, <4>5
    <3>5. /\ o.kind \in {"created", "modified"} => Exists(f)'
          /\ o.kind = "deleted" => ~Exists(f)'
          /\ o.kind = "moved" /\ ~Under(f, o.dst) => ~Exists(f)'
      BY <3>1, <3>3 DEF Due, Exists
    <3> HIDE DEF o
    <3>6. o = t[i]
      BY DEF o
    <3> QED
      BY <3>4, <3>5, <3>6 DEF Due
  <2> QED
    BY <2>2, <2>3 DEF Awaited, Untouched, IsLast
<1> QED
  BY <1>1, <1>3, <1>4 DEF MirrorInv, Promised, InHand, Watched, Target

\* An event of one file touches that file only.
LEMMA OneFile ==
    ASSUME NEW N, Setting(N), NEW e \in Event, e.kind \in {"created", "modified"}
    PROVE  e.src \in File /\ \A f \in File : Touches(e, f) <=> f = e.src
BY EventParts, FileUnder DEF Touches

\* The last event about f, and it is at the worker: nothing follows in the mailbox.
LEMMA LastAtWorker ==
    ASSUME TypeOK, task # None, NEW f, IsLast(1, f, Trail)
    PROVE  Untouched(f, queue) /\ Touches(task.event, f)
<1>1. PICK s \in Seq(Event), t \in Seq(Event) : s = Trail /\ t = queue
  BY TrailFacts
<1>2. /\ s[1] = task.event
      /\ \A i \in 1..Len(t) : t[i] = s[i + 1] /\ i + 1 \in 1..Len(s)
  BY <1>1, TrailShifts DEF Shifted
<1> QED
  BY <1>1, <1>2, LenProperties DEF IsLast, Untouched

LEMMA RowsOfAt == ASSUME NEW kind, At(kind) PROVE RowsKept
BY DEF At, RowsKept

LEMMA CreatedRowKeeps ==
    ASSUME NEW N, Setting(N), Base, MirrorInv, CreatedRow
    PROVE  MirrorInv'
<1> DEFINE e == Head(queue)
<1>1. /\ TypeOK /\ Pick("created") /\ e \in Event /\ e.kind = "created"
      /\ task = None /\ Trail = queue
      /\ UNCHANGED <<disk, head, missed>>
  BY PickFacts, TrailOfPick DEF Base, CreatedRow, history
<1>2. e.src \in File /\ \A f \in File : Touches(e, f) <=> f = e.src
  BY <1>1, OneFile
<1>3. CASE Exists(e.src)
  <2>1. AppendRow(e.src) /\ task' = [event |-> e, found |-> None]
    BY <1>3 DEF CreatedRow, Continue
  <2>2. task'.event = e /\ task' # None
    <3>1. [event |-> e, found |-> None] \in Task
      BY <1>1 DEF Task
    <3> QED
      BY <2>1, <3>1 DEF Setting
  <2>3. Trail' = Trail
    BY <1>1, <2>2, TrailOfPick
  <2>4. RowsKept /\ row'[disk[e.src].ino] = [loc |-> e.src, active |-> TRUE]
    BY <1>1, <1>2, <1>3, <2>1, AppendRowFacts DEF RowsKept
  <2>5. Promised'
    BY <1>1, <2>3, <2>4, RowsStep DEF MirrorInv
  <2>6. ASSUME NEW f \in File, f = e.src PROVE Known(f)'
    <3>1. [loc |-> f, active |-> TRUE] \in [loc : File, active : BOOLEAN]
      OBVIOUS
    <3> QED
      BY <1>1, <2>4, <2>6, <3>1 DEF Known, Setting
  <2> HIDE DEF e
  <2>7. InHand'
    BY <1>1, <1>2, <2>2, <2>6 DEF InHand
  <2> QED
    BY <2>5, <2>7 DEF MirrorInv
<1>4. CASE ~Exists(e.src)
  <2>1. task' = None /\ RowsKept
    BY <1>1, <1>4 DEF CreatedRow, RowsKept
  <2>2. Shifted(Trail, Trail', e) /\ Trail' \in Seq(Event)
    BY <1>1, <2>1, TrailOfPick
  <2>3. \A f \in File : ~(IsLast(1, f, Trail) /\ Due(f, Trail, 1))
    BY <1>1, <1>2, <1>4, <2>2 DEF Due, IsLast, Shifted
  <2>4. \A f \in File : head'[f] # None => Watched(f)
    BY <1>1 DEF MirrorInv, Promised
  <2> HIDE DEF e
  <2> QED
    BY <1>1, <2>1, <2>2, <2>3, <2>4, EventDone DEF MirrorInv
<1> QED
  BY <1>3, <1>4

LEMMA ReadModifiedKeeps ==
    ASSUME NEW N, Setting(N), Base, MirrorInv, ReadModified
    PROVE  MirrorInv'
<1> DEFINE e == Head(queue)
<1>1. /\ TypeOK /\ Pick("modified") /\ e \in Event /\ e.kind = "modified"
      /\ task = None /\ Trail = queue /\ RowsKept
      /\ UNCHANGED <<disk, head, missed>>
  BY PickFacts, TrailOfPick DEF Base, ReadModified, history, RowsKept
<1>2. e.src \in File /\ \A f \in File : Touches(e, f) <=> f = e.src
  BY <1>1, OneFile
<1>3. CASE Exists(e.src)
  <2>1. task' = [event |-> e, found |-> disk[e.src].content]
    BY <1>3 DEF ReadModified, Continue
  <2>2. task'.event = e /\ task'.found = disk[e.src].content /\ task' # None
    <3>1. disk[e.src].content \in Content
      BY <1>1, <1>2, <1>3 DEF TypeOK, Exists
    <3>2. [event |-> e, found |-> disk[e.src].content] \in Task
      BY <1>1, <3>1 DEF Task
    <3> QED
      BY <2>1, <3>2 DEF Setting
  <2>3. Trail' = Trail
    BY <1>1, <2>2, TrailOfPick
  <2>4. Promised'
    BY <1>1, <2>3, RowsStep DEF MirrorInv
  <2> HIDE DEF e
  <2>5. InHand'
    BY <1>1, <1>2, <2>2 DEF InHand
  <2> QED
    BY <2>4, <2>5 DEF MirrorInv
<1>4. CASE ~Exists(e.src)
  <2>1. task' = None
    BY <1>1, <1>4 DEF ReadModified
  <2>2. Shifted(Trail, Trail', e) /\ Trail' \in Seq(Event)
    BY <1>1, <2>1, TrailOfPick
  <2>3. \A f \in File : ~(IsLast(1, f, Trail) /\ Due(f, Trail, 1))
    BY <1>1, <1>2, <1>4, <2>2 DEF Due, IsLast, Shifted
  <2>4. \A f \in File : head'[f] # None => Watched(f)
    BY <1>1 DEF MirrorInv, Promised
  <2> HIDE DEF e
  <2> QED
    BY <1>1, <2>1, <2>2, <2>3, <2>4, EventDone DEF MirrorInv
<1> QED
  BY <1>3, <1>4

\* Deletions and moves: the row step only.
LEMMA DeletedRowKeeps ==
    ASSUME NEW N, Setting(N), Base, MirrorInv, DeletedRow
    PROVE  MirrorInv'
<1> DEFINE e == Head(queue)
<1>1. /\ TypeOK /\ Pick("deleted") /\ e \in Event /\ e.kind = "deleted"
      /\ task' = [event |-> e, found |-> None]
      /\ UNCHANGED <<disk, head, missed>>
      /\ row' = [i \in Ino |->
                    IF row[i] # None /\ Under(row[i].loc, e.src)
                    THEN [row[i] EXCEPT !.active = FALSE] ELSE row[i]]
  BY PickFacts DEF Base, DeletedRow, history, Continue
<1> HIDE DEF e
<1>2. task'.event = e /\ task' # None
  <2>1. [event |-> e, found |-> None] \in Task
    BY <1>1 DEF Task
  <2> QED
    BY <1>1, <2>1 DEF Setting
<1>3. Trail' = Trail
  BY <1>1, <1>2, TrailOfPick DEF e
<1>4. RowsKept
  <2>1. \A i \in Ino : row[i] # None =>
           [row[i] EXCEPT !.active = FALSE] \in [loc : File, active : BOOLEAN]
    BY <1>1 DEF TypeOK
  <2> QED
    BY <1>1, <2>1 DEF RowsKept, Setting
<1>5. Promised'
  BY <1>1, <1>3, <1>4, RowsStep DEF MirrorInv
<1>6. InHand'
  BY <1>1, <1>2 DEF InHand
<1> QED
  BY <1>5, <1>6 DEF MirrorInv

LEMMA MovedRowKeeps ==
    ASSUME NEW N, Setting(N), Base, MirrorInv, MovedRow
    PROVE  MirrorInv'
<1> DEFINE e == Head(queue)
<1>1. /\ TypeOK /\ Pick("moved") /\ e \in Event /\ e.kind = "moved" /\ Movable(e)
      /\ row' = MovedRows(e)
      /\ UNCHANGED <<disk, head, missed>>
  BY PickFacts DEF Base, MovedRow, history
<1>2. PICK n \in Stat(e.dst) : task' = [event |-> e, found |-> n]
  BY DEF MovedRow, Continue
<1> HIDE DEF e
<1>3. /\ n \in Ino \union Folder \union {None}
      /\ e.dst \in File => n = IF Exists(e.dst) THEN disk[e.dst].ino ELSE None
  BY <1>1, EventParts, StatFacts
<1>4. task'.event = e /\ task'.found = n /\ task' # None
  <2>1. [event |-> e, found |-> n] \in Task
    BY <1>1, <1>3 DEF Task
  <2> QED
    BY <1>2, <2>1 DEF Setting
<1>5. Trail' = Trail
  BY <1>1, <1>4, TrailOfPick DEF e
<1>6. RowsKept
  BY <1>1, MovedRowsFacts DEF RowsKept
<1>7. Promised'
  BY <1>1, <1>5, <1>6, RowsStep DEF MirrorInv
<1>8. InHand'
  BY <1>1, <1>3, <1>4 DEF InHand, Exists
<1> QED
  BY <1>7, <1>8 DEF MirrorInv

\* At its second look the handler goes on with the file it found, or ends; nothing
\* is lost unless the file is another one by then.
LEMMA MovedNodeKeeps ==
    ASSUME NEW N, Setting(N), Base, MirrorInv, MovedNode
    PROVE  MirrorInv'
<1>1. PICK e \in Event : \E n \in Stat(e.dst) :
         /\ TypeOK /\ Distinct
         /\ task # None /\ e = task.event /\ e.kind = "moved" /\ task.found # None
         /\ UNCHANGED <<disk, queue, head>>
         /\ e.dst \in File => n = IF Exists(e.dst) THEN disk[e.dst].ino ELSE None
         /\ \/ Ends(e, n)
            \/ /\ task' = [event |-> e, found |-> None]
               /\ \/ Renames(e, n)
                  \/ ~(n \in Ino /\ row[n] # None) /\ n # None /\ UNCHANGED <<row, history>>
  BY NodeFacts DEF Base
<1>2. PICK n :
         /\ e.dst \in File => n = IF Exists(e.dst) THEN disk[e.dst].ino ELSE None
         /\ \/ Ends(e, n)
            \/ /\ task' = [event |-> e, found |-> None]
               /\ \/ Renames(e, n)
                  \/ ~(n \in Ino /\ row[n] # None) /\ n # None /\ UNCHANGED <<row, history>>
  BY <1>1
<1>3. CASE Ends(e, n)
  <2>1. task' = None /\ row' = row /\ missed' = missed \union Below(e.src) /\ RowsKept
    BY <1>3 DEF Ends, RowsKept
  <2>2. /\ Trail' = queue /\ queue \in Seq(Event) /\ Shifted(Trail, queue, e)
    BY <1>1, <2>1, TrailShifts DEF Trail
  <2>3. \A f \in File : head'[f] # None => Watched(f)
    BY <1>1 DEF MirrorInv, Promised
  <2>4. ASSUME NEW f \in File, f \notin missed', Watched(f),
               IsLast(1, f, Trail), Due(f, Trail, 1)
        PROVE  FALSE
    <3>1. Trail[1] = e /\ Touches(e, f) /\ Untouched(f, queue)
      BY <1>1, <2>2, <2>4, LastAtWorker DEF Shifted
    <3>2. Under(f, e.dst) /\ f \notin missed
      BY <1>1, <2>1, <2>4, <3>1 DEF Touches, Below
    <3>3. e.dst = f /\ Exists(f) /\ Known(f)
      BY <1>1, <2>4, <3>1, <3>2 DEF Due
    <3>4. disk[f].ino = task.found
      BY <1>1, <2>4, <3>1, <3>2, <3>3 DEF MirrorInv, InHand
    <3>5. n = disk[f].ino /\ n # None
      BY <1>1, <1>2, <3>3, <3>4
    <3> QED
      BY <1>3, <3>4, <3>5 DEF Ends
  <2> QED
    BY <1>1, <2>1, <2>2, <2>3, <2>4, EventDone DEF MirrorInv
<1>4. CASE /\ task' = [event |-> e, found |-> None]
           /\ \/ Renames(e, n)
              \/ ~(n \in Ino /\ row[n] # None) /\ n # None /\ UNCHANGED <<row, history>>
  <2>1. task'.event = e /\ task'.found = None /\ task' # None
    <3>1. [event |-> e, found |-> None] \in Task
      BY DEF Task
    <3> QED
      BY <1>4, <3>1 DEF Setting
  <2>2. Trail' = Trail
    BY <1>1, <2>1 DEF Trail
  <2>3. missed \subseteq missed'
    BY <1>4 DEF Renames, history
  <2>4. ASSUME NEW f \in File, f \notin missed', Exists(f), Known(f)
        PROVE  Known(f)'
    <3> DEFINE j == disk[f].ino
    <3>1. j \in Ino /\ row[j] # None /\ disk'[f] = disk[f]
      BY <1>1, <2>4 DEF TypeOK, Exists, Known
    <3>2. CASE row' = row
      BY <3>1, <3>2 DEF Known
    <3>3. CASE Renames(e, n)
      <4>1. n # task.found => f # e.dst
        BY <2>4, <3>3 DEF Renames
      <4>2. ASSUME n # task.found PROVE j # n
        <5>1. e.dst \in File
          BY <3>3 DEF Renames
        <5>2. Exists(e.dst) => n = disk[e.dst].ino
          BY <1>2, <5>1
        <5>3. Exists(e.dst)
          BY <1>2, <3>3, <5>1, VersioningAssumption DEF Renames
        <5> QED
          BY <1>1, <2>4, <4>1, <4>2, <5>1, <5>2, <5>3 DEF Distinct
      <4>3. row'[j] # None
        <5>1. TypeOK
          BY DEF Base
        <5> HIDE DEF j
        <5> QED
          BY <3>1, <3>3, <4>2, <5>1, RenamesKeeps
      <4> QED
        BY <3>1, <4>3 DEF Known
    <3> QED
      BY <1>4, <3>2, <3>3
  <2>5. Promised'
    BY <1>1, <2>2, <2>3, <2>4, RowStep DEF MirrorInv
  <2>6. InHand'
    BY <1>1, <2>1 DEF InHand
  <2> QED
    BY <2>5, <2>6 DEF MirrorInv
<1> QED
  BY <1>2, <1>3, <1>4

\* A file without a row: what is to be done for it is the same.
LEMMA ModifiedUnknownKeeps ==
    ASSUME NEW N, Setting(N), Base, MirrorInv, ModifiedUnknown
    PROVE  MirrorInv'
<1> DEFINE p == task.event.src
           c == Ev("created", p)
<1>1. /\ TypeOK /\ task # None /\ task.event \in Event /\ task.event.kind = "modified"
      /\ Exists(p) /\ AppendRow(p)
      /\ task' = [event |-> c, found |-> None]
      /\ UNCHANGED <<disk, queue, head, missed>>
  BY DEF Base, ModifiedUnknown, TypeOK, Continue, history
<1>2. p \in File /\ \A f \in File : Touches(task.event, f) <=> f = p
  BY <1>1, OneFile
<1>3. c \in Event /\ c.kind = "created" /\ c.src = p
  BY <1>2, EventsAre DEF Ev
<1>4. \A f \in File : Touches(c, f) <=> f = p
  <2> HIDE DEF c
  <2> QED
    BY <1>3, OneFile
<1>5. task'.event = c /\ task' # None
  <2>1. [event |-> c, found |-> None] \in Task
    BY <1>3 DEF Task
  <2> QED
    BY <1>1, <2>1 DEF Setting
<1>6. RowsKept /\ row'[disk[p].ino] = [loc |-> p, active |-> TRUE]
  BY <1>1, <1>2, AppendRowFacts DEF RowsKept
<1>7. PICK s \in Seq(Event), t \in Seq(Event) : s = Trail /\ t = Trail'
  <2>1. <<c>> \o queue \in Seq(Event)
    BY <1>1, <1>3 DEF TypeOK
  <2>2. Trail' = <<c>> \o queue
    BY <1>1, <1>5 DEF Trail
  <2> QED
    BY <1>1, <2>1, <2>2, TrailFacts
<1>8. /\ Len(t) = Len(s) /\ Len(s) \in Nat /\ 1 \in 1..Len(s)
      /\ s[1] = task.event /\ t[1] = c
      /\ \A j \in 1..Len(s) : j = 1 \/ t[j] = s[j]
  <2>1. PICK q \in Seq(Event) : q = queue
    BY <1>1, TrailFacts
  <2>2. s = <<task.event>> \o q /\ t = <<c>> \o q
    BY <1>1, <1>5, <1>7, <2>1 DEF Trail
  <2>3. /\ Len(s) = Len(q) + 1 /\ s[1] = task.event
        /\ \A j \in 1..Len(q) + 1 : j = 1 \/ (j - 1 \in 1..Len(q) /\ s[j] = q[j - 1])
    BY <1>1, <2>1, <2>2, OneMore
  <2> HIDE DEF c
  <2>4. /\ Len(t) = Len(q) + 1 /\ t[1] = c
        /\ \A j \in 1..Len(q) + 1 : j = 1 \/ (j - 1 \in 1..Len(q) /\ t[j] = q[j - 1])
    BY <1>3, <2>1, <2>2, OneMore
  <2>5. Len(q) \in Nat
    BY <2>1, LenProperties
  <2> QED
    BY <2>3, <2>4, <2>5
<1> HIDE DEF c, p
<1>9. \A f \in File, j \in 1..Len(s) : Touches(t[j], f) <=> Touches(s[j], f)
  BY <1>2, <1>4, <1>8
<1>10. \A j \in 1..Len(t) : t[j].kind \in {"created", "modified"} => Watched(t[j].src)
  <2>1. Watched(p)
    BY <1>1, <1>7, <1>8 DEF MirrorInv, Promised, p
  <2> QED
    BY <1>3, <1>7, <1>8, <2>1 DEF MirrorInv, Promised
<1>11. ASSUME NEW f \in File, Awaited(f, s)
       PROVE  Awaited(f, t)'
  <2>1. Untouched(f, t) => Matches(f)'
    <3>1. Untouched(f, t) => Untouched(f, s)
      BY <1>8, <1>9 DEF Untouched
    <3>2. Matches(f) => Matches(f)'
      BY <1>1, <1>6, StillKnown DEF Matches, Exists
    <3> QED
      BY <1>11, <3>1, <3>2 DEF Awaited
  <2>2. ASSUME NEW i \in 1..Len(t), IsLast(i, f, t) PROVE Due(f, t, i)'
    <3>1. IsLast(i, f, s)
      BY <1>8, <1>9, <2>2 DEF IsLast
    <3>2. Due(f, s, i) /\ i \in 1..Len(s)
      BY <1>8, <1>11, <3>1 DEF Awaited
    <3>3. CASE i = 1
      <4>1. Exists(f) /\ t[i].kind = "created"
        BY <1>1, <1>3, <1>8, <3>2, <3>3 DEF Due
      <4> QED
        BY <1>1, <4>1 DEF Due, Exists
    <3>4. CASE i # 1
      <4>1. t[i] = s[i]
        BY <1>8, <3>2, <3>4
      <4>2. Exists(f)' <=> Exists(f)
        BY <1>1 DEF Exists
      <4>3. Exists(f) /\ Known(f) => Known(f)'
        BY <1>1, <1>6, StillKnown
      <4> QED
        BY <1>1, <1>8, <1>9, <3>2, <4>1, <4>2, <4>3 DEF Due
    <3> QED
      BY <3>3, <3>4
  <2> QED
    BY <2>1, <2>2 DEF Awaited, Untouched, IsLast
<1>12. Promised'
  BY <1>1, <1>7, <1>10, <1>11 DEF MirrorInv, Promised, Watched, Target
<1>13. InHand'
  <2>1. ASSUME NEW f \in File, f = p PROVE Known(f)'
    <3>1. [loc |-> f, active |-> TRUE] \in [loc : File, active : BOOLEAN]
      OBVIOUS
    <3> QED
      BY <1>1, <1>6, <2>1, <3>1 DEF Known, Setting
  <2> QED
    BY <1>1, <1>3, <1>4, <1>5, <2>1 DEF InHand
<1> QED
  BY <1>12, <1>13 DEF MirrorInv

LEMMA CreatedMirrorKeeps ==
    ASSUME NEW N, Setting(N), Base, MirrorInv, CreatedMirror
    PROVE  MirrorInv'
<1>1. PICK e \in Event, p \in File :
         /\ TypeOK /\ At("created") /\ e = task.event /\ e.kind = "created" /\ p = e.src
         /\ \A f \in File : Touches(e, f) <=> f = p
         /\ head' = IF Exists(p) THEN [head EXCEPT ![p] = disk[p].content] ELSE head
         /\ missed' = missed
  BY TrailOfAt, OneFile DEF Base, CreatedMirror, history
<1>2. /\ task # None /\ task' = None /\ UNCHANGED <<disk, row, queue>> /\ RowsKept
      /\ Trail' \in Seq(Event) /\ Shifted(Trail, Trail', e)
  BY <1>1, TrailOfAt, RowsOfAt
<1>3. Watched(p)
  <2>1. Trail[1] = e /\ 1 \in 1..Len(Trail)
    BY <1>2 DEF Shifted
  <2> QED
    BY <1>1, <2>1 DEF MirrorInv, Promised
<1>4. head \in [Tracked -> Content \union {None}] /\ p \in Tracked
  BY <1>1, TrackedFiles DEF TypeOK
<1>5. \A g \in File : ~Touches(e, g) => head'[g] = head[g]
  BY <1>1, <1>4
<1>6. \A f \in File : head'[f] # None => Watched(f)
  BY <1>1, <1>3, <1>5 DEF MirrorInv, Promised
<1>7. ASSUME NEW f \in File, f \notin missed, IsLast(1, f, Trail), Due(f, Trail, 1)
      PROVE  Matches(f)'
  <2>1. Trail[1] = e /\ Touches(e, f) /\ Untouched(f, queue)
    BY <1>1, <1>2, <1>7, LastAtWorker DEF Shifted
  <2>2. f = p /\ Exists(f) /\ Known(f)
    BY <1>1, <1>2, <1>7, <2>1 DEF Due, MirrorInv, InHand
  <2>3. disk[f].content \in Content /\ head'[f] = disk[f].content
    BY <1>1, <1>4, <2>2 DEF TypeOK, Exists
  <2>4. head'[f] # None /\ Similar(head'[f], disk[f].content)
    BY <2>3, VersioningAssumption DEF Similar
  <2> QED
    BY <1>2, <2>2, <2>4 DEF Matches, Exists, Known
<1> QED
  BY <1>1, <1>2, <1>5, <1>6, <1>7, EventDone DEF MirrorInv

LEMMA ModifiedMirrorKeeps ==
    ASSUME NEW N, Setting(N), Base, MirrorInv, ModifiedMirror
    PROVE  MirrorInv'
<1>1. PICK e \in Event, p \in File :
         /\ TypeOK /\ At("modified") /\ e = task.event /\ e.kind = "modified" /\ p = e.src
         /\ \A f \in File : Touches(e, f) <=> f = p
         /\ Exists(p) => Known(p)
         /\ head' = IF Exists(p) /\ ~(head[p] # None /\ Similar(head[p], task.found))
                    THEN [head EXCEPT ![p] = task.found] ELSE head
         /\ missed' = missed
  BY TrailOfAt, OneFile DEF Base, ModifiedMirror, history, Known
<1>2. /\ task # None /\ task' = None /\ UNCHANGED <<disk, row, queue>> /\ RowsKept
      /\ Trail' \in Seq(Event) /\ Shifted(Trail, Trail', e)
  BY <1>1, TrailOfAt, RowsOfAt
<1>3. Watched(p)
  <2>1. Trail[1] = e /\ 1 \in 1..Len(Trail)
    BY <1>2 DEF Shifted
  <2> QED
    BY <1>1, <2>1 DEF MirrorInv, Promised
<1>4. head \in [Tracked -> Content \union {None}] /\ p \in Tracked
  BY <1>1, TrackedFiles DEF TypeOK
<1>5. \A g \in File : ~Touches(e, g) => head'[g] = head[g]
  BY <1>1, <1>4
<1>6. \A f \in File : head'[f] # None => Watched(f)
  BY <1>1, <1>3, <1>5 DEF MirrorInv, Promised
<1>7. ASSUME NEW f \in File, f \notin missed, IsLast(1, f, Trail), Due(f, Trail, 1)
      PROVE  Matches(f)'
  <2>1. Trail[1] = e /\ Touches(e, f) /\ Untouched(f, queue)
    BY <1>1, <1>2, <1>7, LastAtWorker DEF Shifted
  <2>2. f = p /\ Exists(f) /\ task.found = disk[f].content
    BY <1>1, <1>2, <1>7, <2>1 DEF Due, MirrorInv, InHand
  <2>3. disk[f].content \in Content /\ Known(f)
    BY <1>1, <2>2 DEF TypeOK, Exists
  <2>4. head'[f] # None /\ Similar(head'[f], disk[f].content)
    <3>1. CASE head[f] # None /\ Similar(head[f], task.found)
      BY <1>1, <2>2, <3>1
    <3>2. CASE ~(head[f] # None /\ Similar(head[f], task.found))
      <4>1. head'[f] = disk[f].content
        BY <1>1, <1>4, <2>2, <3>2
      <4>2. disk[f].content \in Nat /\ disk[f].content # None
        BY <2>3, VersioningAssumption
      <4>3. \A c \in Nat : Similar(c, c)
        BY DEF Similar
      <4> QED
        BY <4>1, <4>2, <4>3
    <3> QED
      BY <3>1, <3>2
  <2> QED
    BY <1>2, <2>2, <2>3, <2>4 DEF Matches, Exists, Known
<1> QED
  BY <1>1, <1>2, <1>5, <1>6, <1>7, EventDone DEF MirrorInv

LEMMA DeletedMirrorKeeps ==
    ASSUME NEW N, Setting(N), Base, MirrorInv, DeletedMirror
    PROVE  MirrorInv'
<1>1. PICK e \in Event :
         /\ TypeOK /\ At("deleted") /\ e = task.event /\ e.kind = "deleted"
         /\ head' = Without(head, e.src)
         /\ missed' = missed
  BY TrailOfAt DEF Base, DeletedMirror, history
<1>2. /\ task' = None /\ disk' = disk /\ RowsKept
      /\ Trail' \in Seq(Event) /\ Shifted(Trail, Trail', e)
  BY <1>1, TrailOfAt, RowsOfAt
<1>3. \A f \in File : head'[f] = IF Under(f, e.src) THEN None ELSE head[f]
  BY <1>1, WithoutTypes, TrackedFiles
<1>4. \A f \in File : Touches(e, f) <=> Under(f, e.src)
  BY <1>1 DEF Touches
<1>5. \A f \in File : head'[f] # None => Watched(f)
  BY <1>3 DEF MirrorInv, Promised
<1>6. ASSUME NEW f \in File, IsLast(1, f, Trail), Due(f, Trail, 1)
      PROVE  Matches(f)'
  <2>1. Trail[1] = e /\ Touches(e, f)
    BY <1>2, <1>6 DEF Shifted, IsLast
  <2>2. ~Exists(f) /\ head'[f] = None
    BY <1>1, <1>3, <1>4, <1>6, <2>1 DEF Due
  <2> QED
    BY <1>2, <2>2 DEF Matches, Exists
<1> QED
  BY <1>1, <1>2, <1>3, <1>4, <1>5, <1>6, EventDone DEF MirrorInv

\* git moves the entry of a file, and takes away those of a directory.
LEMMA MoveFacts ==
    ASSUME NEW N, Setting(N), TypeOK, NEW e \in Event, e.kind = "moved", NEW g \in File
    PROVE  Move(head, e.src, e.dst)[g] =
               IF g = e.dst /\ e.src \in File /\ head[e.src] # None THEN head[e.src]
               ELSE IF Under(g, e.src) THEN None ELSE head[g]
<1> DEFINE src == e.src
           dst == e.dst
           from(p) == {q \in Below(src) : head[q] # None /\ p = Landing(q, src, dst)}
<1>1. Move(head, src, dst)[g] =
        IF from(g) # {} THEN head[CHOOSE q \in from(g) : TRUE]
        ELSE IF Under(g, src) THEN None ELSE head[g]
  BY TrackedFiles DEF Move
<1>2. CASE src \in Folder /\ dst \in Folder
  <2>1. from(g) = {}
    BY <1>2 DEF Setting
  <2>2. src \notin File
    <3>1. \A f \in File : Under(f, f)
      BY FileUnder
    <3> QED
      BY <1>2, <3>1 DEF Setting
  <2> HIDE DEF from
  <2> QED
    BY <1>1, <2>1, <2>2
<1>3. CASE src \in File /\ dst \in File
  <2>1. Below(src) = {src}
    BY <1>3, FileUnder DEF Below
  <2>2. Landing(src, src, dst) = dst
    BY DEF Landing
  <2>3. g = dst /\ head[src] # None => from(g) = {src}
    BY <2>1, <2>2
  <2>4. ~(g = dst /\ head[src] # None) => from(g) = {}
    BY <2>1, <2>2
  <2>5. (CHOOSE q \in {src} : TRUE) = src
    OBVIOUS
  <2> HIDE DEF from
  <2> QED
    BY <1>1, <1>3, <2>3, <2>4, <2>5
<1> HIDE DEF from
<1> QED
  BY <1>2, <1>3, EventParts

LEMMA MovedMirrorKeeps ==
    ASSUME NEW N, Setting(N), Base, MirrorInv, MovedMirror
    PROVE  MirrorInv'
<1>1. PICK e \in Event, src \in File \union Folder, dst \in File \union Folder :
         /\ TypeOK /\ At("moved") /\ e = task.event /\ e.kind = "moved"
         /\ src = e.src /\ dst = e.dst
         /\ (src \in File /\ dst \in File) \/ (src \in Folder /\ dst \in Folder)
  <2>1. TypeOK /\ At("moved") /\ task.event.kind = "moved" /\ task.event \in Event
    BY TrailOfAt DEF Base, MovedMirror
  <2> QED
    BY <2>1, EventParts
<1>2. /\ task' = None /\ disk' = disk /\ row' = row /\ RowsKept
      /\ Trail' \in Seq(Event) /\ Shifted(Trail, Trail', e)
  BY <1>1, TrailOfAt, RowsOfAt
<1>3. \A f \in File : Touches(e, f) <=> Under(f, src) \/ Under(f, dst)
  BY <1>1 DEF Touches
<1>4. dst \in File => Under(dst, dst)
  BY FileUnder
<1>5. \/ ~Watched(src) /\ head' = head /\ missed' = missed
      \/ ~Watched(dst) /\ head' = Without(head, src) /\ missed' = missed
      \/ Watched(dst) /\ head' = Move(head, src, dst) /\ missed' = missed
      \/ (dst \notin File \/ ~Exists(dst)) /\ head' = head /\ missed' = missed \union Below(src)
      \/ /\ Watched(dst) /\ dst \in File /\ Exists(dst)
         /\ head' = [Without(head, src) EXCEPT ![dst] = disk[dst].content]
         /\ missed' = missed
  BY <1>1 DEF MovedMirror, history
<1>6. missed \subseteq missed'
  BY <1>5
<1>7. \A g \in File : Without(head, src)[g] = IF Under(g, src) THEN None ELSE head[g]
  BY <1>1, WithoutTypes, TrackedFiles
<1>8. \A g \in File : Move(head, src, dst)[g] =
         IF g = dst /\ src \in File /\ head[src] # None THEN head[src]
         ELSE IF Under(g, src) THEN None ELSE head[g]
  BY <1>1, MoveFacts
<1>9. \A g \in File : [Without(head, src) EXCEPT ![dst] = disk[dst].content][g]
                         = IF g = dst THEN disk[dst].content ELSE Without(head, src)[g]
  BY <1>1, WithoutTypes, TrackedFiles
<1>10. \A g \in File : ~Touches(e, g) => head'[g] = head[g]
  BY <1>3, <1>4, <1>5, <1>7, <1>8, <1>9
<1>11. \A f \in File : head'[f] # None => Watched(f)
  BY <1>5, <1>7, <1>8, <1>9 DEF MirrorInv, Promised
<1>12. ASSUME NEW f \in File, f \notin missed', Watched(f),
              IsLast(1, f, Trail), Due(f, Trail, 1)
       PROVE  Matches(f)'
  <2>1. Trail[1] = e /\ Touches(e, f)
    BY <1>2, <1>12 DEF Shifted, IsLast
  <2>2. CASE ~Under(f, dst)
    <3>1. ~Exists(f) /\ Under(f, src)
      BY <1>1, <1>3, <1>12, <2>1, <2>2 DEF Due
    <3>2. Watched(src) /\ f \in Below(src)
      BY <1>12, <3>1, AboveWatched DEF Below
    <3>3. f # dst /\ ~(f \notin missed' /\ missed' = missed \union Below(src))
      BY <1>4, <2>2, <3>2
    <3>4. head'[f] = None
      BY <1>5, <1>7, <1>8, <1>9, <1>12, <3>1, <3>2, <3>3
    <3> QED
      BY <1>2, <3>1, <3>4 DEF Matches, Exists
  <2>3. CASE Under(f, dst)
    <3>1. /\ src \in File /\ dst = f /\ Exists(f) /\ Known(f)
          /\ head[src] # None /\ Similar(head[src], disk[f].content)
      BY <1>1, <1>12, <2>1, <2>3 DEF Due
    <3>2. Watched(src)
      BY <3>1 DEF MirrorInv, Promised
    <3>3. head'[f] = head[src] \/ head'[f] = disk[f].content
      BY <1>5, <1>8, <1>9, <1>12, <3>1, <3>2
    <3>4. disk[f].content \in Content
      BY <1>1, <3>1 DEF TypeOK, Exists
    <3>5. disk[f].content \in Nat /\ disk[f].content # None
      BY <3>4, VersioningAssumption
    <3>6. \A c \in Nat : Similar(c, c)
      BY DEF Similar
    <3>7. head'[f] # None /\ Similar(head'[f], disk[f].content)
      BY <3>1, <3>3, <3>5, <3>6
    <3> QED
      BY <1>2, <3>1, <3>7 DEF Matches, Exists, Known
  <2> QED
    BY <2>2, <2>3
<1> QED
  BY <1>1, <1>2, <1>6, <1>10, <1>11, <1>12, EventDone DEF MirrorInv

LEMMA MirrorStays == ASSUME NEW N, Setting(N) PROVE Spec => [](Base /\ MirrorInv)
<1>1. Init => MirrorInv
  BY InitMirror
<1>2. Base /\ MirrorInv /\ [Next]_vars => MirrorInv'
  <2> SUFFICES ASSUME Base, MirrorInv, [Next]_vars PROVE MirrorInv'
    OBVIOUS
  <2>1. CASE World
    <3>1. ASSUME NEW events, Change(events) PROVE MirrorInv'
      BY <3>1, ChangeMirror
    <3> QED
      BY <2>1, <3>1, WorldChanges, ExpireMirror DEF Base
  <2>2. CASE Worker
    BY <2>2, CreatedRowKeeps, CreatedMirrorKeeps, ReadModifiedKeeps, ModifiedUnknownKeeps,
       ModifiedMirrorKeeps, DeletedRowKeeps, MovedRowKeeps, MovedNodeKeeps, DeletedMirrorKeeps,
       MovedMirrorKeeps DEF Worker
  <2>3. CASE UNCHANGED vars
    <3>1. UNCHANGED <<disk, queue, task, row, head, missed>>
      BY <2>3 DEF vars, history
    <3>2. Trail' = Trail
      BY <3>1 DEF Trail
    <3>3. \A f, s : Awaited(f, s)' <=> Awaited(f, s)
      BY <3>1 DEF Awaited, Untouched, IsLast, Due, Matches, Exists, Known
    <3> QED
      BY <3>1, <3>2, <3>3 DEF MirrorInv, Promised, InHand, Known, Exists, Watched, Target
  <2> QED
    BY <2>1, <2>2, <2>3 DEF Next
<1> QED
  BY <1>1, <1>2, BaseStays, PTL DEF Spec

\* Once the worker has caught up, HEAD agrees with the disk for every path in
\* scope that lost no change (modified_handle, created_handle, deleted_handle,
\* moved_handle, whatever the order of changes and handlers).
THEOREM HistoryFollowsDisk ==
    ASSUME NEW N, Setting(N)
    PROVE  Spec => []HistoryMatchesDisk
<1>1. Base /\ MirrorInv => HistoryMatchesDisk
  <2> SUFFICES ASSUME Base, MirrorInv, CaughtUp,
                      NEW f \in File, f \notin missed, InScope(f, Source)
               PROVE  Matches(f)
    BY DEF HistoryMatchesDisk, Matches
  <2>1. Trail = <<>>
    BY DEF CaughtUp, Trail
  <2>2. Watched(f)
    BY ScopeWatched
  <2> QED
    BY <2>1, <2>2 DEF MirrorInv, Promised, Awaited, Untouched
<1> QED
  BY <1>1, MirrorStays, PTL

-----------------------------------------------------------------------------
(* The rows, which the mailbox is ahead of: what the worker has taken has  *)
(* set its row, but for a move between its two looks.                      *)

\* An edit leaves the row as it is.
Counts(e, f) == Touches(e, f) /\ e.kind # "modified"

Settled(f, s) == \A i \in 1..Len(s) : ~Counts(s[i], f)

LastCount(i, f, s) ==
    /\ i \in 1..Len(s)
    /\ Counts(s[i], f)
    /\ \A j \in 1..Len(s) : j > i => ~Counts(s[j], f)

Sits(f) == Exists(f) => row[disk[f].ino] = [loc |-> f, active |-> TRUE]

Says(f, e) ==
    /\ e.kind = "created" => Exists(f)
    /\ e.kind = "deleted" => ~Exists(f)
    /\ e.kind = "moved" /\ ~Under(f, e.dst) => ~Exists(f)
    /\ e.kind = "moved" /\ Under(f, e.dst) =>
          e.src \in File /\ e.dst = f /\ Exists(f) /\ Known(f)

RowAwaited(f, s) ==
    /\ Settled(f, s) => Sits(f)
    /\ \A i \in 1..Len(s) : LastCount(i, f, s) => Says(f, s[i])

\* moved_handle has looked at its destination once.
Looking == task # None /\ task.event.kind = "moved" /\ task.found # None

RowTrail == IF Looking THEN Trail ELSE queue

\* What it found is still there if nothing more is to come.
RowHand ==
    Looking => \A f \in File \ strayed :
        f = task.event.dst /\ InScope(f, Source) /\ Settled(f, queue) =>
            Exists(f) /\ disk[f].ino = task.found

RowInv ==
    /\ \A f \in File \ strayed : InScope(f, Source) => RowAwaited(f, RowTrail)
    /\ RowHand

LEMMA InitRows == ASSUME NEW N, Setting(N), Init PROVE RowInv
<1>1. Start \subseteq File
  BY VersioningAssumption
<1>2. PICK i \in [Start -> Ino] :
          /\ IsInjective(i)
          /\ disk = [f \in File |-> IF f \in Start THEN [ino |-> i[f], content |-> First] ELSE None]
          /\ row = [n \in Ino |->
                       IF \E f \in Start : i[f] = n
                       THEN [loc |-> CHOOSE f \in Start : i[f] = n, active |-> TRUE]
                       ELSE None]
  BY DEF Init
<1>3. \A f, g \in Start : i[f] = i[g] => f = g
  BY <1>2 DEF IsInjective
<1>4. \A f \in File : Exists(f) => f \in Start /\ disk[f].ino = i[f]
  BY <1>2 DEF Exists
<1>5. \A f \in Start : row[i[f]] = [loc |-> f, active |-> TRUE]
  <2> SUFFICES ASSUME NEW f \in Start PROVE row[i[f]] = [loc |-> f, active |-> TRUE]
    OBVIOUS
  <2> DEFINE n == i[f]
  <2>1. n \in Ino /\ \E g \in Start : i[g] = n
    OBVIOUS
  <2>2. (CHOOSE g \in Start : i[g] = n) = f
    BY <1>3
  <2> HIDE DEF n
  <2>3. row[n] = [loc |-> CHOOSE g \in Start : i[g] = n, active |-> TRUE]
    BY <1>2, <2>1
  <2>4. row[n] = [loc |-> f, active |-> TRUE]
    BY <2>2, <2>3
  <2> QED
    BY <2>4 DEF n
<1>6. ~Looking /\ RowTrail = <<>>
  BY DEF Init, Looking, RowTrail
<1> QED
  BY <1>4, <1>5, <1>6 DEF RowInv, RowHand, RowAwaited, Sits, Settled, LastCount

LEMMA SameRows ==
    ASSUME RowInv, UNCHANGED <<disk, queue, row, strayed>>, task' = task \/ (~Looking /\ ~Looking')
    PROVE  RowInv'
<1>1. \A f, s : RowAwaited(f, s)' <=> RowAwaited(f, s)
  BY DEF RowAwaited, Settled, LastCount, Sits, Says, Exists, Known
<1>2. RowTrail' = RowTrail
  BY DEF RowTrail, Looking, Trail
<1>3. RowHand'
  BY DEF RowInv, RowHand, Looking, Settled, Exists
<1> QED
  BY <1>1, <1>2, <1>3 DEF RowInv

LEMMA RowTrailTypes == ASSUME TypeOK PROVE RowTrail \in Seq(Event) /\ queue \in Seq(Event)
BY TrailFacts DEF RowTrail

\* More events: which of them is the last that counts.
LEMMA MoreCounts ==
    ASSUME NEW s \in Seq(Event), NEW t \in Seq(Event), NEW f
    PROVE  /\ Settled(f, s \o t) => Settled(f, s) /\ Settled(f, t)
           /\ \A i : LastCount(i, f, s \o t) =>
                 \/ LastCount(i, f, s) /\ Settled(f, t) /\ (s \o t)[i] = s[i]
                 \/ \E k \in 1..Len(t) : (s \o t)[i] = t[k] /\ Counts(t[k], f)
<1> DEFINE st == s \o t
<1>1. /\ Len(s) \in Nat /\ Len(t) \in Nat
      /\ Len(st) = Len(s) + Len(t)
      /\ \A i \in 1..Len(s) : i \in 1..Len(st) /\ st[i] = s[i]
      /\ \A k \in 1..Len(t) : Len(s) + k \in 1..Len(st) /\ st[Len(s) + k] = t[k]
      /\ \A i \in 1..Len(st) : i \in 1..Len(s) \/ \E k \in 1..Len(t) : i = Len(s) + k
  BY MoreEvents
<1> HIDE DEF st
<1>2. Settled(f, st) => Settled(f, s) /\ Settled(f, t)
  BY <1>1 DEF Settled
<1>3. ASSUME NEW i, LastCount(i, f, st)
      PROVE  \/ LastCount(i, f, s) /\ Settled(f, t) /\ st[i] = s[i]
             \/ \E k \in 1..Len(t) : st[i] = t[k] /\ Counts(t[k], f)
  <2>1. CASE i \in 1..Len(s)
    <3>1. \A k \in 1..Len(t) : Len(s) + k > i
      BY <1>1, <2>1
    <3>2. Settled(f, t)
      BY <1>1, <1>3, <3>1 DEF LastCount, Settled
    <3>3. LastCount(i, f, s)
      BY <1>1, <1>3, <2>1 DEF LastCount
    <3> QED
      BY <1>1, <2>1, <3>2, <3>3
  <2>2. CASE \E k \in 1..Len(t) : i = Len(s) + k
    BY <1>1, <1>3, <2>2 DEF LastCount
  <2> QED
    BY <1>1, <1>3, <2>1, <2>2 DEF LastCount
<1> QED
  BY <1>2, <1>3 DEF st

LEMMA ChangeRows ==
    ASSUME NEW N, Setting(N), Base, MirrorInv, RowInv, NEW events, Change(events)
    PROVE  RowInv'
<1>1. TypeOK /\ events \in Seq(Event) /\ Report(events)
  BY DEF Base, Change
<1>2. PICK new \in Seq(Event) : Reported(new, events)
  BY <1>1, ReportFacts
<1>3. PICK s \in Seq(Event) : s = RowTrail /\ RowTrail' = s \o new
  <2>1. Trail' = Trail \o new /\ queue' = queue \o new /\ task' = task
    BY <1>1, <1>2, ReportTrail DEF Reported
  <2> QED
    BY <1>1, <2>1, RowTrailTypes DEF RowTrail, Looking
<1>4. row' = row
  BY <1>2 DEF Reported
<1>5. ASSUME NEW f \in File, f \notin strayed', InScope(f, Source)
      PROVE  /\ Untouched(f, new) => disk'[f] = disk[f]
             /\ \A k \in 1..Len(new) : Touches(new[k], f) =>
                   LET e == new[k] IN
                   /\ e.kind = "created" => Exists(f)'
                   /\ e.kind = "modified" => Exists(f) /\ Exists(f)' /\ disk'[f].ino = disk[f].ino
                   /\ e.kind = "deleted" => ~Exists(f)'
                   /\ e.kind = "moved" /\ ~Under(f, e.dst) => ~Exists(f)'
                   /\ e.kind = "moved" /\ Under(f, e.dst) =>
                         /\ Len(new) = 1 /\ e.src \in File /\ e.dst = f
                         /\ Exists(e.src) /\ disk'[f] = disk[e.src]
                         /\ ~Unsettled(e)
  <2>1. Watched(f)
    BY <1>5, ScopeWatched
  <2> QED
    BY <1>1, <1>2, <1>5, <2>1, Told
<1>6. ASSUME NEW f \in File, f \notin strayed', InScope(f, Source), Settled(f, new)
      PROVE  /\ f \notin strayed
             /\ Exists(f)' <=> Exists(f)
             /\ Exists(f) => disk'[f].ino = disk[f].ino
  <2>1. ~\E k \in 1..Len(new) : new[k].kind = "created" /\ Under(f, new[k].src)
    BY <1>6 DEF Settled, Counts, Touches
  <2>2. f \notin strayed
    BY <1>2, <1>6, <2>1 DEF Reported
  <2>3. CASE Untouched(f, new)
    BY <1>5, <1>6, <2>2, <2>3 DEF Exists
  <2>4. CASE ~Untouched(f, new)
    <3>1. PICK k \in 1..Len(new) : Touches(new[k], f)
      BY <2>4 DEF Untouched
    <3>2. new[k].kind = "modified"
      BY <1>6, <3>1 DEF Settled, Counts
    <3> QED
      BY <1>5, <1>6, <2>2, <3>1, <3>2
  <2> QED
    BY <2>3, <2>4
<1>7. ASSUME NEW f \in File, f \notin strayed', InScope(f, Source)
      PROVE  RowAwaited(f, s \o new)'
  <2>3. ASSUME Settled(f, new)
        PROVE  /\ RowAwaited(f, s)
               /\ Exists(f)' <=> Exists(f)
               /\ Exists(f) => disk'[f].ino = disk[f].ino
    BY <1>3, <1>6, <1>7, <2>3 DEF RowInv
  <2>4. Settled(f, s \o new) => Sits(f)'
    <3> SUFFICES ASSUME Settled(f, s \o new) PROVE Sits(f)'
      OBVIOUS
    <3>1. Settled(f, s) /\ Settled(f, new)
      BY MoreCounts
    <3> QED
      BY <1>4, <2>3, <3>1 DEF RowAwaited, Sits
  <2>5. ASSUME NEW i, LastCount(i, f, s), Settled(f, new)
        PROVE  Says(f, s[i])'
    <3>1. Says(f, s[i])
      BY <2>3, <2>5 DEF RowAwaited, LastCount
    <3> QED
      BY <1>4, <2>3, <2>5, <3>1 DEF Says, Known
  <2>6. ASSUME NEW k \in 1..Len(new), Counts(new[k], f)
        PROVE  Says(f, new[k])'
    <3> DEFINE e == new[k]
    <3>1. Touches(e, f)
      BY <2>6 DEF Counts
    <3>2. ASSUME e.kind = "moved", Under(f, e.dst)
          PROVE  e.src \in File /\ e.dst = f /\ Exists(f)' /\ Known(f)'
      <4>1. /\ e.src \in File /\ e.dst = f
            /\ Exists(e.src) /\ disk'[f] = disk[e.src] /\ ~Unsettled(e)
        BY <1>5, <1>7, <3>1, <3>2
      <4>2. e.src \notin missed /\ head[e.src] # None /\ Untouched(e.src, Trail)
        BY <1>1, <4>1, TrailFacts DEF Unsettled, Untouched
      <4>3. Matches(e.src)
        BY <4>1, <4>2 DEF MirrorInv, Promised, Awaited
      <4> QED
        BY <1>4, <4>1, <4>3 DEF Matches, Exists, Known
    <3> HIDE DEF e
    <3>3. e = new[k]
      BY DEF e
    <3> QED
      BY <1>5, <1>7, <3>1, <3>2, <3>3 DEF Says
  <2>7. \A i \in 1..Len(s \o new) : LastCount(i, f, s \o new) => Says(f, (s \o new)[i])'
    <3> DEFINE st == s \o new
    <3>1. \A i : LastCount(i, f, st) =>
             \/ LastCount(i, f, s) /\ Settled(f, new) /\ st[i] = s[i]
             \/ \E k \in 1..Len(new) : st[i] = new[k] /\ Counts(new[k], f)
      BY MoreCounts
    <3> HIDE DEF st
    <3>2. \A i \in 1..Len(st) : LastCount(i, f, st) => Says(f, st[i])'
      BY <2>5, <2>6, <3>1
    <3> QED
      BY <3>2 DEF st
  <2> QED
    BY <2>4, <2>7 DEF RowAwaited, Settled, LastCount
<1>8. RowHand'
  <2> SUFFICES ASSUME Looking, NEW f \in File, f \notin strayed', f = task.event.dst,
                      InScope(f, Source), Settled(f, queue \o new)
               PROVE  Exists(f)' /\ disk'[f].ino = task.found
    BY <1>2 DEF RowHand, Looking, Reported
  <2>1. Settled(f, queue) /\ Settled(f, new)
    BY <1>1, MoreCounts, RowTrailTypes
  <2>2. /\ f \notin strayed /\ (Exists(f)' <=> Exists(f))
        /\ Exists(f) => disk'[f].ino = disk[f].ino
    BY <1>6, <2>1
  <2> QED
    BY <2>1, <2>2 DEF RowInv, RowHand
<1> QED
  BY <1>3, <1>7, <1>8 DEF RowInv

\* An event is taken: the row of a file it counts for is set, others stay.
LEMMA EventTaken ==
    ASSUME TypeOK, RowInv, disk' = disk, strayed \subseteq strayed', ~Looking',
           queue' \in Seq(Event), NEW e \in Event, Shifted(RowTrail, queue', e),
           \A f \in File \ strayed' :
              /\ Exists(f) /\ Known(f) => Known(f)'
              /\ ~Counts(e, f) /\ Sits(f) => Sits(f)'
              /\ InScope(f, Source) /\ Counts(e, f) /\ Says(f, e) /\ Settled(f, queue')
                    => Sits(f)'
    PROVE  RowInv'
<1>1. PICK s \in Seq(Event), t \in Seq(Event) : s = RowTrail /\ t = queue' /\ t = RowTrail'
  BY RowTrailTypes DEF RowTrail
<1>2. /\ 1 \in 1..Len(s) /\ s[1] = e
      /\ \A i \in 1..Len(t) : t[i] = s[i + 1] /\ i + 1 \in 1..Len(s)
      /\ \A j \in 1..Len(s) : j = 1 \/ (j - 1 \in 1..Len(t) /\ t[j - 1] = s[j])
      /\ Len(s) \in Nat /\ Len(t) \in Nat
  BY <1>1, LenProperties DEF Shifted
<1>3. ASSUME NEW f \in File, f \notin strayed', InScope(f, Source)
      PROVE  RowAwaited(f, t)'
  <2>1. RowAwaited(f, s)
    BY <1>1, <1>3 DEF RowInv
  <2>2. ASSUME Settled(f, t) PROVE Sits(f)'
    <3>1. CASE Counts(e, f)
      <4>1. \A j \in 1..Len(s) : j > 1 => ~Counts(s[j], f)
        BY <1>2, <2>2 DEF Settled
      <4>2. LastCount(1, f, s)
        BY <1>2, <3>1, <4>1 DEF LastCount
      <4> QED
        BY <1>1, <1>2, <1>3, <2>1, <2>2, <3>1, <4>2 DEF RowAwaited
    <3>2. CASE ~Counts(e, f)
      <4>1. Settled(f, s)
        BY <1>2, <2>2, <3>2 DEF Settled
      <4> QED
        BY <1>3, <2>1, <3>2, <4>1 DEF RowAwaited
    <3> QED
      BY <3>1, <3>2
  <2>3. ASSUME NEW i \in 1..Len(t), LastCount(i, f, t) PROVE Says(f, t[i])'
    <3>1. i + 1 \in 1..Len(s) /\ t[i] = s[i + 1]
      BY <1>2
    <3>2. LastCount(i + 1, f, s)
      <4>1. \A j \in 1..Len(s) : j > i + 1 => j - 1 \in 1..Len(t) /\ t[j - 1] = s[j] /\ j - 1 > i
        BY <1>2
      <4> QED
        BY <2>3, <3>1, <4>1 DEF LastCount
    <3>3. Says(f, t[i])
      BY <2>1, <3>1, <3>2 DEF RowAwaited
    <3> QED
      BY <1>3, <3>3 DEF Says, Exists
  <2> QED
    BY <2>2, <2>3 DEF RowAwaited, Settled, LastCount
<1> QED
  BY <1>1, <1>3 DEF RowInv, RowHand

\* Nothing of a task is looked at while there is none.
LEMMA NewTrail ==
    ASSUME TypeOK, NEW kind, Pick(kind)
    PROVE  RowTrail = queue /\ Shifted(RowTrail, queue', Head(queue)) /\ queue' \in Seq(Event)
BY PickShifts DEF Pick, RowTrail, Looking

\* _append_context sets one row, which is no other file's.
LEMMA AppendRowSits ==
    ASSUME NEW N, Setting(N), TypeOK, Distinct, disk' = disk,
           NEW p \in File, Exists(p), AppendRow(p)
    PROVE  /\ RowsKept
           /\ Sits(p)'
           /\ \A f \in File : Sits(f) => Sits(f)'
<1>1. /\ row' = [row EXCEPT ![disk[p].ino] = [loc |-> p, active |-> TRUE]]
      /\ row'[disk[p].ino] = [loc |-> p, active |-> TRUE]
      /\ RowsKept
  BY AppendRowFacts DEF RowsKept
<1>2. Sits(p)'
  BY <1>1 DEF Sits
<1>3. ASSUME NEW f \in File, Sits(f) PROVE Sits(f)'
  <2>1. CASE f = p
    BY <1>2, <2>1
  <2>2. CASE f # p /\ Exists(f)
    <3>1. disk[f].ino # disk[p].ino /\ disk[f].ino \in Ino
      BY <2>2 DEF Distinct, TypeOK, Exists
    <3>2. row'[disk[f].ino] = row[disk[f].ino]
      BY <1>1, <3>1 DEF TypeOK
    <3> QED
      BY <1>3, <3>2 DEF Sits, Exists
  <2>3. CASE ~Exists(f)
    BY <2>3 DEF Sits, Exists
  <2> QED
    BY <2>1, <2>2, <2>3
<1> QED
  BY <1>1, <1>2, <1>3

LEMMA CreatedRowRows ==
    ASSUME NEW N, Setting(N), Base, RowInv, CreatedRow
    PROVE  RowInv'
<1>1. PICK e \in Event :
         /\ TypeOK /\ Distinct
         /\ Pick("created") /\ e = Head(queue) /\ e.kind = "created"
         /\ UNCHANGED <<disk, strayed>>
         /\ task' = [event |-> e, found |-> None] \/ task' = None
  BY PickFacts DEF Base, CreatedRow, Continue, history
<1>2. e.src \in File /\ \A f \in File : Touches(e, f) <=> f = e.src
  BY <1>1, OneFile
<1>3. Shifted(RowTrail, queue', e) /\ queue' \in Seq(Event) /\ ~Looking'
  BY <1>1, NewTrail DEF Looking
<1>4. CASE Exists(e.src)
  <2>1. PICK p \in File : p = e.src /\ AppendRow(p)
    BY <1>1, <1>2, <1>4 DEF CreatedRow
  <2>2. RowsKept /\ Sits(p)' /\ \A f \in File : Sits(f) => Sits(f)'
    BY <1>1, <1>4, <2>1, AppendRowSits
  <2>3. \A f \in File : Exists(f) /\ Known(f) => Known(f)'
    BY <1>1, <2>2, StillKnown
  <2> QED
    BY <1>1, <1>2, <1>3, <2>1, <2>2, <2>3, EventTaken DEF Counts
<1>5. CASE ~Exists(e.src)
  <2>1. row' = row
    BY <1>1, <1>5 DEF CreatedRow
  <2>2. \A f \in File : /\ Exists(f) /\ Known(f) => Known(f)'
                        /\ Sits(f) => Sits(f)'
    BY <1>1, <2>1 DEF Sits, Known, Exists
  <2>3. \A f \in File : ~(Counts(e, f) /\ Says(f, e))
    BY <1>1, <1>2, <1>5 DEF Counts, Says
  <2> QED
    BY <1>1, <1>3, <2>2, <2>3, EventTaken
<1> QED
  BY <1>4, <1>5

LEMMA ReadModifiedRows ==
    ASSUME Base, RowInv, ReadModified
    PROVE  RowInv'
<1>1. PICK e \in Event :
         /\ TypeOK
         /\ Pick("modified") /\ e = Head(queue) /\ e.kind = "modified"
         /\ UNCHANGED <<disk, row, strayed>>
         /\ task' = None \/ \E c : task' = [event |-> e, found |-> c]
  BY PickFacts DEF Base, ReadModified, Continue, history
<1>2. Shifted(RowTrail, queue', e) /\ queue' \in Seq(Event) /\ ~Looking'
  BY <1>1, NewTrail DEF Looking
<1>3. \A f \in File : /\ Exists(f) /\ Known(f) => Known(f)'
                      /\ Sits(f) => Sits(f)'
                      /\ ~Counts(e, f)
  BY <1>1 DEF Sits, Known, Exists, Counts
<1> QED
  BY <1>1, <1>2, <1>3, EventTaken

LEMMA DeletedRowRows ==
    ASSUME NEW N, Setting(N), Base, RowInv, DeletedRow
    PROVE  RowInv'
<1>1. PICK e \in Event :
         /\ TypeOK
         /\ Pick("deleted") /\ e = Head(queue) /\ e.kind = "deleted"
         /\ UNCHANGED <<disk, strayed>>
         /\ task' = [event |-> e, found |-> None]
         /\ row' = [i \in Ino |->
                       IF row[i] # None /\ Under(row[i].loc, e.src)
                       THEN [row[i] EXCEPT !.active = FALSE] ELSE row[i]]
  BY PickFacts DEF Base, DeletedRow, Continue, history
<1>2. Shifted(RowTrail, queue', e) /\ queue' \in Seq(Event) /\ ~Looking'
  BY <1>1, NewTrail DEF Looking
<1>3. \A f \in File : Exists(f) /\ Known(f) => Known(f)'
  <2>1. \A i \in Ino : row[i] # None =>
           [row[i] EXCEPT !.active = FALSE] \in [loc : File, active : BOOLEAN]
    BY <1>1 DEF TypeOK
  <2>2. RowsKept
    BY <1>1, <2>1 DEF RowsKept, Setting
  <2> QED
    BY <1>1, <2>2, StillKnown
<1>4. ASSUME NEW f \in File, ~Counts(e, f), Sits(f)
      PROVE  Sits(f)'
  <2>1. ~Under(f, e.src)
    BY <1>1, <1>4 DEF Counts, Touches
  <2>2. CASE Exists(f)
    <3>1. disk[f].ino \in Ino /\ row[disk[f].ino] = [loc |-> f, active |-> TRUE]
      BY <1>1, <1>4, <2>2 DEF Sits, TypeOK, Exists
    <3>2. row'[disk[f].ino] = row[disk[f].ino]
      BY <1>1, <2>1, <3>1
    <3> QED
      BY <1>1, <3>1, <3>2 DEF Sits
  <2>3. CASE ~Exists(f)
    BY <1>1, <2>3 DEF Sits, Exists
  <2> QED
    BY <2>2, <2>3
<1>5. ASSUME NEW f \in File, Counts(e, f), Says(f, e)
      PROVE  Sits(f)'
  BY <1>1, <1>5 DEF Says, Sits, Exists
<1> QED
  BY <1>1, <1>2, <1>3, <1>4, <1>5, EventTaken

LEMMA MovedRowRows ==
    ASSUME NEW N, Setting(N), Base, RowInv, MovedRow
    PROVE  RowInv'
<1> DEFINE e == Head(queue)
<1>1. /\ TypeOK /\ Pick("moved") /\ e \in Event /\ e.kind = "moved" /\ Movable(e)
      /\ UNCHANGED <<disk, strayed>>
      /\ row' = MovedRows(e)
  BY PickFacts DEF Base, MovedRow, history
<1>2. PICK n \in Stat(e.dst) : task' = [event |-> e, found |-> n]
  BY DEF MovedRow, Continue
<1>3. Shifted(RowTrail, queue', e) /\ queue' \in Seq(Event) /\ RowTrail = queue
  BY <1>1, NewTrail
<1>4. Trail' = Trail /\ Trail = queue /\ task' # None
  <2>1. n \in Ino \union Folder \union {None}
    BY <1>1, EventParts, StatFacts
  <2>2. [event |-> e, found |-> n] \in Task
    BY <1>1, <2>1 DEF Task
  <2>3. task' # None
    BY <1>2, <2>2 DEF Setting
  <2> QED
    BY <1>1, <1>2, <2>3, TrailOfPick
<1> HIDE DEF e
<1>5. e.dst \in File => n = IF Exists(e.dst) THEN disk[e.dst].ino ELSE None
  BY <1>1, EventParts, StatFacts
<1>6. /\ \A i \in Ino : row[i] # None => row'[i] # None
      /\ \A i \in Ino : row[i] # None /\ ~Under(row[i].loc, e.src) => row'[i] = row[i]
  BY <1>1, MovedRowsFacts
<1>7. \A f \in File : Exists(f) /\ Known(f) => Known(f)'
  BY <1>1, <1>6, StillKnown DEF RowsKept
<1>8. ASSUME NEW f \in File, ~Counts(e, f), Sits(f)
      PROVE  Sits(f)'
  <2>1. ~Under(f, e.src)
    BY <1>1, <1>8 DEF Counts, Touches
  <2>2. CASE Exists(f)
    <3> DEFINE j == disk[f].ino
               r == [loc |-> f, active |-> TRUE]
    <3>1. j \in Ino /\ row[j] = r /\ r.loc = f
      BY <1>1, <1>8, <2>2 DEF Sits, TypeOK, Exists
    <3>2. r # None
      <4>1. r \in [loc : File, active : BOOLEAN]
        OBVIOUS
      <4> QED
        BY <4>1 DEF Setting
    <3>3. row'[j] = row[j]
      <4> HIDE DEF j, r
      <4> QED
        BY <1>6, <2>1, <3>1, <3>2
    <3> QED
      BY <1>1, <3>1, <3>3 DEF Sits
  <2>3. CASE ~Exists(f)
    BY <1>1, <2>3 DEF Sits, Exists
  <2> QED
    BY <2>2, <2>3
<1>9. CASE n = None
  <2>1. ~Looking'
    BY <1>2, <1>9 DEF Looking
  <2>2. ASSUME NEW f \in File, Counts(e, f), Says(f, e)
        PROVE  Sits(f)'
    <3>1. e.dst \in File => ~Exists(e.dst)
      BY <1>1, <1>5, <1>9, VersioningAssumption DEF TypeOK, Exists
    <3>2. ~Exists(f)
      BY <1>1, <2>2, <3>1 DEF Says
    <3> QED
      BY <1>1, <3>2 DEF Sits, Exists
  <2> QED
    BY <1>1, <1>3, <1>7, <1>8, <2>1, <2>2, EventTaken
<1>10. CASE n # None
  <2>1. Looking' /\ task'.event = e /\ task'.found = n
    BY <1>1, <1>2, <1>4, <1>10 DEF Looking
  <2>2. PICK s \in Seq(Event) : s = RowTrail /\ s = RowTrail'
    BY <1>1, <1>3, <1>4, <2>1, RowTrailTypes DEF RowTrail
  <2>3. 1 \in 1..Len(s) /\ s[1] = e
    BY <1>3, <2>2 DEF Shifted
  <2>4. ASSUME NEW f \in File, RowAwaited(f, s) PROVE RowAwaited(f, s)'
    <3>1. Settled(f, s) => ~Counts(e, f)
      BY <2>3 DEF Settled
    <3>2. Settled(f, s) => Sits(f)'
      BY <1>8, <2>4, <3>1 DEF RowAwaited
    <3>3. \A o : Says(f, o) => Says(f, o)'
      BY <1>1, <1>7 DEF Says, Exists
    <3> QED
      BY <2>4, <3>2, <3>3 DEF RowAwaited, Settled, LastCount
  <2>5. RowHand'
    BY <1>1, <1>5, <1>10, <2>1 DEF RowHand, Exists
  <2> QED
    BY <1>1, <2>2, <2>4, <2>5 DEF RowInv
<1> QED
  BY <1>9, <1>10

\* The file that the handler found is still the one at the destination, and gets
\* the row, unless it is told of again or lost.
LEMMA MovedNodeRows ==
    ASSUME NEW N, Setting(N), Base, RowInv, MovedNode
    PROVE  RowInv'
<1>1. PICK e \in Event : \E n \in Stat(e.dst) :
         /\ task # None /\ e = task.event /\ e.kind = "moved" /\ task.found # None
         /\ UNCHANGED <<disk, queue>>
         /\ e.dst \in File => n = IF Exists(e.dst) THEN disk[e.dst].ino ELSE None
         /\ \/ Ends(e, n)
            \/ /\ task' = [event |-> e, found |-> None]
               /\ \/ Renames(e, n)
                  \/ ~(n \in Ino /\ row[n] # None) /\ n # None /\ UNCHANGED <<row, history>>
  BY NodeFacts DEF Base
<1>2. PICK n :
         /\ e.dst \in File => n = IF Exists(e.dst) THEN disk[e.dst].ino ELSE None
         /\ \/ Ends(e, n)
            \/ /\ task' = [event |-> e, found |-> None]
               /\ \/ Renames(e, n)
                  \/ ~(n \in Ino /\ row[n] # None) /\ n # None /\ UNCHANGED <<row, history>>
  BY <1>1
<1>3. /\ TypeOK /\ Distinct /\ Looking
      /\ Ends(e, n) \/ Renames(e, n) \/ row' = row
      /\ strayed \subseteq strayed'
  BY <1>1, <1>2 DEF Base, Looking, Ends, Renames, history
<1>4. ~Looking' /\ RowTrail = Trail /\ queue' \in Seq(Event) /\ Shifted(RowTrail, queue', e)
  <2>1. ~Looking'
    BY <1>2 DEF Looking, Ends
  <2>2. queue \in Seq(Event) /\ Shifted(Trail, queue, e)
    BY <1>1, <1>3, TrailShifts
  <2> QED
    BY <1>1, <1>3, <2>1, <2>2 DEF RowTrail
<1>5. ASSUME NEW f \in File, f \notin strayed', Exists(f), Known(f), f # e.dst \/ ~Renames(e, n)
      PROVE  row'[disk[f].ino] = row[disk[f].ino]
  <2> DEFINE j == disk[f].ino
  <2>1. j \in Ino /\ row[j] # None
    BY <1>3, <1>5 DEF TypeOK, Exists, Known
  <2>2. CASE Renames(e, n)
    <3>1. e.dst \in File /\ n \in Ino /\ (n = task.found \/ row[task.found] = None)
      BY <2>2 DEF Renames
    <3>2. Exists(e.dst) /\ disk[e.dst].ino = n
      BY <1>2, <3>1, VersioningAssumption
    <3>3. j # n
      BY <1>3, <1>5, <2>2, <3>1, <3>2 DEF Distinct
    <3> HIDE DEF j
    <3> QED
      BY <1>3, <2>1, <2>2, <3>1, <3>3, RenamesKeeps DEF j
  <2>3. CASE ~Renames(e, n)
    BY <1>3, <2>3 DEF Ends
  <2> QED
    BY <2>2, <2>3
<1>6. ASSUME NEW f \in File, f \notin strayed', Exists(f), Known(f)
      PROVE  Known(f)'
  <2>1. CASE f # e.dst \/ ~Renames(e, n)
    BY <1>1, <1>5, <1>6, <2>1 DEF Known
  <2>2. CASE f = e.dst /\ Renames(e, n)
    <3>1. n = task.found /\ n = disk[f].ino /\ n \in Ino /\ row[n] # None
      BY <1>2, <1>6, <2>2 DEF Renames
    <3>2. row'[n] # None
      BY <1>3, <2>2, <3>1, RenamesKeeps
    <3> QED
      BY <1>1, <3>1, <3>2 DEF Known
  <2> QED
    BY <2>1, <2>2
<1>7. ASSUME NEW f \in File, f \notin strayed', ~Counts(e, f), Sits(f)
      PROVE  Sits(f)'
  <2>1. f # e.dst
    BY <1>1, <1>7, FileUnder DEF Counts, Touches
  <2>2. Exists(f) => Known(f)
    <3>1. [loc |-> f, active |-> TRUE] # None
      <4>1. [loc |-> f, active |-> TRUE] \in [loc : File, active : BOOLEAN]
        OBVIOUS
      <4> QED
        BY <4>1 DEF Setting
    <3> QED
      BY <1>7, <3>1 DEF Sits, Known
  <2> QED
    BY <1>1, <1>5, <1>7, <2>1, <2>2 DEF Sits, Exists
<1>8. ASSUME NEW f \in File, f \notin strayed', InScope(f, Source), Counts(e, f), Says(f, e),
             Settled(f, queue')
      PROVE  Sits(f)'
  <2>1. CASE ~Under(f, e.dst)
    BY <1>1, <1>8, <2>1 DEF Says, Sits, Exists
  <2>2. CASE Under(f, e.dst)
    <3>1. e.dst = f /\ Exists(f) /\ Known(f)
      BY <1>1, <1>8, <2>2 DEF Says
    <3>2. disk[f].ino = task.found
      BY <1>1, <1>3, <1>8, <3>1 DEF RowInv, RowHand
    <3>3. n = disk[f].ino /\ n \in Ino /\ row[n] # None
      BY <1>2, <1>3, <3>1 DEF Known, TypeOK, Exists
    <3>4. Renames(e, n)
      BY <1>1, <1>2, <3>2, <3>3 DEF Ends
    <3>5. row'[n] = [loc |-> e.dst, active |-> InScope(e.dst, Source)]
      BY <1>3, <3>2, <3>3, <3>4, RenamesTypes
    <3>6. InScope(f, Source) = TRUE
      BY <1>8
    <3> QED
      BY <1>1, <3>1, <3>3, <3>5, <3>6 DEF Sits
  <2> QED
    BY <2>1, <2>2
<1> QED
  BY <1>1, <1>3, <1>4, <1>6, <1>7, <1>8, EventTaken

LEMMA ModifiedUnknownRows ==
    ASSUME NEW N, Setting(N), Base, RowInv, ModifiedUnknown
    PROVE  RowInv'
<1>1. PICK p \in File :
         /\ TypeOK /\ Distinct
         /\ Exists(p) /\ AppendRow(p) /\ UNCHANGED <<disk, queue, strayed>>
         /\ task' = [event |-> Ev("created", p), found |-> None]
         /\ task.event.kind = "modified"
  BY EventParts DEF Base, ModifiedUnknown, Continue, history, TypeOK
<1>2. RowsKept /\ \A f \in File : Sits(f) => Sits(f)'
  BY <1>1, AppendRowSits
<1>3. RowTrail = queue /\ ~Looking' /\ RowTrail' = queue
  BY <1>1 DEF RowTrail, Looking
<1>4. PICK s \in Seq(Event) : s = queue
  BY <1>1 DEF TypeOK
<1>5. ASSUME NEW f \in File, RowAwaited(f, s) PROVE RowAwaited(f, s)'
  <2>1. \A o : Says(f, o) => Says(f, o)'
    BY <1>1, <1>2, StillKnown DEF Says, Exists
  <2> QED
    BY <1>2, <1>5, <2>1 DEF RowAwaited, Settled, LastCount
<1> QED
  BY <1>1, <1>3, <1>4, <1>5 DEF RowInv, RowHand

LEMMA RowsStay == ASSUME NEW N, Setting(N) PROVE Spec => []RowInv
<1>1. Init => RowInv
  BY InitRows
<1>2. Base /\ MirrorInv /\ RowInv /\ [Next]_vars => RowInv'
  <2> SUFFICES ASSUME Base, MirrorInv, RowInv, [Next]_vars PROVE RowInv'
    OBVIOUS
  <2>1. CASE World
    <3>1. ASSUME NEW events, Change(events) PROVE RowInv'
      BY <3>1, ChangeRows
    <3>2. ASSUME NEW p, Expire(p) PROVE RowInv'
      BY <3>2, SameRows DEF Expire, history
    <3> QED
      BY <2>1, <3>1, <3>2, WorldChanges DEF Base
  <2>2. CASE Worker
    <3>1. CASE CreatedMirror \/ ModifiedMirror \/ DeletedMirror \/ MovedMirror
      <4>1. UNCHANGED <<disk, queue, row, strayed>> /\ ~Looking /\ ~Looking'
        BY <3>1 DEF CreatedMirror, ModifiedMirror, DeletedMirror, MovedMirror, At, history, Looking
      <4> QED
        BY <4>1, SameRows
    <3> QED
      BY <2>2, <3>1, CreatedRowRows, ReadModifiedRows, ModifiedUnknownRows, DeletedRowRows,
         MovedRowRows, MovedNodeRows DEF Worker
  <2>3. CASE UNCHANGED vars
    BY <2>3, SameRows DEF vars, history
  <2> QED
    BY <2>1, <2>2, <2>3 DEF Next
<1> QED
  BY <1>1, <1>2, MirrorStays, PTL DEF Spec

\* Once the worker has caught up, a file in scope has an active row with its
\* path under its inode, whatever was renamed, replaced or deleted before
\* (_append_context, deactivate_with_subtree, moved_handle), unless its events
\* were lost.
THEOREM RowsFollowTheFiles ==
    ASSUME NEW N, Setting(N)
    PROVE  Spec => []RowsFollowFiles
<1>1. RowInv => RowsFollowFiles
  BY DEF RowInv, RowTrail, Looking, RowsFollowFiles, CaughtUp, RowAwaited, Settled, Sits
<1> QED
  BY <1>1, RowsStay, PTL

=============================================================================
